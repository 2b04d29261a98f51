---------------------------- MODULE MCEventDelivery ----------------------------
EXTENDS EventDelivery

=============================================================================
