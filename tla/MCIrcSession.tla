---------------------------- MODULE MCIrcSession ----------------------------
(* IrcSession as it is; its one parameter, a bound, is given in the .cfg.   *)
EXTENDS IrcSession

=============================================================================
