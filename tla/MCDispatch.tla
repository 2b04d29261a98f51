------------------------------ MODULE MCDispatch ------------------------------
EXTENDS Dispatch

(* Two ways to write our first nick, the nick of the other user, and one    *)
(* that begins with ours.                                                   *)
Exactly == {<<n, n>> : n \in Nick}
Folded == Exactly \cup {<<"bo", "BO">>, <<"BO", "bo">>}
LongStarts == Exactly \cup {<<"bob", "bo">>}
LongFolded == Folded \cup {<<"bob", "bo">>, <<"bob", "BO">>}

=============================================================================
