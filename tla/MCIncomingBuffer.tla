-------------------------- MODULE MCIncomingBuffer --------------------------
(* Lines of none to three bytes, with a lone CR and a lone LF among them.   *)
(* Two bytes and the end just fit the buffer of four usable bytes, two      *)
(* lines need not, and the line of three bytes never does.                  *)
EXTENDS IncomingBuffer, TLC

CONSTANT a

MCByte == {a, CR, LF}
MCLine == {<<>>, <<a>>, <<CR>>, <<a, LF>>, <<a, a, a>>}

=============================================================================
