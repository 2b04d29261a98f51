-------------------------------- MODULE MCTexts --------------------------------
(* One plain character and every one that somebody treats in its own way;  *)
(* colors of one digit and of two, within the range and beyond it.         *)
EXTENDS Texts

MCChars == {"x", Space, Colon, Quote, Backslash, Soh}
MCOwnWords == <<<<"x">>, <<"x", Quote>>, <<"x", "x", Colon>>>>
MCDigit == ("0" :> 0) @@ ("9" :> 9)
MCColorTags ==
  ("COLOR=GREEN" :> <<"0", "9">>) @@ ("COLOR=GREEN/GREEN" :> <<"0", "9", ",", "0", "9">>)
  @@ ("COLOR=GREEN/WHITE" :> <<"0", "9", ",", "0", "0">>)
MCMircPieces == {<<"x">>, <<Bold>>, <<Reset>>, <<Color>>, <<"0">>, <<"9">>, <<",">>,
                 <<Color, "9">>, <<Color, "9", ",", "9">>}
MCTagPieces == {<<"x">>, <<"[">>, <<"]">>, <<",">>, <<"9">>}
               \cup {<<"[", n, "]">> : n \in {"B", "/B", "/COLOR"} \cup DOMAIN MCColorTags}
=============================================================================
