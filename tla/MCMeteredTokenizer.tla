------------------------- MODULE MCMeteredTokenizer -------------------------
(***************************************************************************)
(* Small instances of MeteredTokenizer for TLC.                            *)
(***************************************************************************)
EXTENDS MeteredTokenizer, TLC

\* "g", passed with a trailing blank, is a name tiktoken knows; "l" is not.
MCModels == {<<"g", " ">>, <<"l">>}
MCTexts == {<<"a", " ", "b", "c", " ">>}
MCEncoding == <<"g">> :> "o200k_base"
MCBPE == [e \in {"o200k_base", "cl100k_base"} |->
            [s \in MCTexts |-> IF e = "o200k_base" THEN Len(s) ELSE Len(s) + 1]]
MCKeys == {CallKey(m) : m \in Labels}
=============================================================================
