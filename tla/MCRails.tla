------------------------------ MODULE MCRails -------------------------------
(* Two plans.  Loop: a command and a card side by side, a check that sends *)
(* the rail back over the card, and a rail that waits for this one.        *)
(* Wait: a step that starts another rail, and there an agent and a wait on *)
(* its pull request, one after the other.                                  *)
EXTENDS Rails

Two == <<"A", "B">>

LoopStages == [r \in {"A", "B"} |->
                IF r = "A" THEN << <<"g", "c">>, <<"u">> >> ELSE << <<"v">> >>]
LoopKind == [s \in {"c", "g", "u", "v"} |->
                CASE s = "c" -> "card" [] s = "g" -> "command"
                  [] s = "u" -> "until" [] s = "v" -> "review"]
LoopTrigger == [r \in {"A", "B"} |-> IF r = "B" THEN "A" ELSE "off"]
LoopTarget == <<>>

WaitStages == [r \in {"A", "B"} |->
                IF r = "A" THEN << <<"a">> >> ELSE << <<"g", "p">>, <<"m">> >>]
WaitSequence == {<<"B", 1>>}
WaitKind == [s \in {"a", "g", "p", "m"} |->
                CASE s = "a" -> "gavin" [] s = "g" -> "agent"
                  [] s = "p" -> "pr" [] s = "m" -> "command"]
WaitTrigger == [r \in {"A", "B"} |-> "off"]
WaitTarget == [s \in {"a"} |-> "B"]
=============================================================================
