------------------------------ MODULE MCInputs ------------------------------
(***************************************************************************)
(* The three places where the miner reads what others wrote, one at a time:*)
(*   - "stream": LineFraming, every stream of a few bytes, cut into reads  *)
(*     in every way;                                                       *)
(*   - "startup": CommandLine, every argument list of up to three tokens,  *)
(*     over the tokens one parser tells apart and a flag of another's;     *)
(*   - "target": ShareTarget, words of two bytes of four bits' worth,      *)
(*     every text of up to seven characters, and the longer ones that      *)
(*     decode.                                                             *)
(***************************************************************************)
EXTENDS LineFraming, CommandLine, ShareTarget

VARIABLE part

T(flag, value) == [flag |-> flag, value |-> value]
Plain(value) == T("", value)
Bare(flag) == T(flag, "(no value)")
Every(flag, values) == {T(flag, v) : v \in values}
UpTo(n, S) == UNION {[1 .. k -> S] : k \in 0 .. n}
Env(tls, nat, ver) == [tls |-> tls, native |-> nat, verify |-> ver]

SwitchValues == {"(blank)", "(junk)", "on", "true", "off", "no"}
PinTokens == Every("tls", {"(blank)", "(junk)", "pin A", "pin B"})
                 \cup {Bare("tls"), Bare("native"), Plain("(blank)"), Plain("pin A")}
NativeTokens == Every("native", SwitchValues)
                 \cup {Bare("native"), Bare("tls"), Plain("(blank)"), Plain("yes"), Plain("1"), Plain("false")}
VerifyTokens == Every("verify", SwitchValues \ {"(junk)"})
                 \cup {Bare("verify"), Bare("donate"), T("donate", "200"),
                       Plain("(blank)"), Plain("off"), Plain("0"), Plain("1"), Plain("(junk)")}
StartInputs ==
    [argv : UpTo(3, PinTokens),
     env : {Env(v, "off", "off") : v \in {"(absent)", "(blank)", "(junk)", "pin B"}}]
    \cup [argv : UpTo(3, NativeTokens),
          env : {Env("(absent)", v, "(absent)") : v \in SwitchValues \cup {"(absent)"}}]
    \cup [argv : UpTo(3, VerifyTokens),
          env : {Env("(absent)", "(absent)", v) : v \in SwitchValues \cup {"(absent)"}}]

StartNumbers == [v \in {"0", "1", "200"} |->
                    CASE v = "0" -> 0 [] v = "1" -> 1 [] OTHER -> 200]

TargetTexts == UpTo(7, 0 .. 2) \cup [1 .. 8 -> 0 .. 1] \cup [1 .. 10 -> 0 .. 1]

(* Values for the variables of the parts that do not run. *)
StartupIdle ==
    /\ argv = <<>> /\ env = Env("(absent)", "(absent)", "(absent)")
    /\ address = "tls port" /\ stage = "level" /\ level = 0 /\ pin = "(absent)"
    /\ native = TRUE /\ verify = TRUE /\ session = <<>>
TargetIdle == text = <<>> /\ reading = "received" /\ target = <<>> /\ difficulty = 0

MCInit == Init /\ \/ part = "stream" /\ StartupIdle /\ TargetIdle
                  \/ part = "startup" /\ StartupInit /\ TargetIdle
                  \/ part = "target" /\ StartupIdle /\ TargetInit

MCNext == /\ UNCHANGED part
          /\ \/ part = "stream" /\ Next /\ UNCHANGED <<startupVars, targetVars>>
             \/ part = "startup" /\ StartupNext /\ UNCHANGED <<vars, targetVars>>
             \/ part = "target" /\ TargetNext /\ UNCHANGED <<vars, startupVars>>

MCSpec == MCInit /\ [][MCNext]_<<part, vars, startupVars, targetVars>>
=============================================================================
