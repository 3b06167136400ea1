---------------------------- MODULE CommandLine ----------------------------
(***************************************************************************)
(* What bin/minertim.rs makes of its arguments and environment, and what   *)
(* the pool connection makes of the certificate pin it is handed.          *)
(*                                                                         *)
(* Four parsers scan the same argument list, each on its own: a token one  *)
(* of them takes for a value is still a flag to another.  A token is       *)
(*   [flag |-> f, value |-> v]         for --f=v,                          *)
(*   [flag |-> f, value |-> NoValue]   for --f alone,                      *)
(*   [flag |-> "", value |-> v]        for a plain v.                      *)
(* A value is told apart as far as the parsers do: empty or white space,   *)
(* one of the words of a switch (in any case, white space around it or     *)
(* not), a number, a well-formed fingerprint, or something else.           *)
(***************************************************************************)
EXTENDS Naturals, Sequences, SequencesExt

CONSTANTS Inputs,      \* the argument lists and environments considered
          Addresses,   \* pool addresses: "tls port", "other port", "no port"
          Pins,        \* certificate digests, the well-formed fingerprints
          Trusted,     \* those whose certificate standard verification accepts
          Numbers      \* the values that parse as a u8, with their numbers

VARIABLES argv, env,                      \* as the program found them
          address,
          stage,
          level, pin, native, verify,     \* what main resolved
          session                         \* the stream the miner talks on

startupVars == <<argv, env, address, stage, level, pin, native, verify, session>>

NoValue == "(no value)"
Blank == "(blank)"
Junk == "(junk)"
Absent == "(absent)"
Malformed == "(malformed)"

Token == {t \in [flag : STRING, value : STRING] : t.flag = "" => t.value # NoValue}

ASSUME InputAssumption ==
    /\ \A input \in Inputs : input.argv \in Seq(Token) /\ input.env.tls # NoValue
    /\ Pins \cap {NoValue, Blank, Junk, Absent, Malformed} = {}
-----------------------------------------------------------------------------
(* The values one parser meets, in the order it meets them: a flag without *)
(* its own value takes the next token, whatever that is, and skips it.     *)
AsValue(token) == IF token.flag = "" THEN token.value ELSE Junk

ValuesOf(flag) ==
    LET from[i \in 1 .. Len(argv) + 2] ==
          CASE i > Len(argv) -> <<>>
            [] i <= Len(argv) /\ argv[i].flag # flag -> from[i + 1]
            [] i <= Len(argv) /\ argv[i].flag = flag /\ argv[i].value # NoValue ->
                 <<argv[i].value>> \o from[i + 1]
            [] OTHER ->
                 IF i = Len(argv) THEN <<NoValue>>
                 ELSE <<AsValue(argv[i + 1])>> \o from[i + 2]
    IN from[1]

DEFAULT_DONATE_LEVEL == 5
MIN_DONATE_LEVEL == 1
MAX_DONATE_LEVEL == 100

clamp_level(l) == Max({MIN_DONATE_LEVEL, Min({l, MAX_DONATE_LEVEL})})

(* A value that does not parse as a u8 leaves the level alone. *)
parse_donate_level ==
    LET take(l, v) == IF v \in DOMAIN Numbers THEN Numbers[v] ELSE l
    IN clamp_level(FoldLeft(take, DEFAULT_DONATE_LEVEL, ValuesOf("donate")))

(* Faulty variant: an empty value replaces the pin resolved before. *)
TakePinOrErase(resolved, v) ==
    IF resolved = Malformed \/ v = NoValue THEN resolved
    ELSE IF v = Blank THEN Absent
    ELSE IF v \in Pins THEN v ELSE Malformed

(* An error ends the scan; an empty or missing value declines. *)
TakePin(resolved, v) ==
    IF resolved = Malformed \/ v \in {NoValue, Blank, Absent} THEN resolved
    ELSE IF v \in Pins THEN v ELSE Malformed

parse_tls_fingerprint ==
    FoldLeft(TakePin, TakePin(Absent, env.tls), ValuesOf("tls"))

OnWords == {"on", "true", "yes", "1"}
OffWords == {"off", "false", "no", "0"}

(* Faulty variant: a value that does not parse is as good as none. *)
as_bool_or_unset(v, fail_safe) ==
    CASE v \in OnWords -> <<TRUE>> [] v \in OffWords -> <<FALSE>> [] OTHER -> <<>>

(* <<b>> for Some(b), <<>> for None. *)
as_bool(v, fail_safe) ==
    CASE v \in {Blank, Absent} -> <<>>
      [] v \in OnWords -> <<TRUE>>
      [] v \in OffWords -> <<FALSE>>
      [] OTHER -> <<fail_safe>>

parse_switch(flag, env_value, default_on, fail_safe) ==
    LET take(value, v) ==
          IF as_bool(v, fail_safe) # <<>> THEN as_bool(v, fail_safe) ELSE value
        value == FoldLeft(take, as_bool(env_value, fail_safe), ValuesOf(flag))
    IN IF value = <<>> THEN default_on ELSE value[1]

NativeLoopSwitch == [flag |-> "native", default_on |-> TRUE, fail_safe |-> FALSE]
VerifySharesSwitch == [flag |-> "verify", default_on |-> TRUE, fail_safe |-> TRUE]

Parse(switch, env_value) ==
    parse_switch(switch.flag, env_value, switch.default_on, switch.fail_safe)
-----------------------------------------------------------------------------
(* The program, from main to the stream it mines on. *)
StartupInit ==
    /\ \E input \in Inputs : argv = input.argv /\ env = input.env
    /\ address \in Addresses
    /\ stage = "level"
    /\ level = DEFAULT_DONATE_LEVEL
    /\ pin = Absent
    /\ native = TRUE /\ verify = TRUE
    /\ session = <<>>

ParseDonateLevel ==
    /\ stage = "level"
    /\ level' = parse_donate_level
    /\ stage' = "tls"
    /\ UNCHANGED <<argv, env, address, pin, native, verify, session>>

(* main exits with status 2 on a malformed pin. *)
ParseTlsFingerprint ==
    /\ stage = "tls"
    /\ pin' = parse_tls_fingerprint
    /\ stage' = IF pin' = Malformed THEN "exit" ELSE "switches"
    /\ UNCHANGED <<argv, env, address, level, native, verify, session>>

(* parse_native_loop and parse_verify_shares, and the setters of Miner. *)
ParseSwitches ==
    /\ stage = "switches"
    /\ native' = Parse(NativeLoopSwitch, env.native)
    /\ verify' = Parse(VerifySharesSwitch, env.verify)
    /\ stage' = "initialize"
    /\ UNCHANGED <<argv, env, address, level, pin, session>>

(* An address without a port it can read is taken for a TLS one. *)
is_tls_port == address # "other port"

RefusesPlain == pin # Absent /\ ~is_tls_port

(* The certificate check of the handshake, which the first write starts. *)
server_verifier(certificate) ==
    IF pin # Absent THEN certificate = pin ELSE certificate \in Trusted

(* connect and the login after it, from Miner::initialize ("initialize")   *)
(* or from the receiver's reconnect or rotation ("mining"): the peer       *)
(* presents a certificate if asked, and is whoever answers this time.      *)
ConnectTls(certificate) ==
    /\ stage \in {"initialize", "mining"} /\ session = <<>>
    /\ ~RefusesPlain /\ is_tls_port
    /\ server_verifier(certificate)
    /\ session' = <<certificate>>
    /\ stage' = "mining"
    /\ UNCHANGED <<argv, env, address, level, pin, native, verify>>

ConnectPlain ==
    /\ stage \in {"initialize", "mining"} /\ session = <<>>
    /\ ~RefusesPlain /\ ~is_tls_port
    /\ session' = <<"plain">>
    /\ stage' = "mining"
    /\ UNCHANGED <<argv, env, address, level, pin, native, verify>>

(* The first failure ends the program; the receiver tries again. *)
ConnectFails ==
    /\ stage \in {"initialize", "mining"} /\ session = <<>>
    /\ stage' = IF stage = "initialize" THEN "exit" ELSE stage
    /\ UNCHANGED <<argv, env, address, level, pin, native, verify, session>>

(* The stream is torn down: an error, silence or a rotation. *)
Disconnect ==
    /\ session # <<>>
    /\ session' = <<>>
    /\ UNCHANGED <<argv, env, address, stage, level, pin, native, verify>>

StartupNext ==
    \/ ParseDonateLevel \/ ParseTlsFingerprint \/ ParseSwitches
    \/ \E certificate \in Pins : ConnectTls(certificate)
    \/ ConnectPlain \/ ConnectFails \/ Disconnect

StartupSpec == StartupInit /\ [][StartupNext]_startupVars
-----------------------------------------------------------------------------
(* Reference: what the operator wrote for a flag, wherever it stands, with *)
(* its place.  The environment comes before every argument.                *)
Written(flag, env_value) ==
    {[at |-> 0, value |-> env_value]} \cup
    {[at |-> i, value |-> argv[i].value] :
        i \in {j \in DOMAIN argv : argv[j].flag = flag /\ argv[j].value # NoValue}} \cup
    {[at |-> i, value |-> AsValue(argv[i + 1])] :
        i \in {j \in 1 .. Len(argv) - 1 : argv[j].flag = flag /\ argv[j].value = NoValue}}

Opinions(flag, env_value) ==
    {w \in Written(flag, env_value) : w.value \notin {Blank, Absent}}

LastOpinion(flag, env_value) ==
    LET os == Opinions(flag, env_value)
    IN (CHOOSE o \in os : \A p \in os : p.at <= o.at).value

(* A pin written anywhere is never lost on the way to a session: however   *)
(* it is given, and whatever empty values, other flags and reconnections   *)
(* come between, the miner talks to no pool but the one that showed the    *)
(* certificate pinned last; without a pin, never over TLS to one that      *)
(* standard verification rejects.                                          *)
PinEnforced ==
    session # <<>> =>
        IF Opinions("tls", env.tls) # {}
          THEN session = <<LastOpinion("tls", env.tls)>>
          ELSE session = <<"plain">> \/ session[1] \in Trusted

(* A switch is in its unsafe position (native loop on, verification off)   *)
(* only if the last thing written for it is one of the words for that      *)
(* position (on, true, yes, 1; off, false, no, 0), or nothing is written   *)
(* and it is the default: no typo, empty value, missing value or           *)
(* neighbouring flag puts it there.                                        *)
SwitchesFailSafe ==
    stage \in {"initialize", "mining"} =>
        \A s \in {<<NativeLoopSwitch, env.native, native>>,
                  <<VerifySharesSwitch, env.verify, verify>>} :
            s[3] # s[1].fail_safe =>
                IF Opinions(s[1].flag, s[2]) = {}
                  THEN s[3] = s[1].default_on
                  ELSE LastOpinion(s[1].flag, s[2])
                         \in IF s[3] THEN OnWords ELSE OffWords
=============================================================================
