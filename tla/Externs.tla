------------------------------- MODULE Externs -------------------------------
(***************************************************************************)
(* The extern methods the interpreter implements, per target, and the      *)
(* lookup of an implementation for a call.  An implementation is abstracted *)
(* to what it does to the execution state:                                 *)
(*                                                                         *)
(*   "nothing"        the state is left alone and nothing is returned      *)
(*   "constant"       a field of the argument is set to a constant         *)
(*   "result"         the out argument, or the returned value, is a        *)
(*                    symbolic variable labelled with the call             *)
(*   "verification"   checksum_error is that variable under the condition  *)
(*                    of the call, and 0 otherwise                         *)
(*   "update"         the argument is that variable under the condition of *)
(*                    the call, and keeps its value otherwise              *)
(*   "header"         validity and fields of a header become variables     *)
(*                    labelled with the header                             *)
(*   "greater", "smaller"  the greater or smaller argument is returned     *)
(*   "placeholder"    only the placeholder of instance_type is set, which  *)
(*                    is not a program variable                            *)
(*   "register"       the apply method of a RegisterAction is executed on  *)
(*                    a symbolic register value                            *)
(*   "unimplemented"  the interpreter gives up                             *)
(*                                                                         *)
(* Documented gives the effect the comment above an implementation         *)
(* describes, where that is not what the implementation does.              *)
(***************************************************************************)
EXTENDS Naturals, Sequences, FiniteSets

Impl(method, params, effect) ==
    [method |-> method, params |-> params, effect |-> effect]

\* A whole family of methods with the same parameters and the same effect.
Impls(methods, params, effect) == {Impl(m, params, effect) : m \in methods}

-----------------------------------------------------------------------------
(* Core externs.                                                            *)

CorePacketIn ==
    {Impl("packet_in.extract", <<"hdr">>, "header"),
     Impl("packet_in.extract", <<"hdr", "sizeInBits">>, "header"),
     Impl("packet_in.lookahead", <<>>, "result"),
     Impl("packet_in.advance", <<"sizeInBits">>, "nothing"),
     Impl("packet_in.length", <<>>, "result")}

CoreOther ==
    {Impl("packet_out.emit", <<"hdr">>, "nothing"),
     Impl("verify", <<"bool", "error">>, "nothing")}

CoreExterns == CorePacketIn \cup CoreOther

-----------------------------------------------------------------------------
(* BMv2, v1model.                                                           *)

Bmv2Drop == {Impl("mark_to_drop", <<"standard_metadata">>, "constant")}

Bmv2Random == {Impl("random", <<"result", "lo", "hi">>, "result")}

Bmv2Checks ==
    {Impl("log_msg", <<"msg", "args">>, "nothing"), Impl("log_msg", <<"msg">>, "nothing")}
      \cup Impls({"assume", "assert"}, <<"check">>, "nothing")

Bmv2Register ==
    {Impl("register.write", <<"index", "value">>, "nothing"),
     Impl("register.read", <<"result", "index">>, "result")}

Bmv2Counter ==
    {Impl("counter.count", <<"index">>, "nothing"),
     Impl("direct_counter.count", <<>>, "nothing")}

Bmv2Meter ==
    {Impl("meter.execute_meter", <<"index", "result">>, "nothing"),
     Impl("direct_meter.read", <<"result">>, "nothing")}

Bmv2Digest == {Impl("digest", <<"receiver", "data">>, "nothing")}

Bmv2ClonePreserving ==
    {Impl("clone_preserving_field_list", <<"type", "session", "data">>, "placeholder")}

Bmv2Clone == {Impl("clone", <<"type", "session">>, "placeholder")}

Bmv2Again ==
    {Impl("resubmit_preserving_field_list", <<"data">>, "nothing"),
     Impl("recirculate_preserving_field_list", <<"index">>, "nothing")}

Bmv2Hash ==
    {Impl("hash", <<"result", "algo", "base", "data", "max">>, "result"),
     Impl("Checksum16.get", <<"data">>, "result")}

Bmv2Checksum ==
    LET params == <<"condition", "data", "checksum", "algo">>
    IN  Impls({"verify_checksum", "verify_checksum_with_payload"}, params, "verification")
          \cup Impls({"update_checksum", "update_checksum_with_payload"}, params, "update")

Bmv2Externs ==
    Bmv2Drop \cup Bmv2Random \cup Bmv2Checks \cup Bmv2Register \cup Bmv2Counter
      \cup Bmv2Meter \cup Bmv2Digest \cup Bmv2ClonePreserving \cup Bmv2Clone
      \cup Bmv2Again \cup Bmv2Hash \cup Bmv2Checksum

-----------------------------------------------------------------------------
(* Tofino.                                                                  *)

TofinoChecksum ==
    Impls({"Checksum.add", "Checksum.subtract"}, <<"data">>, "nothing")
      \cup Impls({"Checksum.verify", "Checksum.get"}, <<>>, "result")
      \cup {Impl("Checksum.subtract_all_and_deposit", <<"residual">>, "result"),
            Impl("Checksum.update", <<"data">>, "result"),
            Impl("Checksum.update", <<"data", "zeros_as_ones">>, "result")}

TofinoParser ==
    Impls({"ParserCounter.set", "ParserCounter.increment", "ParserCounter.decrement"},
          <<"value">>, "nothing")
      \cup Impls({"ParserCounter.is_zero", "ParserCounter.is_negative"}, <<>>, "result")
      \cup {Impl("ParserCounter.set", <<"field", "max", "rotate", "mask", "add">>,
                 "unimplemented"),
            Impl("ParserPriority.set", <<"prio">>, "nothing")}

TofinoFunctions ==
    {Impl("Hash.get", <<"data">>, "result"),
     Impl("Random.get", <<>>, "result"),
     Impl("max", <<"t1", "t2">>, "greater"),
     Impl("min", <<"t1", "t2">>, "smaller"),
     Impl("funnel_shift_right", <<"dst", "src1", "src2", "shift_amount">>, "unimplemented"),
     Impl("port_metadata_unpack", <<"pkt">>, "result")}
      \cup Impls({"invalidate", "is_validated"}, <<"field">>, "unimplemented")
      \cup Impls({"sizeInBits", "sizeInBytes"}, <<"h">>, "result")

TofinoCounter ==
    {Impl("Counter.count", <<"index">>, "nothing"),
     Impl("Counter.count", <<"index", "adjust_byte_count">>, "nothing"),
     Impl("DirectCounter.count", <<>>, "nothing"),
     Impl("DirectCounter.count", <<"adjust_byte_count">>, "nothing")}

TofinoMeter ==
    {Impl("Meter.execute", params, "result") :
        params \in {<<"index", "color">>, <<"index", "color", "adjust_byte_count">>,
                    <<"index">>, <<"index", "adjust_byte_count">>}}
      \cup {Impl("DirectMeter.execute", params, "result") :
        params \in {<<"color">>, <<"color", "adjust_byte_count">>, <<>>,
                    <<"adjust_byte_count">>}}

TofinoFilter ==
    {Impl("Lpf.execute", <<"val", "index">>, "unimplemented"),
     Impl("DirectLpf.execute", <<"val">>, "unimplemented"),
     Impl("Wred.execute", <<"val", "index">>, "result"),
     Impl("DirectWred.execute", <<"val">>, "result")}

TofinoRegister ==
    {Impl("Register.read", <<"index">>, "result"),
     Impl("Register.write", <<"index", "value">>, "nothing"),
     Impl("DirectRegister.read", <<>>, "result"),
     Impl("DirectRegister.write", <<"value">>, "nothing"),
     Impl("RegisterParam.read", <<>>, "unimplemented"),
     Impl("MathUnit.execute", <<"x">>, "unimplemented")}

TofinoRegisterAction ==
    {Impl("RegisterAction.execute", <<"index">>, "register"),
     Impl("RegisterAction.execute_log", <<>>, "unimplemented"),
     Impl("RegisterAction.apply", <<"value", "rv">>, "unimplemented"),
     Impl("RegisterAction.predicate", <<"cmplo", "cmphi">>, "unimplemented")}

TofinoDirectRegisterAction ==
    {Impl("DirectRegisterAction.execute", <<>>, "register"),
     Impl("DirectRegisterAction.apply", <<"value", "rv">>, "unimplemented"),
     Impl("DirectRegisterAction.predicate", <<"cmplo", "cmphi">>, "unimplemented")}

TofinoEmit ==
    {Impl("SelectorAction.execute", <<"index">>, "unimplemented"),
     Impl("SelectorAction.apply", <<"value", "rv">>, "unimplemented"),
     Impl("Mirror.emit", <<"session_id">>, "unimplemented"),
     Impl("Mirror.emit", <<"session_id", "hdr">>, "unimplemented"),
     Impl("Resubmit.emit", <<>>, "unimplemented"),
     Impl("Resubmit.emit", <<"hdr">>, "unimplemented"),
     Impl("Digest.pack", <<"data">>, "nothing")}

TofinoExterns ==
    TofinoChecksum \cup TofinoParser \cup TofinoFunctions \cup TofinoCounter
      \cup TofinoMeter \cup TofinoFilter \cup TofinoRegister \cup TofinoRegisterAction
      \cup TofinoDirectRegisterAction \cup TofinoEmit

-----------------------------------------------------------------------------
(* Nikss (PSA) and FPGA (XSA).                                              *)

PsaRandom == {Impl("Random.read", <<>>, "result")}

PsaChecks == Impls({"assume", "assert"}, <<"check">>, "nothing")

PsaRegister ==
    {Impl("Register.write", <<"index", "value">>, "nothing"),
     Impl("Register.read", <<"index">>, "result")}

PsaCounter ==
    {Impl("Counter.count", <<"index">>, "nothing"),
     Impl("DirectCounter.count", <<>>, "nothing")}

PsaMeter ==
    {Impl("Meter.execute", <<"index">>, "result"),
     Impl("Meter.execute", <<"index", "color">>, "result"),
     Impl("DirectMeter.execute", <<>>, "result"),
     Impl("DirectMeter.execute", <<"color">>, "result")}

PsaDigest == {Impl("Digest.pack", <<"data">>, "nothing")}

PsaPaths ==
    Impls({"psa_clone_i2e", "psa_resubmit", "psa_normal", "psa_clone_e2e"},
          <<"istd">>, "result")
      \cup {Impl("psa_recirculate", <<"istd", "edstd">>, "result")}

PsaHash ==
    {Impl("Hash.get_hash", <<"data">>, "result"),
     Impl("Hash.get_hash", <<"base", "data", "max">>, "result")}

PsaChecksum ==
    {Impl("Checksum.clear", <<>>, "nothing"),
     Impl("Checksum.update", <<"data">>, "nothing"),
     Impl("Checksum.get", <<>>, "result")}

PsaInternetChecksum ==
    {Impl("InternetChecksum.clear", <<>>, "nothing"),
     Impl("InternetChecksum.get", <<>>, "result"),
     Impl("InternetChecksum.get_state", <<>>, "result")}
      \cup Impls({"InternetChecksum.add", "InternetChecksum.subtract",
                  "InternetChecksum.set_state"}, <<"data">>, "nothing")

PsaExterns ==
    PsaRandom \cup PsaChecks \cup PsaRegister \cup PsaCounter \cup PsaMeter
      \cup PsaDigest \cup PsaPaths \cup PsaHash \cup PsaChecksum
      \cup PsaInternetChecksum

XsaExterns == {Impl("UserExtern.apply", <<"extern_in", "extern_out">>, "result")}

-----------------------------------------------------------------------------
(* Lookup.                                                                  *)

Targets == {"bmv2", "tofino", "nikss", "fpga"}

\* The lists a call is looked up in, first to last: processExtern of the target
\* falls back to that of its base class.
ImplLists(target) ==
    CASE target = "bmv2"   -> <<Bmv2Externs, CoreExterns>>
      [] target = "tofino" -> <<{}, TofinoExterns, CoreExterns>>
      [] target = "nikss"  -> <<PsaExterns, {}, CoreExterns>>
      [] target = "fpga"   -> <<XsaExterns, {}, CoreExterns>>

\* An argument that is passed without the name of its parameter.
Positional == "positional"

\* "if any arguments are named, then the parameter name must match"
Matches(params, args) ==
    /\ Len(params) = Len(args)
    /\ \A i \in 1..Len(args) : args[i] \in {Positional, params[i]}

\* ExternMethodImpls::find: the effects of the implementations a call matches.
\* More than one is an internal error.
Find(impls, method, args) ==
    LET matching == {i \in impls : i.method = method /\ Matches(i.params, args)}
    IN  IF Cardinality(matching) > 1 THEN "ambiguous"
        ELSE IF matching = {} THEN "unknown"
        ELSE (CHOOSE i \in matching : TRUE).effect

\* processExtern: the first list with an implementation decides; a call that no
\* list knows is not supported.
ProcessExtern(target, method, args) ==
    LET lists == ImplLists(target)
        known == {k \in DOMAIN lists : Find(lists[k], method, args) # "unknown"}
        first == CHOOSE k \in known : \A j \in known : k <= j
    IN  IF known = {} THEN "unimplemented" ELSE Find(lists[first], method, args)

\* The calls a program for the target can contain: all arguments by name, or
\* all by position.
CallsOf(target) ==
    LET lists == ImplLists(target)
        impls == UNION {lists[k] : k \in DOMAIN lists}
    IN  {<<i.method, i.params>> : i \in impls}
          \cup {<<i.method, [k \in DOMAIN i.params |-> Positional]>> : i \in impls}

\* Methods whose comment describes more than the implementation does: what
\* they are said to do to the execution state.
Documented(method, effect) ==
    CASE method \in {"meter.execute_meter", "direct_meter.read"} -> "result"
      [] method \in {"verify_checksum", "verify_checksum_with_payload"} -> "failure"
      [] OTHER -> effect

\* Methods whose comment says that a packet may not get past them.
Terminating == {"verify", "assert", "assume"}
=============================================================================
