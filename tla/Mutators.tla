------------------------------ MODULE Mutators ------------------------------
(***************************************************************************)
(* The byte transformations the on-path proxy may be asked to apply, at    *)
(* the granularity the proxy can tell apart.                               *)
(*                                                                         *)
(* A stream is a sequence of units.  The message a mutator looks for (the  *)
(* TLS ClientHello record, the SSH KEXINIT or KEX_ECDH_INIT packet that    *)
(* offers the hybrid) is cut in two units, <<"head", "tail">>, so that a   *)
(* TCP segment boundary can fall inside it; every other message is one     *)
(* unit, "other".                                                          *)
(*                                                                         *)
(* All parsers read the message from byte 0 of the buffer they are handed  *)
(* and require it to be complete; anything else makes them raise           *)
(* ValueError, which both mutate closures turn into "return data".         *)
(***************************************************************************)
EXTENDS Integers, Sequences

Unit == {"other", "head", "tail", "flipped", "stripped"}

\* The four transforms the scenario builders install, by source name.
MutatorNames == {"forge_pq_component", "forge_ssh_pq_component",
                 "strip_hybrid", "strip_kexinit_algorithm"}

\* A complete target message starts the buffer: the parsers' checks on the
\* message type and on record_end / packet_end against the buffer's length.
Matches(data) == /\ Len(data) >= 2
                 /\ data[1] = "head"
                 /\ data[2] = "tail"

\* What follows the target message in the same buffer.
Rest(data) == SubSeq(data, 3, Len(data))

\* forge_pq_component: the PQ bytes of the key share are inverted in place,
\* so the length, and everything behind the record, stay as they were.
ForgePqComponent(data) == <<"head", "flipped">> \o Rest(data)

\* forge_ssh_pq_component: the same in-place inversion of a KEX_ECDH_INIT.
ForgeSshPqComponent(data) == <<"head", "flipped">> \o Rest(data)

\* strip_hybrid: the record is rebuilt shorter and record[record_end:] is
\* appended behind it.
StripHybrid(data) == <<"stripped">> \o Rest(data)

\* strip_kexinit_algorithm: the packet is rebuilt shorter and NOTHING is
\* appended behind it: bytes after packet_end in the same buffer are dropped.
StripKexinitAlgorithm(data) == <<"stripped">>

\* The mutate closures: a ValueError of the transform returns data itself.
Mutate(name, data) ==
    IF ~Matches(data) THEN data
    ELSE CASE name = "forge_pq_component"      -> ForgePqComponent(data)
           [] name = "forge_ssh_pq_component"  -> ForgeSshPqComponent(data)
           [] name = "strip_hybrid"            -> StripHybrid(data)
           [] name = "strip_kexinit_algorithm" -> StripKexinitAlgorithm(data)
=============================================================================
