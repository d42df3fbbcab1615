-------------------------------- MODULE Audit -------------------------------
(***************************************************************************)
(* audit.py: what the outputs kept of a run let an auditor see.  An output *)
(* is there or not, and its text is the set of the marks found in it: a    *)
(* warning, the advertised groups, the negotiated group.                   *)
(***************************************************************************)
EXTENDS FiniteSets

Outputs == {"client_log", "server_log", "tshark_summary"}
Marks == {"warning", "advertised", "negotiated"}
NOT_COLLECTED == {"s_client -brief", "keylog"}

Unknown == "none"

\* A text is searched by itself; text None is an output that is missing.
audit_text(there, marks) ==
    IF ~there THEN [warning |-> Unknown, mismatch |-> Unknown]
    ELSE [warning |-> IF "warning" \in marks THEN "yes" ELSE "no",
          mismatch |-> IF {"advertised", "negotiated"} \subseteq marks THEN "yes" ELSE "unsupported"]

\* One output is enough for a "yes"; a "no" takes an output that was read.
summarize_paths(paths) ==
    LET warnings == {paths[p].warning : p \in DOMAIN paths}
        mismatches == {paths[p].mismatch : p \in DOMAIN paths}
    IN  [warning |-> IF "yes" \in warnings THEN "yes"
                     ELSE IF "no" \in warnings THEN "no" ELSE Unknown,
         mismatch |-> IF "yes" \in mismatches THEN "yes"
                      ELSE IF "unsupported" \in mismatches THEN "unsupported" ELSE Unknown,
         basis |-> {p \in DOMAIN paths : "yes" \in {paths[p].warning, paths[p].mismatch}}]

\* Mutant: the outputs that are there are searched as one text.
AuditJoined(there, marks) ==
    LET all == UNION {marks[p] : p \in there}
    IN  summarize_paths([p \in Outputs |-> audit_text(p \in there, all)])

\* there: the outputs the run left; marks: what stands in each of them.
audit_record(there, marks) ==
    summarize_paths([p \in Outputs \cup NOT_COLLECTED |->
        IF p \in Outputs THEN audit_text(p \in there, marks[p])
        ELSE [warning |-> Unknown, mismatch |-> "not_collected"]])
=============================================================================
