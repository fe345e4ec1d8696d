------------------------------ MODULE MCMonitor ------------------------------
(***************************************************************************)
(* A small instance of LlamaMonitor.                                       *)
(***************************************************************************)
EXTENDS LlamaMonitor

CONSTANTS a, b, m1, m2

PollBounds == [counters |-> 3, slots |-> 2, context |-> 1, props |-> None]

Joined == [pair \in {<<"drafts", "accepted">>} |-> "draftsaccepted"]

Says(speculative, n_max, types) ==
  [speculative |-> speculative, n_max |-> n_max, types |-> types]

Silence == Says(None, None, None)

\* Nothing about speculation; enabled, with the limit and the type of the root;
\* switched off; an explicit zero with a null.
MCPropsReplies ==
  {[model |-> None, n_ctx |-> None, nested |-> says[1], root |-> says[2]] :
     says \in {<<Silence, Silence>>, <<Says(TRUE, None, None), Says(FALSE, 2, {"ngram"})>>,
               <<Says(FALSE, None, None), Silence>>,
               <<Says(Null, 0, None), Says(None, 1, {})>>}}

\* One or two slots that differ in what they report.
MCSlotArrays ==
  LET Some == {[id |-> id, task |-> None, decoded |-> decoded, busy |-> busy, used |-> used,
                n_ctx |-> n_ctx, spec |-> spec] :
                 id \in {a}, decoded \in {None, 1}, busy \in BOOLEAN, used \in {None, 0, 2},
                 n_ctx \in {0, 2}, spec \in {Silence}}
      Others == {[id |-> id, task |-> None, decoded |-> 1, busy |-> busy, used |-> used,
                  n_ctx |-> n_ctx, spec |-> Says(None, 3, {"draft-mtp"})] :
                   id \in {b, None}, busy \in BOOLEAN, used \in {None, 1, 3}, n_ctx \in {1, 4}}
  IN  {<<>>} \union {<<one>> : one \in Some} \union {<<one, two>> : one \in Some, two \in Others}

MCProcessTables ==
  LET process(is_server, ports, n_max, types) ==
        [is_server |-> is_server, ports |-> ports, cli |-> [n_max |-> n_max, types |-> types],
         env |-> [n_max |-> None, types |-> {}]]
  IN  {<<process(FALSE, {"8080"}, 5, {"draft-mtp"}), process(TRUE, {"9090"}, 5, {}),
         process(TRUE, {}, Null, {"draft-mtp"})>>}
==============================================================================
