---------------------------- MODULE MCServerStart ----------------------------
(***************************************************************************)
(* A channels file for TLC: a root with a channel in it, and one with an   *)
(* invalid channel, which keeps the rest of that root from being imported. *)
(***************************************************************************)
EXTENDS ServerStart

Entry(name, up, valid) == [name |-> name, up |-> up, valid |-> valid]

SmallTree == <<Entry("Games", 0, TRUE), Entry("Chess", 1, TRUE), Entry("Talk", 0, TRUE),
               Entry("", 3, FALSE), Entry("Radio", 3, TRUE)>>

\* Bound: an export command that is left behind half-way through store.New is
\* followed no further than the server's own store.New (for SchemaSpec and any
\* number of processes StartProofs does without it)
ExportKeepsUp ==
  \A p \in Procs \ {Server} :
    pc[p] \in MigrateSteps => pc[Server] \in {"off", "opened"} \cup MigrateSteps
=============================================================================
