--------------------------- MODULE MCRenderStore ---------------------------
(* A ladder of two rows and two quotes, whole snapshots as the server sends. *)
EXTENDS RenderStore

CONSTANTS q1, q2

MCQuotes == {q1, q2}

MCFrames ==
  {Snapshot(0, [l \in 1..NLevels |-> q]) : q \in MCQuotes}
    \cup {Heartbeat(1), Delta(2, <<[level |-> 1, quote |-> q2]>>)}
=============================================================================
