---------------------------- MODULE MCB20Requests ----------------------------
(* Bounded instances of B20Requests. *)
EXTENDS B20Requests, TLC

\* Nothing is wrong, or one thing is.
MCSetups ==
    {Healthy,
     [Healthy EXCEPT !.world.round.decimals = 6], [Healthy EXCEPT !.world.round.answer = 0],
     [Healthy EXCEPT !.world.round.updatedAt = 0],
     [Healthy EXCEPT !.world.round.updatedAt = Start + 2 * Tick],
     [Healthy EXCEPT !.world.round.answeredInRound = 0],
     [Healthy EXCEPT !.notices.pairing = "INFERRED_UNREVIEWED"],
     [Healthy EXCEPT !.world.sequencer.startedAt = Start],
     [Healthy EXCEPT !.notices.publishing = FALSE],
     [Healthy EXCEPT !.world.identity.initialized = FALSE],
     [Healthy EXCEPT !.world.identity.symbol = None],
     [Healthy EXCEPT !.world.identity.decimals = 8], [Healthy EXCEPT !.world.dialed = FALSE],
     [Healthy EXCEPT !.notices.fixture = TRUE]}

MCHealthy == {Healthy}

MCSymmetry == Permutations(Callers)

=============================================================================
