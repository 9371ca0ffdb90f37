------------------------------ MODULE MCWorkers ------------------------------
(***************************************************************************)
(* Model checking the loops that run by themselves: the webhook outbox,    *)
(* the indexer, the keeper's queue and repo jobs, and the price publisher. *)
(* As in MCRequests they share no variable, and `focus` names the one that *)
(* moves; each promises that something happens in the end, under its own   *)
(* fairness.                                                               *)
(***************************************************************************)
EXTENDS Webhooks, Indexer, KeeperQueue, RepoKeeper, PricePublisher

VARIABLE focus

(* A margin call, which is two events, and an exit. *)
CallAndExit == {<<"Healthy", "MarginCall">>, <<"exit.filled">>}

WantsBoth == [s \in Subs |-> {"margin.state_changed", "margin.call_issued"}]

OneThenTwo == <<1, 2>>

-----------------------------------------------------------------------------
workerVars == <<hookVars, indexerVars, queueVars, repoKeeperVars, publisherVars, focus>>

WorkersInit ==
    /\ HooksInit /\ IndexerInit /\ QueueInit /\ RepoKeeperInit /\ PublisherInit
    /\ focus \in {"webhooks", "indexer", "queue", "repo", "publisher"}

WorkersNext ==
    /\ UNCHANGED focus
    /\ \/ /\ focus = "webhooks" /\ HooksNext
          /\ UNCHANGED <<indexerVars, queueVars, repoKeeperVars, publisherVars>>
       \/ /\ focus = "indexer" /\ IndexerNext
          /\ UNCHANGED <<hookVars, queueVars, repoKeeperVars, publisherVars>>
       \/ /\ focus = "queue" /\ QueueNext
          /\ UNCHANGED <<hookVars, indexerVars, repoKeeperVars, publisherVars>>
       \/ /\ focus = "repo" /\ RepoKeeperNext
          /\ UNCHANGED <<hookVars, indexerVars, queueVars, publisherVars>>
       \/ /\ focus = "publisher" /\ PublisherNext
          /\ UNCHANGED <<hookVars, indexerVars, queueVars, repoKeeperVars>>

(* Each loop's own fairness, while it is the one that moves. *)
WorkersFairness ==
    /\ WF_hookVars(focus = "webhooks" /\ PassStep)
    /\ WF_hookVars(focus = "webhooks" /\ HookTick)
    /\ \A n \in RpcNodes : WF_indexerVars(focus = "indexer" /\ NodeCatchesUp(n))
    /\ WF_indexerVars(focus = "indexer" /\ PollStep)
    /\ \A k \in Keepers :
           /\ WF_queueVars(focus = "queue" /\ StartRun(k))
           /\ WF_queueVars(focus = "queue" /\ \E r \in Heads(k) : Abandon(r))
    /\ WF_repoKeeperVars(focus = "repo" /\ MarginStep)
    /\ WF_repoKeeperVars(focus = "repo" /\ UnwindStep)
    /\ WF_repoKeeperVars(focus = "repo" /\ RepoClock)
    /\ \A c \in Cycles : WF_publisherVars(focus = "publisher" /\ CycleStep(c))

WorkersSpec == WorkersInit /\ [][WorkersNext]_workerVars /\ WorkersFairness

=============================================================================
