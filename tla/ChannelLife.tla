---------------------------- MODULE ChannelLife ----------------------------
(***************************************************************************)
(* What a pool of connections relies on when it uses a Channel: a channel  *)
(* that is stopped stays stopped and is done in the end, done comes after  *)
(* the drop, and nobody but a stopped channel answers ErrStopped.          *)
(***************************************************************************)

VARIABLES
    life,    \* "open", "draining", "dropped" or "done"
    refused  \* whether a caller was answered with ErrStopped

lifeVars == <<life, refused>>

LifeInit == life = "open" /\ refused = FALSE

\* Channel.Shutdown: WriteClosed from here on.
LifeDrain == life = "open" /\ life' = "draining" /\ UNCHANGED refused

\* Channel.Close, Drop, an error, the end of Shutdown or its timeout.
LifeDrop == life \in {"open", "draining"} /\ life' = "dropped" /\ UNCHANGED refused

\* Channel.Done is closed.
LifeDone == life = "dropped" /\ life' = "done" /\ UNCHANGED refused

LifeRefuse == life # "open" /\ refused' = TRUE /\ UNCHANGED life

LifeNext == LifeDrain \/ LifeDrop \/ LifeDone \/ LifeRefuse

LifeSafe == LifeInit /\ [][LifeNext]_lifeVars

LifeSpec == LifeSafe /\ (life # "open" ~> life = "done")
=============================================================================
