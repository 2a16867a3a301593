------------------------- MODULE SigningRefinement --------------------------
(***************************************************************************)
(* The signing protocol implements SigningService.  Everything between     *)
(* multiPartySign and its callbacks is hidden: a step of the protocol is a *)
(* step of the service only when the application hears of it.  A failure   *)
(* that is reported again is not a new verdict.                            *)
(***************************************************************************)
EXTENDS MultiPartySign

statusOf ==
    [s \in Sessions |->
        IF session[s] # "running" THEN session[s]
        ELSE IF successes[s] > 0 THEN "signed"
        ELSE IF failures[s] > 0 THEN "failed" ELSE "open"]

resultOf ==
    [s \in Sessions |->
        {KeyOf(fetched[s][i].call) : i \in {j \in DOMAIN fetched[s] : successes[s] > 0}}]

Service == INSTANCE SigningService WITH status <- statusOf, result <- resultOf

(***************************************************************************)
(* Whatever is lost, late, refused or replaced, the application sees a run *)
(* of the service: one verdict for each session, and a signature whose     *)
(* pieces cover the required patterns of the session's rule.               *)
(***************************************************************************)
ImplementsService == Service!Spec

=============================================================================
