------------------------------- MODULE ReelJobs -------------------------------
(* Videos of properties: jobs that the API renders one beside the other and keeps   *)
(* in memory only, and the page that shows them, asking again and again for those    *)
(* under way.  A round of questions is about the jobs shown when it began, rounds    *)
(* may overlap, and each puts the whole list back.  The percentages of a phase are   *)
(* left out.                                                                         *)
EXTENDS Integers, FiniteSets

CONSTANTS Jobs,            \* videos that may be asked for
          MaxRounds,       \* bound: rounds of questions of the page
          MaxReelFaults    \* bound: failures, restarts of the API

ASSUME ReelAssumption == MaxRounds \in Nat /\ MaxReelFaults \in Nat

VARIABLES
  reels,       \* job -> its phase, "none" before it is asked for
  videos,      \* jobs whose file is there
  listed,      \* what the page shows: job -> phase, "none" for those not listed
  rounds,      \* rounds under way: what was shown, the answers so far, the jobs left to ask for
  begun,       \* number of rounds begun
  entangled,   \* two rounds, or a round and a load, were under way at once
  reelFaults

reelVars == <<reels, videos, listed, rounds, begun, entangled, reelFaults>>

-----------------------------------------------------------------------------

\* "narrating" is the first part of the source's status "bundling"
Place(phase) ==
  CASE phase = "none" -> 0 [] phase = "narrating" -> 1 [] phase = "bundling" -> 2 [] phase = "rendering" -> 3
    [] phase \in {"done", "error", "not_found"} -> 4
UnderWay(phase) == Place(phase) \in 1..3

ReelInit ==
  /\ reels = [j \in Jobs |-> "none"] /\ videos = {} /\ listed = [j \in Jobs |-> "none"]
  /\ rounds = {} /\ begun = 0 /\ entangled = FALSE /\ reelFaults = 0

ReelFault == reelFaults < MaxReelFaults /\ reelFaults' = reelFaults + 1
Enters(j, phase) == reels' = [reels EXCEPT ![j] = phase]
PageSame == UNCHANGED <<listed, rounds, begun, entangled>>

\* the user is answered at once; the job has entered its first phase by then
StartReel(j) == reels[j] = "none" /\ Enters(j, "narrating") /\ UNCHANGED <<videos, reelFaults>> /\ PageSame
\* a voice that fails leaves the video without it
Narrate(j) == reels[j] = "narrating" /\ Enters(j, "bundling") /\ UNCHANGED <<videos, reelFaults>> /\ PageSame
Bundle(j) == reels[j] = "bundling" /\ Enters(j, "rendering") /\ UNCHANGED <<videos, reelFaults>> /\ PageSame
\* the file is complete before the job says so
Filed_Later(j) == videos
Filed(j) == videos \cup {j}
FinishRender(j) ==
  /\ reels[j] = "rendering" /\ videos' = Filed(j) /\ Enters(j, "done") /\ UNCHANGED reelFaults /\ PageSame
RenderFails(j) ==
  /\ ReelFault /\ UnderWay(reels[j]) /\ Enters(j, "error") /\ UNCHANGED videos /\ PageSame
\* a restart of the API: the jobs are gone, the files stay
ForgetReels ==
  /\ ReelFault /\ reels' = [j \in Jobs |-> IF reels[j] = "none" THEN "none" ELSE "not_found"]
  /\ UNCHANGED videos /\ PageSame

-----------------------------------------------------------------------------
(* The page.                                                                    *)

LoadJobs ==
  /\ listed' = [j \in Jobs |-> IF reels[j] = "not_found" THEN "none" ELSE reels[j]]
  /\ listed' # listed /\ entangled' = (entangled \/ rounds # {}) /\ UNCHANGED <<reels, videos, rounds, begun, reelFaults>>
\* every three seconds while a job under way is shown, whether the last round has ended or not
Captured_AtMount == [j \in Jobs |-> IF listed[j] = "none" THEN "none" ELSE "narrating"]
Captured == listed
ToAsk_All == Jobs
ToAsk == {j \in Jobs : UnderWay(listed[j])}
BeginRound ==
  /\ \E j \in Jobs : UnderWay(listed[j])
  /\ begun < MaxRounds /\ begun' = begun + 1
  /\ rounds' = rounds \cup {[changed |-> FALSE, found |-> Captured, left |-> ToAsk]}
  /\ entangled' = (entangled \/ rounds # {}) /\ UNCHANGED <<reels, videos, listed, reelFaults>>
\* one job after the other; a question that fails keeps what was shown
AskStatus(r, j) ==
  /\ j \in r.left /\ rounds' = (rounds \ {r}) \cup {[r EXCEPT !.found[j] = reels[j],
                                                     !.changed = @ \/ reels[j] # r.found[j], !.left = @ \ {j}]}
  /\ UNCHANGED <<reels, videos, listed, begun, entangled, reelFaults>>
AskFails(r, j) ==
  /\ ReelFault /\ j \in r.left /\ rounds' = (rounds \ {r}) \cup {[r EXCEPT !.left = @ \ {j}]}
  /\ UNCHANGED <<reels, videos, listed, begun, entangled>>
\* the whole list is put back, when something changed
EndRound(r) ==
  /\ r.left = {} /\ rounds' = rounds \ {r} /\ listed' = (IF r.changed THEN r.found ELSE listed)
  /\ UNCHANGED <<reels, videos, begun, entangled, reelFaults>>

ReelNext ==
  \/ ForgetReels \/ LoadJobs \/ BeginRound
  \/ \E j \in Jobs : StartReel(j) \/ Narrate(j) \/ Bundle(j) \/ FinishRender(j) \/ RenderFails(j)
  \/ \E r \in rounds : EndRound(r) \/ \E j \in Jobs : AskStatus(r, j) \/ AskFails(r, j)

-----------------------------------------------------------------------------
(* Properties.                                                                  *)

ReelTypeOK ==
  /\ \A j \in Jobs : Place(reels[j]) \in 0..4 /\ Place(listed[j]) \in 0..4
  /\ \A r \in rounds : r.left \subseteq {j \in Jobs : UnderWay(r.found[j])}
  /\ videos \subseteq Jobs /\ begun \in 0..MaxRounds

\* A job the page shows as done has its file, and whatever rounds and loads overlap the page
\* never runs ahead of the job (reel-video.service.ts:300).
ShownJobIsTrue ==
  \A j \in Jobs : (listed[j] = "done" => j \in videos) /\ Place(listed[j]) <= Place(reels[j])
\* Nor does it fall behind what it showed, unless rounds overlapped: the rounds and the
\* loads of the list are not ordered (property-videos/page.tsx:66).
ShownGoesForward ==
  [][\A j \in Jobs : ~entangled' /\ listed'[j] # "none" => Place(listed[j]) <= Place(listed'[j])]_reelVars
=============================================================================
