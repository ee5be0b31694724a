------------------------------- MODULE NovaWeb -------------------------------
(***************************************************************************)
(* The submission daemon together with the web site, whose views edit the  *)
(* same UserImage rows (net/views/image.py: edit, hide, unhide).  A view   *)
(* reads a row, changes other fields than has_job, and saves the whole     *)
(* row, has_job as it was read included.                                   *)
(***************************************************************************)
EXTENDS ProcessSubmissions

CONSTANT MaxEdits      \* bound on the saves of the web site

ASSUME EditsAssumption == MaxEdits \in Nat

VARIABLES
    editing,   \* saves an open request has still to do for an image
    readFlag,  \* images whose request read has_job = True
    edits      \* saves done, at most MaxEdits

webVars == <<editing, readFlag, edits>>
allVars == <<vars, webVars>>

WebInit == Init /\ editing = [u \in UIs |-> 0] /\ readFlag = {} /\ edits = 0

\* get_object_or_404(UserImage): edit saves the row twice, hide and unhide once.
ReadImage(u) ==
    /\ u \in uis /\ editing[u] = 0
    /\ \E saves \in 1..2 :
          /\ edits + saves <= MaxEdits
          /\ editing' = [editing EXCEPT ![u] = saves]
          /\ edits' = edits + saves
    /\ readFlag' = IF u \in hasJob THEN readFlag \union {u} ELSE readFlag \ {u}
    /\ UNCHANGED vars

SaveImage(u) ==
    /\ editing[u] > 0
    /\ editing' = [editing EXCEPT ![u] = @ - 1]
    /\ hasJob' = IF u \in readFlag THEN hasJob \union {u} ELSE hasJob \ {u}
    /\ UNCHANGED <<subRows, uiOf, jobRows, main, age, pools, faults, readFlag, edits>>

WebNext ==
    \/ Next /\ UNCHANGED webVars
    \/ \E u \in UIs : ReadImage(u) \/ SaveImage(u)

WebSpec == WebInit /\ [][WebNext]_allVars

-----------------------------------------------------------------------------
\* A lost update of has_job costs at most one job per save: an image gets a second
\* Job only through the web site.
ExtraJobsAreEdits ==
    \A u \in uis : Cardinality({j \in jobs : jobUI[j] = u}) <= 1 + edits

\* Even with lost updates an ended job is never deleted by the startup repair or
\* changed by a worker.
EndedStaysInWeb ==
    [][\A j \in jobEnded :
          j \in jobEnded' /\ j \in jobs' /\ (j \in jobSolved' <=> j \in jobSolved)
       ]_allVars

\* The comment of has_job, "Does this UserImage have at least one Job?", for the
\* rows as the daemon finds them at the top of its loop.
FlagAnswersItsComment ==
    pc = "poll" =>
        \A u \in uis : (u \in hasJob) <=> (\E j \in jobs : jobUI[j] = u)
=============================================================================
