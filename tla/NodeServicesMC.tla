--------------------------- MODULE NodeServicesMC ---------------------------
(***************************************************************************)
(* Five independent services behind the workflow's nodes, checked in one   *)
(* run: a behaviour exercises one of them while the others stay where they *)
(* begin.  They share no variable, so each has exactly the behaviours of   *)
(* its own specification.                                                  *)
(***************************************************************************)
EXTENDS Assessment, RetainedTasks, Knowledge, Chunking, Portal

VARIABLE service

serviceVars == <<service, assessVars, taskVars, knowledgeVars, chunkVars, portalVars>>

InAssessment == service = "assessment"
                /\ UNCHANGED <<service, taskVars, knowledgeVars, chunkVars, portalVars>>
InTasks      == service = "tasks"
                /\ UNCHANGED <<service, assessVars, knowledgeVars, chunkVars, portalVars>>
InKnowledge  == service = "knowledge"
                /\ UNCHANGED <<service, assessVars, taskVars, chunkVars, portalVars>>
InChunking   == service = "chunking"
                /\ UNCHANGED <<service, assessVars, taskVars, knowledgeVars, portalVars>>
InPortal     == service = "portal"
                /\ UNCHANGED <<service, assessVars, taskVars, knowledgeVars, chunkVars>>

ServicesInit ==
  /\ service \in {"assessment", "tasks", "knowledge", "chunking", "portal"}
  /\ AssessInit /\ TasksInit /\ KnowledgeInit /\ ChunkInit /\ PortalInit
  /\ service # "portal" => account /\ ~catalogued
  /\ service # "knowledge" => \E s \in Sources : document[s] = NoDocument

ServicesNext ==
  \/ InAssessment /\ AssessNext
  \/ InTasks /\ TasksNext
  \/ InKnowledge /\ KnowledgeNext
  \/ InChunking /\ ChunkNext
  \/ InPortal /\ PortalNext

\* The fairness of each part, in the behaviours that exercise it
ServicesSpec ==
  /\ ServicesInit /\ [][ServicesNext]_serviceVars
  /\ WF_serviceVars(InAssessment /\ DecideStep)
  /\ \A i \in Ingests : WF_serviceVars(InKnowledge /\ IngestStep(i))
  /\ \A o \in Operations : WF_serviceVars(InPortal /\ TimeOut(o))

\* Refused, as long as it is (twice), and longer than the search window allows
ChunkParameters == {<<0, 0>>, <<3, -1>>, <<2, 2>>, <<3, 2>>, <<5, 2>>}

-----------------------------------------------------------------------------
(* Properties of all parts                                                 *)

\* The types of the five parts, and what they keep true of each row.
ServicesTypeOK ==
  AssessTypeOK /\ TasksTypeOK /\ KnowledgeTypeOK /\ ChunkTypeOK /\ PortalTypeOK

\* Nothing is written without cause: a document whose text is unchanged, or an
\* entitlement by a browser that is not signed in, unless it is seeded again.
WritesHaveCause == RewriteNeedsNewText /\ ChangesAreSignedIn

\* Assessments, ingests, chunking and calls of the portal all end, though a
\* specialist or a portal may never answer and ingests lock each other out.
ServicesComeToRest ==
  EveryAssessmentEnds /\ EveryIngestEnds /\ EveryTurnAdvances /\ EveryOperationEnds
=============================================================================
