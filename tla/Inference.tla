------------------------------ MODULE Inference ------------------------------
(***************************************************************************)
(* InferenceManager (agent/inference.cpp), which the controller owns: the  *)
(* power request, the session with the model, and what each inference does *)
(* with them.  The hash, the network and its answer are library code.      *)
(***************************************************************************)
EXTENDS Handles

VARIABLES
    session,   \* m_session: "none", "full", or "half" if its names or its
               \* dimensions are missing
    inferring, \* run_inference is at m_session->Run
    asserted   \* the power request asks for execution

inferenceVars == <<session, inferring, asserted>>

ASSUME RequestAssumption == "request" \in Owner

InferenceTypeOK ==
    /\ session \in {"none", "half", "full"}
    /\ inferring \in BOOLEAN
    /\ asserted \in BOOLEAN

InferenceInit ==
    /\ session = "none"
    /\ inferring = FALSE
    /\ asserted = FALSE

\* verify_model_hash opens the file, or does not, and finds the expected
\* hash, or does not, or one of its calls fails.
Verified(found) == IF found THEN BOOLEAN ELSE {FALSE}

\* The constructor.  PowerCreateRequest may fail; an exception may come
\* before there is a session, or when there is one.
InferenceManager(found) ==
    /\ \E got \in SUBSET {"request"} : Reset({"request"}, got)
    /\ \E verified \in Verified(found) :
          session' \in IF verified THEN {"none", "half", "full"} ELSE {"none"}
    /\ UNCHANGED <<inferring, asserted>>

\* run_inference up to Run; without a session it returns nothing at once.
RunInference ==
    /\ ~inferring
    /\ session # "none"
    /\ asserted' = (asserted \/ Valid("request"))
    /\ inferring' = TRUE
    /\ session' = session

\* Run answers, or throws an Ort::Exception, which is caught; both ways clear
\* the request.  Half a session has too few names: Run refuses it, or it
\* crashes, which like any other exception ends the process.
RunReturns ==
    /\ inferring
    /\ inferring' = FALSE
    /\ asserted' = (asserted /\ ~Valid("request"))
    /\ session' = session
==============================================================================
