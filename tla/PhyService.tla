----------------------------- MODULE PhyService -----------------------------
(***************************************************************************)
(* What the network layer relies on of the radio driver, and what NwkCore  *)
(* takes for granted in its PHY actions: a frame that is to be sent is     *)
(* confirmed once, and no frame is indicated while one is being sent.      *)
(***************************************************************************)
VARIABLES
  sending,   \* a frame has been given to the radio and is not confirmed
  indicated  \* changes with every frame that is indicated

vars == <<sending, indicated>>

Init == sending = FALSE /\ indicated \in BOOLEAN

DataReq  == ~ sending /\ sending' = TRUE /\ UNCHANGED indicated
DataConf == sending /\ sending' = FALSE /\ UNCHANGED indicated
DataInd  == ~ sending /\ indicated' = ~ indicated /\ UNCHANGED sending

Next == DataReq \/ DataConf \/ DataInd

Safety == Init /\ [][Next]_vars

Spec == Safety /\ WF_vars(DataConf)
=============================================================================
