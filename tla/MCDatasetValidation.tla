------------------------- MODULE MCDatasetValidation -------------------------
(***************************************************************************)
(* Plans with up to two contracts of every state.                          *)
(***************************************************************************)
EXTENDS DatasetValidation, Naturals

C(state) == [state |-> state, mayBePartial |-> TRUE]

ContractLists ==
  {<<>>, <<C("partial"), [state |-> "partial", mayBePartial |-> FALSE]>>}
    \cup {<<C("pass"), C(s)>> : s \in States}

Plans ==
  {p \in [contracts : ContractLists, depth : BOOLEAN, calibrated : BOOLEAN,
          train : BOOLEAN, holdout : BOOLEAN] :
     p.train \/ p.holdout => p.calibrated}

=============================================================================
