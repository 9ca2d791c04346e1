--------------------------- MODULE StudContracts ---------------------------
(* Stud Contracts before and after the breeding: requests, decisions,        *)
(* deadlines, and the deadline of Return Services.  Approval is the breeding *)
(* itself (Breeding).                                                        *)
EXTENDS DamRecords

Quiet == UNCHANGED <<dam, sire, attempt, emergency, accident, listing, proc, life>>

(* createManualStudContractRequest: the dam's row is locked and every        *)
(* condition is read under the lock.                                         *)
RequestContract(c, offer) ==
    /\ contract[c].status = "NONE"
    /\ Mine /\ Fertile /\ ~Bred /\ ~InCare
    /\ Requested = {}
    /\ sire # "gone"
    /\ contract' = [contract EXCEPT ![c] =
                      [NoContract EXCEPT !.status = "PENDING", !.back = offer.back,
                                         !.noLitter = offer.noLitter, !.small = offer.small]]
    /\ UNCHANGED service
    /\ Quiet

(* The contract's row is locked and must be pending.                         *)
Declinable(c) == contract[c].status = "PENDING"

(* The stud owner declines.                                                  *)
DeclineContract(c) ==
    /\ Declinable(c)
    /\ contract' = [contract EXCEPT ![c].status = "DECLINED"]
    /\ UNCHANGED service
    /\ Quiet

(* Twenty-four hours pass without an answer.                                 *)
ApprovalWindowEnds(c) ==
    /\ contract[c].status = "PENDING"
    /\ ~contract[c].late
    /\ contract' = [contract EXCEPT ![c].late = TRUE]
    /\ UNCHANGED service
    /\ Quiet

(* The condition the expiring update repeats.                                *)
Expirable(c) == contract[c].status = "PENDING" /\ contract[c].late

(* processExpiredStudContractRequests, for one candidate.                    *)
ExpireContract(c) ==
    /\ Expirable(c)
    /\ contract' = [contract EXCEPT ![c].status = "EXPIRED"]
    /\ UNCHANGED service
    /\ Quiet

(* Sixty days pass.                                                          *)
ServiceWindowEnds(c) ==
    /\ service[c].status = "AVAILABLE"
    /\ ~service[c].late
    /\ service' = [service EXCEPT ![c].late = TRUE]
    /\ UNCHANGED contract
    /\ Quiet

(* processExpiredStudContractReturnServices, for one candidate.              *)
ExpireService(c) ==
    /\ service[c].status = "AVAILABLE"
    /\ service[c].late
    /\ service' = [service EXCEPT ![c].status = "EXPIRED"]
    /\ UNCHANGED contract
    /\ Quiet

(* The stud is sold or dies.  His services end with him, except when the run *)
(* that marked him dead is killed before its next statement.                 *)
SireLeaves ==
    /\ sire # "gone"
    /\ sire' = "gone"
    /\ service' \in {Extinguished(service), service}
    /\ UNCHANGED <<dam, attempt, contract, emergency, accident, listing, proc, life>>

(* STUD_RECOVERY_HOURS after his last breeding.                              *)
SireRecovers ==
    /\ sire = "recovering"
    /\ sire' = "ready"
    /\ UNCHANGED <<dam, attempt, contract, service, emergency, accident, listing, proc, life>>

ContractJobFault(c) == ExpireContract(c)

ContractJob(c) == ExpireContract(c) \/ ExpireService(c)

ContractClock(c) == ApprovalWindowEnds(c) \/ ServiceWindowEnds(c)

ContractNext ==
    \/ \E c \in Contracts :
          \/ \E offer \in Offers : RequestContract(c, offer)
          \/ DeclineContract(c)
          \/ ContractJob(c) \/ ContractClock(c)
    \/ SireLeaves \/ SireRecovers
=============================================================================
