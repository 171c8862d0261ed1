------------------------------ MODULE MCSources ------------------------------
(* What lies between the pools and the queue of works, in pieces that      *)
(* share no state: the news of blocks, with two threads that test works, of *)
(* which one also gets answers to longpolls ("news"), and with that one    *)
(* and a mining thread ("restart"); the curl handles of a getwork pool,    *)
(* with two shares, two handles and the main thread ("curl"); the quotas   *)
(* of up to three pools ("quota"); the buffer of a stratum connection      *)
(* ("line") and its jobs ("jobs").  A behaviour is one of the piece that   *)
(* its initial state names; the others stay as they are.                   *)
EXTENDS TLC, Blocks, GetworkShares, Quotas, RecvLine, StratumJobs

CONSTANTS s1, s2

MCStager == {s1, s2}

VARIABLE piece

MCInit == /\ piece \in {"news", "restart", "curl", "quota", "line", "jobs"}
          /\ BlocksInit /\ CurlInit /\ QuotasInit /\ RecvInit
          /\ JobsInit
          /\ piece # "quota" => fail_only
          /\ piece # "curl" => opts = [lowmem |-> FALSE, submit_stale |-> FALSE]

NewsStep    == /\ piece = "news" /\ (Staging(s1) \/ (Staging(s2) /\ ~convert_to_work(s2)))
               /\ UNCHANGED <<curlVars, quotasVars, recvVars, jobsVars>>
RestartStep == /\ piece = "restart"
               /\ \/ Staging(s1) \/ discard_stale \/ FlagThreads
                  \/ \E m \in Digger : Digging(m)
               /\ UNCHANGED <<curlVars, quotasVars, recvVars, jobsVars>>
CurlStep    == /\ piece = "curl" /\ CurlNext
               /\ UNCHANGED <<blocksVars, quotasVars, recvVars, jobsVars>>
QuotaStep   == /\ piece = "quota" /\ QuotasNext
               /\ UNCHANGED <<blocksVars, curlVars, recvVars, jobsVars>>
LineStep    == /\ piece = "line" /\ RecvNext
               /\ UNCHANGED <<blocksVars, curlVars, quotasVars, jobsVars>>
JobsStep    == /\ piece = "jobs" /\ JobsNext
               /\ UNCHANGED <<blocksVars, curlVars, quotasVars, recvVars>>

MCNext == /\ NewsStep \/ RestartStep \/ CurlStep \/ QuotaStep \/ LineStep \/ JobsStep
          /\ UNCHANGED piece

(* The fairness of each piece, where it is the one that runs: what could   *)
(* go on in one that does not run owes nothing.                            *)
MCFairness == /\ BlocksFairness
              /\ \A s \in Share : /\ WF_curlVars(piece = "curl" /\ Age(s))
                                  /\ WF_curlVars(submit_work_thread(s))
              /\ WF_curlVars(GetWork)
              /\ WF_recvVars(piece = "line" /\ Reading)

MCSpec == /\ MCInit
          /\ [][MCNext]_<<piece, blocksVars, curlVars, quotasVars, recvVars, jobsVars>>
          /\ MCFairness

=============================================================================
