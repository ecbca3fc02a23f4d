------------------------------ MODULE MCLinks ------------------------------
(***************************************************************************)
(* Instances of HubForward and of AxiDma, the two ways to the FPGA, and of *)
(* IpTask, which serves the network, for TLC, side by side: a behaviour    *)
(* runs one of them, and leaves the others in their initial states.        *)
(***************************************************************************)
EXTENDS MCHubForward, AxiDma, IpTask

VARIABLE part

LinksInit == part \in {"rings", "dma", "ip"} /\ Init /\ DmaInit /\ IpInit

LinksNext ==
  /\ \/ part = "rings" /\ Next /\ UNCHANGED <<dmaVars, ipVars>>
     \/ part = "dma" /\ DmaNext /\ UNCHANGED <<vars, ipVars>>
     \/ part = "ip" /\ IpNext /\ UNCHANGED <<vars, dmaVars>>
  /\ UNCHANGED part

(* The fairness of DmaFairSpec and of IpSpec, for the behaviours that run  *)
(* them.                                                                   *)
LinksSpec ==
  /\ LinksInit /\ [][LinksNext]_<<vars, dmaVars, ipVars, part>>
  /\ WF_dmaVars(part = "dma" /\ Handle) /\ WF_dmaVars(part = "dma" /\ ResetIsDone)
  /\ \A c \in Channels : /\ SF_dmaVars(part = "dma" /\ Call(c))
                         /\ WF_dmaVars(part = "dma" /\ (Complete(c) \/ Fail(c)))
                         /\ SF_dmaVars(part = "dma" /\ ReadAndAck(c))
  /\ WF_ipVars(part = "ip" /\ IpTaskStep) /\ WF_ipVars(part = "ip" /\ IpTick)
  /\ SF_ipVars(part = "ip" /\ InterfaceIsUp)
  /\ WF_ipVars(part = "ip" /\ (SendIfQueueEmpty \/ SendTCPTimerEvent))
=============================================================================
