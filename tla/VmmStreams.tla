----------------------------- MODULE VmmStreams -----------------------------
(***************************************************************************)
(* The streams of a judge node to one VMM, in the order in which           *)
(* ensure_session opens them: a connection for each request to the control *)
(* API, and the guest channel once the VM is started.  A request that      *)
(* fails leaves the executor without a session.                            *)
(***************************************************************************)
EXTENDS GuestChannel, ControlApi

StreamsInit == ApiInit /\ ChannelInit

StreamsNext ==
    \/ ApiNext /\ UNCHANGED channelVars
    \/ Configured /\ ChannelNext /\ UNCHANGED apiVars

StreamsSpec ==
    /\ StreamsInit /\ [][StreamsNext]_<<channelVars, apiVars>>
    /\ ChannelFairness /\ ApiFairness

-----------------------------------------------------------------------------
\* Type correctness of both streams.
StreamsTypeOK == ChannelTypeOK /\ ApiTypeOK

\* No end of a stream waits for ever for one that is silent, slow or gone: a
\* request to the VMM ends, a recv ends even if a byte comes now and then, and
\* an agent whose host is gone does not wait for the rest of a frame.
NobodyLeftWaiting == RecvEnds /\ AgentNotLeftReading /\ RequestEnds
=============================================================================
