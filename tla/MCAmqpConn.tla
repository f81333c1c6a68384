----------------------------- MODULE MCAmqpConn -----------------------------
(***************************************************************************)
(* Model-checking instance of AmqpConn.  The probe runs beside the client. *)
(* Channels 1 and 2 carry Channel.Open (the client asks) and              *)
(* Channel.Close (either peer asks); channel 0 carries heartbeats.  The    *)
(* peers write at most MCMaxFrames frames, enough for exchanges on two     *)
(* channels to interleave with two matcher passes.                         *)
(***************************************************************************)
EXTENDS AmqpConn, TLC

MCByte == 16
MCFrameEnd == 14
MCProtocolHeader == <<10, 13, 11, 12, 0, 0, 9, 1>>

MCEndpoint == L7_CLIENT
MCChannels == {0, 1, 2}

\* The client opens channels; either peer may close one (a broker closes a
\* channel on a channel exception).
MCExchanges ==
  { [cls |-> AMQP_CLASS_CHANNEL, req |-> METHOD_CHANNEL_OPEN,
     resp |-> METHOD_CHANNEL_OPEN_OK, by |-> {L7_CLIENT},
     pre |-> FALSE, post |-> TRUE],
    [cls |-> AMQP_CLASS_CHANNEL, req |-> METHOD_CHANNEL_CLOSE,
     resp |-> METHOD_CHANNEL_CLOSE_OK, by |-> Sides,
     pre |-> TRUE, post |-> FALSE] }

MCMaxFrames == 6
MCRecordBufSize == 2

=============================================================================
