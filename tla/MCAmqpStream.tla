---------------------------- MODULE MCAmqpStream ----------------------------
(***************************************************************************)
(* Model-checking instance of AmqpStream.  A byte is a hexadecimal digit   *)
(* (BYTE = 16, so uint32 wraps at 16^4); 0xCE is the digit 14 and the      *)
(* protocol header "AMQP\0\0\x09\x01" is 8 digits whose first is not a     *)
(* frame type, as 'A' is not.  The peer writes up to three frames drawn    *)
(* from a protocol header, a Channel.Open method frame, a heartbeat, two   *)
(* one-byte body frames (one whose payload byte equals the end byte), and  *)
(* a content header frame; every split of its byte stream into data        *)
(* events is explored.                                                     *)
(***************************************************************************)
EXTENDS AmqpStream

MCByte == 16
MCFrameEnd == 14
MCProtocolHeader == <<10, 13, 11, 12, 0, 0, 9, 1>>

U16Bytes(n) == <<(n \div MCByte) % MCByte, n % MCByte>>
U32Bytes(n) == U16Bytes(n \div (MCByte * MCByte)) \o U16Bytes(n % (MCByte * MCByte))

\* A frame the peer writes: the fields the parser should report and its bytes.
Desc(ph, type, ch, ps, cls, mth) ==
  [is_protocol_header |-> ph, frame_type |-> type, channel_id |-> ch,
   payload_size |-> ps, class_id |-> cls, raw_method_id |-> mth,
   exchange |-> NULL_STR, queue |-> NULL_STR, routing_key |-> NULL_STR,
   body_size |-> 0]

Frame(type, ch, cls, mth, payload) ==
  [desc  |-> Desc(FALSE, type, ch, Len(payload), cls, mth),
   bytes |-> <<type>> \o U16Bytes(ch) \o U32Bytes(Len(payload)) \o payload
             \o <<MCFrameEnd>>]

ProtocolHeaderFrame ==
  [desc |-> Desc(TRUE, 0, 0, 0, 0, 0), bytes |-> MCProtocolHeader]

ChannelOpen ==
  Frame(1, 1, 20, 10, U16Bytes(20) \o U16Bytes(10))

Heartbeat == Frame(8, 0, 0, 0, <<>>)

Body == Frame(3, 1, 0, 0, <<5>>)

BodyWithEndByte == Frame(3, 1, 0, 0, <<MCFrameEnd>>)

\* class 60 (Basic), weight 0, body size 1, property flags 0.
ContentHeader ==
  LET f == Frame(2, 1, 60, 0, U16Bytes(60) \o U16Bytes(0) \o U32Bytes(0)
                              \o U32Bytes(1) \o U16Bytes(0))
  IN  [f EXCEPT !.desc.body_size = 1]

Written == {ProtocolHeaderFrame, ChannelOpen, Heartbeat, Body,
            BodyWithEndByte, ContentHeader}

RECURSIVE Concat(_)
Concat(fs) == IF fs = <<>> THEN <<>> ELSE Head(fs).bytes \o Concat(Tail(fs))

WrittenSeqs == UNION {[1 .. n -> Written] : n \in 0 .. 3}

\* Well-formed streams: the peer's frames back to back.
WellFormedInputs ==
  {[msgs |-> [i \in DOMAIN fs |-> fs[i].desc], wire |-> Concat(fs)] :
     fs \in WrittenSeqs}

\* A body frame whose payload_size is 2^32 - 6 (here 16^4 - 6) and whose
\* channel high byte is 0xCE, so that "7 + payload_size" wraps onto it;
\* followed by well-formed frames.
WrappedBody == <<3, MCFrameEnd, 0>> \o U32Bytes(MCByte ^ 4 - 6)

WrappedInputs ==
  {[msgs |-> <<Desc(FALSE, 3, MCFrameEnd * MCByte, MCByte ^ 4 - 6, 0, 0)>>
              \o [i \in DOMAIN fs |-> fs[i].desc],
    wire |-> WrappedBody \o Concat(fs)] :
     fs \in UNION {[1 .. n -> Written] : n \in 0 .. 1}}

\* A heartbeat-shaped 8 bytes with a wrong end byte (a stream picked up
\* mid-frame, or a truncated event), followed by well-formed frames.
Garbage == <<8, 0, 0, 0, 0, 0, 0, 5>>

GarbageInputs ==
  {[msgs |-> [i \in DOMAIN fs |-> fs[i].desc], wire |-> Garbage \o Concat(fs)] :
     fs \in UNION {[1 .. n -> Written] : n \in 1 .. 2}}

\* A short string: its length byte, then its bytes.
Short(s) == <<Len(s)>> \o s

\* Exchange.Declare of exchange "12", type "3", no flags, empty arguments.
ExchangeDeclare ==
  LET f == Frame(1, 1, 40, 10, U16Bytes(40) \o U16Bytes(10) \o U16Bytes(0)
                               \o Short(<<1, 2>>) \o Short(<<3>>) \o <<0>>
                               \o U32Bytes(0))
  IN  [f EXCEPT !.desc.exchange = <<1, 2>>]

\* Basic.Publish to the default exchange "" with routing key "7".
BasicPublish ==
  LET f == Frame(1, 1, 60, 40, U16Bytes(60) \o U16Bytes(40) \o U16Bytes(0)
                               \o Short(<<>>) \o Short(<<7>>) \o <<0>>)
  IN  [f EXCEPT !.desc.routing_key = <<7>>]

\* Streams of one or two of these method frames and a heartbeat.
FieldInputs ==
  {[msgs |-> [i \in DOMAIN fs |-> fs[i].desc], wire |-> Concat(fs)] :
     fs \in UNION {[1 .. n -> {ExchangeDeclare, BasicPublish, Heartbeat}] :
                    n \in 1 .. 2}}

MCMaxChunk == 24
MCStuckThreshold == 5

=============================================================================
