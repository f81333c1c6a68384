----------------------------- MODULE L7Tracker -----------------------------
(***************************************************************************)
(* A connection tracker's classification (include/connect.h              *)
(* update_sock_conn_proto, driving L7Infer's get_l7_protocol).  info is    *)
(* the part of sock_conn->info the inference reads and writes: protocol,   *)
(* l7_role and the MySQL carry-over prev_count/prev_buf.  Each data event  *)
(* of the connection, in either direction, is one OnEvent step; events     *)
(* come from the constant set Events, so any order and any repetition of   *)
(* them is explored.  The ghosts last, prev_len and carried record the     *)
(* last event, the length of the one before it, and whether the last       *)
(* inference used the carried MySQL header.                                *)
(***************************************************************************)
EXTENDS L7Signatures

CONSTANTS
  Events,        \* the byte buffers a data event may carry
  FlagChoices,   \* the enable masks the probe may be configured with
  MAX_EVENTS     \* events per behaviour

VARIABLES info, flags, n, last, prev_len, carried
vars == <<info, flags, n, last, prev_len, carried>>

Directions == {L7_EGRESS, L7_INGRESS}

\* get_l7_role (connect.h)
get_l7_role(msg_type, direction) ==
  IF (direction = L7_EGRESS) # (msg_type = MESSAGE_RESPONSE)
  THEN L7_CLIENT ELSE L7_SERVER

\* Variant that derives l7_role before the check that get_l7_protocol hit.
update_sock_conn_proto_role_first(i, direction, buf, fl) ==
  LET r == get_l7_protocol(buf, fl, i.prev_count, i.prev_buf)
  IN IF i.protocol # PROTO_UNKNOW THEN i
     ELSE [i EXCEPT !.prev_count = r.prev_count, !.prev_buf = r.prev_buf,
                    !.protocol = IF r.ret = 0 THEN r.proto ELSE @,
                    !.l7_role  = get_l7_role(r.type, direction)]

(***************************************************************************)
(* update_sock_conn_proto: return at once when the protocol is known;      *)
(* otherwise run get_l7_protocol, whose MySQL branch may have written the  *)
(* carry-over, and on a hit set protocol and derive l7_role.               *)
(***************************************************************************)
update_sock_conn_proto(i, direction, buf, fl) ==
  LET r == get_l7_protocol(buf, fl, i.prev_count, i.prev_buf)
  IN IF i.protocol # PROTO_UNKNOW THEN i
     ELSE [i EXCEPT !.prev_count = r.prev_count, !.prev_buf = r.prev_buf,
                    !.protocol = IF r.ret = 0 THEN r.proto ELSE @,
                    !.l7_role  = IF r.ret = 0 THEN get_l7_role(r.type, direction)
                                 ELSE @]

\* Whether this event's inference read the carried header.
Carried(i, buf, fl) ==
  i.protocol = PROTO_UNKNOW /\ get_l7_protocol(buf, fl, i.prev_count, i.prev_buf).carried

Init ==
  /\ info = [protocol |-> PROTO_UNKNOW, l7_role |-> L7_UNKNOW,
             prev_count |-> 0, prev_buf |-> <<0, 0, 0, 0>>]
  /\ flags \in FlagChoices
  /\ n = 0
  /\ last = <<>>
  /\ prev_len = 0
  /\ carried = FALSE

\* One data event: the tracker routes it and classifies the connection.
OnEvent(d, buf) ==
  /\ n < MAX_EVENTS
  /\ info' = update_sock_conn_proto(info, d, buf, flags)
  /\ carried' = Carried(info, buf, flags)
  /\ n' = n + 1
  /\ last' = buf
  /\ prev_len' = Len(last)
  /\ UNCHANGED flags

Next == \E d \in Directions, buf \in Events : OnEvent(d, buf)

Spec == Init /\ [][Next]_vars

----------------------------------------------------------------------------
\* The tracker's state has its C types, and its role is known exactly when
\* its protocol is (update_sock_conn_proto sets both, or neither).
TypeOK ==
  /\ info.protocol \in {PROTO_UNKNOW} \cup {PRIORITY[k] : k \in 1 .. Len(PRIORITY)}
  /\ info.l7_role \in {L7_UNKNOW, L7_CLIENT, L7_SERVER}
  /\ info.prev_count \in 0 .. 255
  /\ info.prev_buf \in Seq(0 .. 255) /\ Len(info.prev_buf) = 4
  /\ (info.protocol = PROTO_UNKNOW) <=> (info.l7_role = L7_UNKNOW)
  /\ n \in 0 .. MAX_EVENTS

(***************************************************************************)
(* The Redis, PostgreSQL, Cassandra, MongoDB and (single-event) MySQL      *)
(* tests of l7.h give every buffer the kind spec 4.1's signature gives it. *)
(***************************************************************************)
SignaturesAgreeWithSpec ==
  last # <<>> =>
    /\ get_redis_type(last) = SpecRedis(last)
    /\ get_pgsql_type(last) = SpecPgsql(last)
    /\ get_cql_type(last) = SpecCql(last)
    /\ get_mongo_type(last) = SpecMongo(last)
    /\ get_mysql_type(last, 0, <<0, 0, 0, 0>>) = SpecMysql(last)

(***************************************************************************)
(* Spec scenario 3, generalised: while the connection is unclassified and  *)
(* MySQL is enabled, an event that follows a bare 4-byte MySQL header      *)
(* announcing exactly its length, and starts with a listed command, gets   *)
(* the connection classified as MySQL, or as a protocol get_l7_protocol    *)
(* tries before MySQL.  It needs the carry-over written by one call of     *)
(* get_l7_protocol to be read by the next one.                             *)
(***************************************************************************)
MysqlSplitHeaderRecognised ==
  [][ /\ info.protocol = PROTO_UNKNOW
      /\ Enabled(flags, PROTO_MYSQL)
      /\ Len(last) = 4 /\ At(last, 3) = 0 /\ U24Le(last, 0) = Len(last')
      /\ n' = n + 1
      /\ At(last', 0) \in MYSQL_COMMANDS
      => info'.protocol \in {PRIORITY[k] : k \in 1 .. Rank(PROTO_MYSQL)} ]_vars

(***************************************************************************)
(* Spec 4.1: a CRPC buffer whose lengths agree with count, whose request   *)
(* flag is set and whose format is 0 is a request; __get_crpc_type gives   *)
(* every buffer the kind that signature gives it.                         *)
(***************************************************************************)
CrpcAgreesWithSpec == last # <<>> => get_crpc_type(last) = SpecCrpc(last)

(***************************************************************************)
(* Spec 4.1: the MySQL carry-over only joins an event to the bytes of a    *)
(* previous event whose total length was exactly 4.  About               *)
(* get_l7_protocol storing count into the u8 prev_count.                  *)
(***************************************************************************)
CarryOverOnlyAfterBareHeader == carried => prev_len = 4

====
