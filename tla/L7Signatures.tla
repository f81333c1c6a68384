---------------------------- MODULE L7Signatures ----------------------------
(***************************************************************************)
(* The protocol signatures as spec section 4.1 states them: the reference  *)
(* the translations of l7.h in L7Infer are checked against.  Each operator *)
(* maps a buffer to the message kind the spec assigns it.                  *)
(***************************************************************************)
EXTENDS L7Infer

Kind(ok, k) == IF ok THEN k ELSE MESSAGE_UNKNOW

\* Redis: >= 6 bytes, first byte a RESP type, last two bytes "\r\n".
SpecRedis(buf) ==
  Kind(Len(buf) >= 6 /\ At(buf, 0) \in REDIS_COMMANDS
       /\ At(buf, Len(buf) - 2) = CR /\ At(buf, Len(buf) - 1) = LF,
       MESSAGE_REQUEST)

\* PostgreSQL: >= 5 bytes starting Q\0, P\0 or B\0.
SpecPgsql(buf) ==
  Kind(Len(buf) >= 5 /\ At(buf, 0) \in {Ord("Q"), Ord("P"), Ord("B")}
       /\ At(buf, 1) = 0, MESSAGE_REQUEST)

\* Cassandra: version 3..5, flags high nibble zero, and the direction bit
\* agreeing with the opcode's family.
SpecCql(buf) ==
  LET ok  == Len(buf) >= 9 /\ (At(buf, 0) % 128) \in 3 .. 5 /\ At(buf, 1) < 16
      dir == At(buf, 0) \div 128
  IN CASE ok /\ dir = 0 /\ At(buf, 4) \in CQL_REQUEST_OPS -> MESSAGE_REQUEST
       [] ok /\ dir = 1 /\ At(buf, 4) \in CQL_RESPONSE_OPS -> MESSAGE_RESPONSE
       [] OTHER -> MESSAGE_UNKNOW

\* MongoDB: request-id >= 0, a listed opcode; response-to = 0 is a request.
SpecMongo(buf) ==
  IF Len(buf) >= 16 /\ I32Le(buf, 4) >= 0 /\ I32Le(buf, 12) \in MONGO_OPS
  THEN IF I32Le(buf, 8) = 0 THEN MESSAGE_REQUEST ELSE MESSAGE_RESPONSE
  ELSE MESSAGE_UNKNOW

\* MySQL, one event on its own: 3-byte little-endian length in (0, 16 MiB],
\* sequence id 0 and a listed command byte.
SpecMysql(buf) ==
  Kind(Len(buf) >= 5 /\ U24Le(buf, 0) \in 1 .. 16 * 1024 * 1024
       /\ At(buf, 3) = 0 /\ At(buf, 4) \in MYSQL_COMMANDS, MESSAGE_REQUEST)

\* CRPC: both big-endian lengths agree with count, the request flag (byte 9
\* MSB) is set and the message format (bits 2-4) is 0.
SpecCrpc(buf) ==
  Kind(/\ Len(buf) >= 103 /\ At(buf, 0) = 26 /\ At(buf, 1) = 25
       /\ At(buf, 8) \in {1, 2}
       /\ U32Be(buf, 2) = Len(buf) - 6 /\ U16Be(buf, 6) = Len(buf) - 8
       /\ At(buf, 9) >= 128 /\ (At(buf, 9) \div 4) % 8 = 0,
       MESSAGE_REQUEST)

====
