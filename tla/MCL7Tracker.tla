----------------------------- MODULE MCL7Tracker -----------------------------
(***************************************************************************)
(* Model-checking instance of L7Tracker.  Events holds one buffer for each *)
(* signature (a hit), near misses that fail one test, the split MySQL      *)
(* header of spec scenario 3, a 260-byte event (260 = 4 mod 256), and the  *)
(* AMQP bytes a peer writes.  Bytes not listed are 0.                      *)
(***************************************************************************)
EXTENDS L7Tracker

Pad(s, len) == s \o [k \in 1 .. len - Len(s) |-> 0]
Sp == 32
X  == Ord("X")

HttpGet     == Pad(Word(<<"G","E","T">>) \o <<Sp, 47>>, 16)
PgsqlQuery  == <<Ord("Q"), 0, 0, 0, 8>>
RedisPong   == <<43>> \o Word(<<"P","O","N","G">>) \o <<CR, LF>>
RedisNoLF   == <<43>> \o Word(<<"P","O","N","G">>) \o <<CR, CR>>
NatsPub     == Word(<<"P","U","B">>) \o <<Sp, X, CR, LF>>
NatsInfo    == Lower(Word(<<"I","N","F","O">>)) \o <<Sp, 123, 125, CR, LF>>
NatsHmsg    == Word(<<"H","M","S","G">>) \o <<Sp, X, CR, LF>>
CqlQuery    == <<4, 0, 0, 1, 7, 0, 0, 0, 0>>
CqlResult   == <<132, 0, 0, 1, 8, 0, 0, 0, 0>>
CqlWrongDir == <<4, 0, 0, 1, 8, 0, 0, 0, 0>>
CqlFlags    == <<4, 16, 0, 1, 7, 0, 0, 0, 0>>
MongoMsg    == <<16,0,0,0, 7,0,0,0, 0,0,0,0, 221,7,0,0>>
MongoReply  == <<16,0,0,0, 8,0,0,0, 7,0,0,0, 221,7,0,0>>
MongoNegId  == <<16,0,0,0, 7,0,0,128, 0,0,0,0, 221,7,0,0>>
MysqlQuery  == <<5, 0, 0, 0, 3>> \o Word(<<"S","E","L">>) \o <<49>>
MysqlHeader == <<5, 0, 0, 0>>
MysqlBody   == <<3>> \o Word(<<"S","E","L">>) \o <<49>>
Filler260   == Pad(<<>>, 260)
CrpcRequest == Pad(<<26, 25, 0, 0, 0, 97, 0, 95, 1, 128>>, 103)
DnsQuery    == <<18, 52, 1, 0, 0, 1, 0, 0, 0, 0, 0, 0>>
AmqpHeader  == AMQP_HEADER
AmqpOpen    == <<1, 0, 1, 0, 0, 0, 5, 0, 20, 0, 10, 0, 206>>
AmqpBeat    == <<8, 0, 0, 0, 0, 0, 0, 206>>
\* The first 9 bytes a reader gets of a 64 KiB body frame on channel 1.
AmqpBodyHead == <<3, 0, 1, 0, 1, 0, 0, 0, 0>>

MCEvents ==
  { HttpGet, PgsqlQuery, RedisPong, RedisNoLF, NatsPub, NatsInfo, NatsHmsg,
    CqlQuery, CqlResult, CqlWrongDir, CqlFlags, MongoMsg, MongoReply,
    MongoNegId, MysqlQuery, MysqlHeader, MysqlBody, Filler260, CrpcRequest,
    DnsQuery, AmqpHeader, AmqpOpen, AmqpBeat, AmqpBodyHead }

\* Everything, or only Redis, MySQL and AMQP (REDIS|MYSQL|AMQP_ENABLE).
MCFlagChoices == {PROTO_ALL_ENABLE, 4 + 8 + 1024}
MCMaxEvents == 4

=============================================================================
