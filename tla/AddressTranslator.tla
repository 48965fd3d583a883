--------------------------- MODULE AddressTranslator ---------------------------
(***************************************************************************)
(* CAddressTranslator: a 64-bit word that holds a 47-bit address and, in   *)
(* its upper 17 bits, a counter value taken modulo COUNTER_MAX.  Here such *)
(* a word is a record; the two masks of the code become its two fields.    *)
(*                                                                         *)
(* A counter is a 64-bit integer that is only ever read modulo             *)
(* COUNTER_MAX, which divides 2^64, so it is kept modulo COUNTER_MAX.      *)
(***************************************************************************)
EXTENDS Naturals

CONSTANTS
  COUNTER_MAX,   \* number of distinct counter values (2^17 in the code)
  NULL           \* the null address

ASSUME CounterAssumption == COUNTER_MAX \in Nat \ {0}

Counters == 0 .. COUNTER_MAX - 1

MetaAddrs(Addrs) == [cnt : Counters, addr : Addrs \cup {NULL}]

\* The counter after GetCnt handed out its value c.
IncCnt(c) == (c + 1) % COUNTER_MAX

GetMetaAddr(c, a) == [cnt |-> c, addr |-> a]

ExtractMetaCnt(m) == m.cnt

GetRealAddr(m) == m.addr

\* The all-zero word: neither an address nor a counter value.
ZeroMeta == GetMetaAddr(0, NULL)

===============================================================================
