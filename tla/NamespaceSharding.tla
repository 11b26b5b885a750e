-------------------------- MODULE NamespaceSharding --------------------------
(***************************************************************************)
(* Which namespaces a replica watches: the namespace matcher that          *)
(* cmd/exporter/main.go builds from its flags and its hostname.  A matcher *)
(* is the set of namespaces it accepts.                                    *)
(***************************************************************************)
EXTENDS Integers

CONSTANTS
  Namespace,  \* namespaces of the watched objects; "" is none
  Hash,       \* Hash[ns]: 32-bit FNV-1a of ns
  Word,       \* the range of a uint32, 2^32
  Invalid     \* "the flags are refused"

ASSUME ShardingAssumption ==
  /\ Word \in Nat \ {0}
  /\ Hash \in [Namespace -> 0..Word - 1]
  /\ Invalid \notin Int

\* A mistake: the hash as a signed number, whose remainder may be negative.
namespaceShardSigned(ns, total) ==
  IF Hash[ns] < Word \div 2 THEN Hash[ns] % total ELSE -((Word - Hash[ns]) % total)

\* The remainder of two uint32: the total is converted, which cuts off higher bits.
namespaceShard(ns, total) == Hash[ns] % (total % Word)

\* The index given by the flag or, if that is negative, by the number at the end of
\* the hostname (not a number: no such suffix).
resolveShardIndex(total, configured, suffix) ==
  LET index == IF configured >= 0 THEN configured ELSE suffix
  IN IF index \in 0..total - 1 THEN index ELSE Invalid

baseMatcher(targetNamespace) ==
  {ns \in Namespace : targetNamespace = "" \/ ns = targetNamespace}

shardMatcher(targetNamespace, total, index) ==
  {ns \in baseMatcher(targetNamespace) \ {""} : namespaceShard(ns, total) = index}

Matcher(mode, index, matched) == [mode |-> mode, index |-> index, matched |-> matched]

buildNamespaceMatcher(targetNamespace, total, configured, suffix) ==
  LET index == resolveShardIndex(total, configured, suffix)
  IN CASE total < 1 \/ (total = 1 /\ configured > 0) -> Invalid
       [] total = 1 /\ configured <= 0 -> Matcher("single", 0, baseMatcher(targetNamespace))
       [] total > 1 -> IF index = Invalid THEN Invalid
                       ELSE Matcher("shard", index, shardMatcher(targetNamespace, total, index))
=============================================================================
