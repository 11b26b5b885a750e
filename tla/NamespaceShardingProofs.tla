----------------------- MODULE NamespaceShardingProofs -----------------------
(***************************************************************************)
(* The shards are a partition of the namespaces, for any hash, any total   *)
(* and any namespaces, which is what lets the replicas' metrics be summed. *)
(***************************************************************************)
EXTENDS NamespaceSharding, TLAPS

\* The remainder by k is one of 0..k-1, and k is at most total.
LEMMA RemainderInRange ==
  ASSUME NEW h \in Nat, NEW k \in Nat \ {0}, NEW total \in Nat, k <= total
  PROVE  h % k \in 0..total - 1
  OBVIOUS

\* A total that is no multiple of the word keeps a remainder to divide by.
LEMMA ConvertedTotal ==
  ASSUME NEW total \in Nat, total % Word # 0
  PROVE  total % Word \in Nat \ {0} /\ total % Word <= total
  BY ShardingAssumption

\* namespaceShard: the shard of a namespace is an index in range, also when the
\* conversion to uint32 cuts off bits of the total.
THEOREM ShardInRange ==
  ASSUME NEW ns \in Namespace, NEW total \in Nat, total % Word # 0
  PROVE  namespaceShard(ns, total) \in 0..total - 1
  <1>1. Hash[ns] \in Nat
    BY ShardingAssumption
  <1>2. QED
    BY <1>1, ConvertedTotal, RemainderInRange DEF namespaceShard

\* buildNamespaceMatcher with the index from the hostname.
LEMMA MatcherOfReplica ==
  ASSUME NEW targetNamespace, NEW total \in Nat, total > 1, NEW j \in 0..total - 1
  PROVE  buildNamespaceMatcher(targetNamespace, total, -1, j).matched
           = shardMatcher(targetNamespace, total, j)
  <1>1. resolveShardIndex(total, -1, j) = j
    BY DEF resolveShardIndex
  <1>2. j # Invalid /\ ~(total < 1) /\ ~(total = 1)
    BY ShardingAssumption
  <1>3. buildNamespaceMatcher(targetNamespace, total, -1, j)
          = Matcher("shard", j, shardMatcher(targetNamespace, total, j))
    BY <1>1, <1>2 DEF buildNamespaceMatcher
  <1>4. QED
    BY <1>3 DEF Matcher

\* buildNamespaceMatcher: of the replicas 0..total-1 of a StatefulSet, which take
\* their index from the hostname, exactly one accepts a watched namespace.
THEOREM ExactlyOneReplica ==
  ASSUME NEW targetNamespace, NEW total \in Nat, total > 1, total % Word # 0,
         NEW ns \in baseMatcher(targetNamespace) \ {""}
  PROVE  \E i \in 0..total - 1 : \A j \in 0..total - 1 :
           ns \in buildNamespaceMatcher(targetNamespace, total, -1, j).matched <=> j = i
  <1>1. namespaceShard(ns, total) \in 0..total - 1
    BY ShardInRange DEF baseMatcher
  <1>2. ASSUME NEW j \in 0..total - 1
        PROVE  ns \in buildNamespaceMatcher(targetNamespace, total, -1, j).matched
                 <=> j = namespaceShard(ns, total)
    <2>1. buildNamespaceMatcher(targetNamespace, total, -1, j).matched
            = shardMatcher(targetNamespace, total, j)
      BY MatcherOfReplica, Zenon
    <2>2. QED
      BY <2>1, Zenon DEF shardMatcher
  <1>3. QED
    BY <1>1, <1>2

\* buildNamespaceMatcher: whatever their flags and hostnames, two replicas with the
\* same total either have the same shard index or accept no namespace in common.
THEOREM ShardsDisjoint ==
  ASSUME NEW targetNamespace, NEW total \in Nat, total > 1,
         NEW c1 \in Int, NEW s1, NEW c2 \in Int, NEW s2
  PROVE  LET m1 == buildNamespaceMatcher(targetNamespace, total, c1, s1)
             m2 == buildNamespaceMatcher(targetNamespace, total, c2, s2)
         IN (m1 # Invalid /\ m2 # Invalid /\ m1.index # m2.index)
              => m1.matched \cap m2.matched = {}
  <1> DEFINE built(c, s) == buildNamespaceMatcher(targetNamespace, total, c, s)
             resolved(c, s) == resolveShardIndex(total, c, s)
             matcher(i) == Matcher("shard", i, shardMatcher(targetNamespace, total, i))
  <1>1. ASSUME NEW c \in Int, NEW s, built(c, s) # Invalid
        PROVE  built(c, s) = matcher(resolved(c, s))
    <2>1. ~(total < 1) /\ ~(total = 1)
      OBVIOUS
    <2>2. QED
      BY <1>1, <2>1 DEF buildNamespaceMatcher
  <1>2. ASSUME NEW i, NEW j, i # j
        PROVE  matcher(i).matched \cap matcher(j).matched = {}
    BY <1>2 DEF Matcher, shardMatcher
  <1>3. ASSUME NEW i
        PROVE  matcher(i).index = i
    BY DEF Matcher
  <1> HIDE DEF built, resolved, matcher
  <1>4. (built(c1, s1) # Invalid /\ built(c2, s2) # Invalid /\ built(c1, s1).index # built(c2, s2).index)
          => built(c1, s1).matched \cap built(c2, s2).matched = {}
    BY <1>1, <1>2, <1>3
  <1>5. QED
    BY <1>4 DEF built
=============================================================================
