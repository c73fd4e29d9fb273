-------------------------- MODULE HostFilesProofs --------------------------
(***************************************************************************)
(* What HostFiles guarantees for any number of starts, crashes, failing    *)
(* calls, rounds of the configuration and edits of the user, any hosts     *)
(* file, any peers and any settings: the identity is kept; a round that    *)
(* ends leaves the managed lines of the hosts file as the peers it was     *)
(* given call for, whatever earlier rounds, crashes and failures left      *)
(* behind; no step takes a line of the user's away; and the hooks run as   *)
(* the settings say.                                                       *)
(*                                                                         *)
(* The file and the settings are sequences of any length and what is done  *)
(* with them are recursive functions: Counting is the induction, on a set  *)
(* of places, and StepByStep the existence of a function defined place by  *)
(* place.  What a function makes of a sequence is stated by places.        *)
(***************************************************************************)
EXTENDS HostFiles, FiniteSetTheorems, WellFoundedInduction, TLAPS

\* The steps of a start at which the daemon has created an identity of its own.
Storing == up \in {"storing", "storingData"}

\* An identity is stored by the start that creates it, which is one that found no
\* file; so nothing durable is on the disk while it does.
StoreInv ==
    /\ created \in Nat
    /\ Storing => durable = 0 /\ identity = [address |-> identity.address, keys |-> identity.address]

IdInv == StoreInv /\ IdentityKept

\* Steps of the config thread, of the hooks thread and of the editor.
LEMMA OtherSteps ==
    ASSUME HostNext, ~startDaemon, ~identityRead, ~identityCreate, ~identityOpen, ~identityWrite, ~crash
    PROVE  UNCHANGED startVars
<1>1. CASE updateGetConfigData \/ claim
  BY <1>1 DEF updateGetConfigData, claim
<1>2. CASE transformFile \/ tmpOpen \/ tmpData \/ exchange \/ remove \/ lock \/ lockRead
  BY <1>2 DEF transformFile, tmpOpen, tmpData, exchange, remove, lock, lockRead, stepVars
<1>3. CASE lockWrite \/ lockTruncate \/ read \/ writeOpen \/ writeData
  BY <1>3 DEF lockWrite, lockTruncate, read, writeOpen, writeData, stepVars
<1>4. CASE periodicThread \/ editLine
  BY <1>4 DEF periodicThread, editLine
<1> QED BY <1>1, <1>2, <1>3, <1>4 DEF HostNext

LEMMA IdStep == IdInv /\ [HostNext]_vars => IdInv'
<1> SUFFICES ASSUME IdInv, [HostNext]_vars PROVE IdInv'
  OBVIOUS
<1> USE DEF IdInv, StoreInv, IdentityKept, Storing
<1>1. CASE UNCHANGED startVars
  BY <1>1 DEF startVars
<1>2. CASE startDaemon
  BY <1>2 DEF startDaemon
<1>3. CASE identityRead
  <2>1. UNCHANGED <<idFile, durable, created>> /\ up' \in {"dead", "running"}
    BY <1>3 DEF identityRead
  <2>2. ASSUME durable # 0 PROVE identity' = [address |-> durable, keys |-> durable]
    <3>1. Len(idFile) = 3 /\ idFile[1] = durable /\ idFile[3] = durable
      BY <2>2
    <3> QED BY <1>3, <3>1 DEF identityRead, Deserialized
  <2> QED BY <2>1, <2>2
<1>4. CASE identityCreate
  <2>1. durable = 0 /\ durable' = 0 /\ up' = "storing" /\ created' \in Nat
    BY <1>4 DEF identityCreate
  <2>2. identity' = [address |-> created + 1, keys |-> created + 1]
    BY <1>4 DEF identityCreate
  <2> QED BY <2>1, <2>2
<1>5. CASE identityOpen
  BY <1>5 DEF identityOpen
<1>6. CASE identityWrite
  <2>1. UNCHANGED <<identity, created>> /\ up' = "running" /\ durable = 0
    BY <1>6 DEF identityWrite
  <2>2. CASE idFile' = Serialized /\ durable' = identity.address
    <3>1. Serialized = <<identity.address, identity.address, identity.address>>
      BY <1>6 DEF identityWrite, Serialized
    <3> QED BY <1>6, <2>1, <2>2, <3>1 DEF identityWrite
  <2>3. CASE UNCHANGED durable
    BY <2>1, <2>3
  <2> QED BY <1>6, <2>2, <2>3 DEF identityWrite
<1>7. CASE crash
  BY <1>7 DEF crash
<1>8. CASE UNCHANGED vars
  BY <1>1, <1>8 DEF vars
<1> QED BY <1>1, <1>2, <1>3, <1>4, <1>5, <1>6, <1>7, <1>8, OtherSteps

LEMMA IdStart == HostInit => IdInv
<1>1. HostInit => up = "down" /\ durable = 0 /\ created = 0
  BY Zenon DEF HostInit
<1> QED BY <1>1 DEF IdInv, StoreInv, IdentityKept, Storing

\* The identity once stored wholly is that of every later start, through any
\* number of crashes, failing writes and restarts, in any build (identity.cpp).
THEOREM IdentityIsKept == HostSpec => []IdentityKept
BY IdStart, IdStep, PTL DEF HostSpec, IdInv

-----------------------------------------------------------------------------
\* Induction up to n, on a set of numbers.
LEMMA Counting ==
    ASSUME NEW n \in Nat, NEW T, 0 \in T, \A i \in 1..n : i - 1 \in T => i \in T
    PROVE  \A i \in 0..n : i \in T
<1> DEFINE Missing == {i \in 0..n : i \notin T}
<1>1. SUFFICES ASSUME Missing # {} PROVE FALSE
  OBVIOUS
<1>2. PICK least \in Missing : \A i \in Missing : least <= i
  <2> DEFINE Less == OpToRel(<, Nat)
  <2>1. \A a, b \in Nat : a < b => <<a, b>> \in Less
    BY DEF OpToRel
  <2>2. IsWellFoundedOn(Less, Nat)
    BY NatLessThanWellFounded
  <2>3. Missing \subseteq Nat
    OBVIOUS
  <2> HIDE DEF Less
  <2>4. PICK x \in Missing : \A y \in Missing : <<y, x>> \notin Less
    BY <1>1, <2>2, <2>3, WFMin, Zenon
  <2>5. ASSUME NEW y \in Missing PROVE x <= y
    <3>1. x \in Nat /\ y \in Nat
      OBVIOUS
    <3>2. ~(y < x)
      BY <2>1, <2>4, <3>1
    <3> QED BY <3>1, <3>2
  <2> QED BY <2>5
<1>3. least # 0 /\ least \in 1..n
  BY <1>2
<1>4. least - 1 \in 0..n /\ least - 1 \notin Missing
  BY <1>2, <1>3
<1> QED BY <1>2, <1>3, <1>4

\* What a recursive function computes, one step after another
StepsOf(f, n, first, step) == f[0] = first /\ \A i \in 1..n : f[i] = step[<<i, f[i - 1]>>]

\* A function defined step by step exists.
LEMMA StepByStep ==
    ASSUME NEW S, NEW first \in S, NEW n \in Nat, NEW step \in [(1..n) \X S -> S]
    PROVE  \E f \in [0..n -> S] : StepsOf(f, n, first, step)
<1> DEFINE Upto(m, f) == StepsOf(f, m, first, step)
<1> USE DEF StepsOf
<1> DEFINE T == {m \in 0..n : \E f \in [0..m -> S] : Upto(m, f)}
<1>1. 0 \in T
  <2>1. [i \in 0..0 |-> first] \in [0..0 -> S] /\ Upto(0, [i \in 0..0 |-> first])
    OBVIOUS
  <2>2. 0 \in 0..n
    OBVIOUS
  <2> QED BY <2>1, <2>2, Zenon
<1>2. ASSUME NEW m \in 1..n, m - 1 \in T PROVE m \in T
  <2>1. PICK f \in [0..(m - 1) -> S] : Upto(m - 1, f)
    BY <1>2
  <2> DEFINE g == [i \in 0..m |-> IF i = m THEN step[<<m, f[m - 1]>>] ELSE f[i]]
  <2>2. g \in [0..m -> S]
    <3>1. f[m - 1] \in S /\ step[<<m, f[m - 1]>>] \in S
      BY <2>1
    <3>2. \A i \in 0..m : i # m => i \in 0..(m - 1)
      OBVIOUS
    <3> QED BY <2>1, <3>1, <3>2
  <2>3. g[0] = first
    BY <2>1
  <2>4. ASSUME NEW i \in 1..m PROVE g[i] = step[<<i, g[i - 1]>>]
    <3>1. i - 1 \in 0..m /\ i - 1 # m /\ g[i - 1] = f[i - 1]
      OBVIOUS
    <3>2. CASE i = m
      BY <3>1, <3>2
    <3>3. CASE i # m
      <4>1. i \in 1..(m - 1) /\ g[i] = f[i]
        BY <3>3
      <4> QED BY <2>1, <3>1, <4>1
    <3> QED BY <3>2, <3>3
  <2>5. Upto(m, g)
    BY <2>3, <2>4
  <2>6. m \in 0..n
    OBVIOUS
  <2> HIDE DEF Upto, g
  <2> QED BY <2>2, <2>5, <2>6
<1> HIDE DEF T
<1>3. n \in T
  BY <1>1, <1>2, Counting
<1> QED BY <1>3, Zenon DEF T

-----------------------------------------------------------------------------
\* The lines of a file that Without keeps

\* `kept` holds the first m lines of `content` that are not dropped: each of
\* them, no later than it was; and nothing else, none twice.
Keeps(kept, content, dropped, m) ==
    /\ Len(kept) <= m
    /\ \A k \in 1..m : content[k] \notin dropped => \E j \in 1..Len(kept) : j <= k /\ kept[j] = content[k]
    /\ \E from \in [1..Len(kept) -> 1..m] :
          /\ \A i, j \in 1..Len(kept) : from[i] = from[j] => i = j
          /\ \A j \in 1..Len(kept) : kept[j] = content[from[j]] /\ kept[j] \notin dropped

LEMMA KeepsNext ==
    ASSUME NEW L, NEW content \in Seq(L), NEW dropped, NEW m \in 1..Len(content),
           NEW kept \in Seq(L), Keeps(kept, content, dropped, m - 1), content[m] \notin dropped
    PROVE  Keeps(Append(kept, content[m]), content, dropped, m)
<1> DEFINE more == Append(kept, content[m])
<1> DEFINE n == Len(more)
<1>1. /\ Len(kept) \in Nat /\ more \in Seq(L) /\ n = Len(kept) + 1 /\ more[n] = content[m]
      /\ \A j \in 1..Len(kept) : more[j] = kept[j]
      /\ content[m] \in L
  OBVIOUS
<1> HIDE DEF more
<1>2. PICK from \in [1..Len(kept) -> 1..(m - 1)] :
        /\ \A i, j \in 1..Len(kept) : from[i] = from[j] => i = j
        /\ \A j \in 1..Len(kept) : kept[j] = content[from[j]] /\ kept[j] \notin dropped
  BY DEF Keeps
<1> DEFINE from2 == [j \in 1..n |-> IF j = n THEN m ELSE from[j]]
<1>3. \A j \in 1..n : j = n \/ j \in 1..Len(kept)
  BY <1>1
<1>4. \A j \in 1..Len(kept) : from2[j] = from[j] /\ from[j] \in 1..(m - 1) /\ from[j] # m
  <2> SUFFICES ASSUME NEW j \in 1..Len(kept) PROVE from2[j] = from[j] /\ from[j] \in 1..(m - 1) /\ from[j] # m
    OBVIOUS
  <2>1. j \in 1..n /\ j # n
    BY <1>1
  <2>2. from[j] \in 1..(m - 1)
    OBVIOUS
  <2>3. from[j] # m
    BY <2>2
  <2> QED BY <2>1, <2>2, <2>3
<1>5. from2[n] = m /\ from2 \in [1..n -> 1..m]
  <2>1. \A j \in 1..n : from2[j] \in 1..m
    <3> SUFFICES ASSUME NEW j \in 1..n PROVE from2[j] \in 1..m
      OBVIOUS
    <3>1. CASE j = n
      BY <3>1
    <3>2. CASE j \in 1..Len(kept)
      <4>1. from2[j] \in 1..(m - 1)
        BY <1>4, <3>2
      <4> QED BY <4>1
    <3> QED BY <1>3, <3>1, <3>2
  <2> QED BY <1>1, <2>1
<1> HIDE DEF from2
<1>6. \A i, j \in 1..n : from2[i] = from2[j] => i = j
  BY <1>2, <1>3, <1>4, <1>5
<1>7. \A j \in 1..n : more[j] = content[from2[j]] /\ more[j] \notin dropped
  BY <1>1, <1>2, <1>3, <1>4, <1>5
<1>8. ASSUME NEW k \in 1..m, content[k] \notin dropped
      PROVE  \E j \in 1..n : j <= k /\ more[j] = content[k]
  <2>1. CASE k \in 1..(m - 1)
    <3>1. PICK j \in 1..Len(kept) : j <= k /\ kept[j] = content[k]
      BY <1>8, <2>1 DEF Keeps
    <3> QED BY <1>1, <3>1
  <2>2. CASE k = m
    <3>1. n <= m
      BY <1>1 DEF Keeps
    <3> QED BY <1>1, <2>2, <3>1
  <2> QED BY <2>1, <2>2
<1>9. Len(more) <= m
  BY <1>1 DEF Keeps
<1>10. Keeps(more, content, dropped, m)
  <2>1. \E f \in [1..Len(more) -> 1..m] :
          /\ \A i, j \in 1..Len(more) : f[i] = f[j] => i = j
          /\ \A j \in 1..Len(more) : more[j] = content[f[j]] /\ more[j] \notin dropped
    BY <1>5, <1>6, <1>7, Zenon
  <2> QED BY <1>8, <1>9, <2>1, Zenon DEF Keeps
<1> QED BY <1>10 DEF more

LEMMA WithoutKeeps ==
    ASSUME NEW L, NEW content \in Seq(L), NEW dropped
    PROVE  /\ Without(content, dropped) \in Seq(L)
           /\ Keeps(Without(content, dropped), content, dropped, Len(content))
<1> DEFINE n == Len(content)
<1> DEFINE Step(i, kept) == IF content[i] \in dropped THEN kept ELSE Append(kept, content[i])
<1> DEFINE IsUpTo(f) == f = [i \in 0..n |-> IF i = 0 THEN <<>> ELSE Step(i, f[i - 1])]
<1>1. n \in Nat /\ \A i \in 1..n : content[i] \in L
  OBVIOUS
<1>2. \A i \in 1..n, kept \in Seq(L) : Step(i, kept) \in Seq(L)
  BY <1>1
<1> HIDE DEF n
<1>3. \E f : IsUpTo(f)
  <2> DEFINE step == [pair \in (1..n) \X Seq(L) |-> Step(pair[1], pair[2])]
  <2>1. step \in [(1..n) \X Seq(L) -> Seq(L)]
    BY <1>2
  <2>2. \A i \in 1..n, kept \in Seq(L) : step[<<i, kept>>] = Step(i, kept)
    OBVIOUS
  <2>3. <<>> \in Seq(L)
    OBVIOUS
  <2> HIDE DEF step
  <2>4. PICK f \in [0..n -> Seq(L)] : StepsOf(f, n, <<>>, step)
    BY <1>1, <2>1, <2>3, StepByStep, Zenon
  <2> HIDE DEF Step
  <2>5. \A i \in 1..n : f[i] = Step(i, f[i - 1])
    <3> SUFFICES ASSUME NEW i \in 1..n PROVE f[i] = Step(i, f[i - 1])
      OBVIOUS
    <3>1. f[i - 1] \in Seq(L)
      BY <1>1
    <3> QED BY <2>2, <2>4, <3>1 DEF StepsOf
  <2>6. \A i \in 0..n : f[i] = IF i = 0 THEN <<>> ELSE Step(i, f[i - 1])
    BY <1>1, <2>4, <2>5 DEF StepsOf
  <2> QED BY <2>6
<1> DEFINE upTo == CHOOSE f : IsUpTo(f)
<1>4. IsUpTo(upTo)
  BY <1>3, Zenon
<1>5. Without(content, dropped) = upTo[n]
  BY DEF Without, n
<1> HIDE DEF upTo
<1>6. upTo[0] = <<>> /\ \A i \in 1..n : upTo[i] = Step(i, upTo[i - 1])
  <2> HIDE DEF Step
  <2>1. \A i \in 0..n : upTo[i] = IF i = 0 THEN <<>> ELSE Step(i, upTo[i - 1])
    BY <1>4, Zenon
  <2> QED BY <1>1, <2>1
<1> DEFINE T == {m \in 0..n : upTo[m] \in Seq(L) /\ Keeps(upTo[m], content, dropped, m)}
<1>7. 0 \in T
  <2>1. Keeps(<<>>, content, dropped, 0)
    <3>1. Len(<<>>) = 0 /\ 1..0 = {}
      OBVIOUS
    <3>2. [j \in {} |-> 0] \in [{} -> {}]
      OBVIOUS
    <3>3. \E from \in [1..Len(<<>>) -> 1..0] : TRUE
      BY <3>1, <3>2
    <3>4. \A k \in 1..Len(<<>>) : FALSE
      BY <3>1
    <3>5. \A k \in 1..0 : FALSE
      OBVIOUS
    <3>6. Len(<<>>) <= 0
      BY <3>1
    <3> QED BY <3>3, <3>4, <3>5, <3>6, Zenon DEF Keeps
  <2>2. <<>> \in Seq(L) /\ 0 \in 0..n
    BY <1>1
  <2> QED BY <1>6, <2>1, <2>2
<1>8. ASSUME NEW m \in 1..n, m - 1 \in T PROVE m \in T
  <2>1. upTo[m - 1] \in Seq(L) /\ Keeps(upTo[m - 1], content, dropped, m - 1) /\ m \in 0..n
    BY <1>8
  <2>2. upTo[m] \in Seq(L)
    BY <1>2, <1>6, <2>1
  <2>3. CASE content[m] \in dropped
    <3>1. upTo[m] = upTo[m - 1]
      BY <1>6, <2>3
    <3>2. Keeps(upTo[m - 1], content, dropped, m)
      <4>1. PICK from \in [1..Len(upTo[m - 1]) -> 1..(m - 1)] :
              /\ \A i, j \in 1..Len(upTo[m - 1]) : from[i] = from[j] => i = j
              /\ \A j \in 1..Len(upTo[m - 1]) : upTo[m - 1][j] = content[from[j]] /\ upTo[m - 1][j] \notin dropped
        BY <2>1, Zenon DEF Keeps
      <4>2. from \in [1..Len(upTo[m - 1]) -> 1..m]
        OBVIOUS
      <4>3. \A k \in 1..m : content[k] \notin dropped => k \in 1..(m - 1)
        BY <2>3
      <4>4. Len(upTo[m - 1]) <= m
        BY <2>1 DEF Keeps
      <4> QED BY <2>1, <4>1, <4>2, <4>3, <4>4, Zenon DEF Keeps
    <3> QED BY <2>1, <2>2, <3>1, <3>2
  <2>4. CASE content[m] \notin dropped
    <3>1. upTo[m] = Append(upTo[m - 1], content[m])
      BY <1>6, <2>4
    <3>2. Keeps(upTo[m], content, dropped, m)
      <4>1. m \in 1..Len(content)
        BY DEF n
      <4>2. Keeps(Append(upTo[m - 1], content[m]), content, dropped, m)
        BY <2>1, <2>4, <4>1, KeepsNext, Zenon
      <4> QED BY <3>1, <4>2
    <3> QED BY <2>1, <2>2, <3>2
  <2> QED BY <2>3, <2>4
<1> HIDE DEF T
<1>9. n \in T
  <2>1. \A m \in 1..n : m - 1 \in T => m \in T
    BY <1>8
  <2>2. \A m \in 0..n : m \in T
    BY <1>1, <1>7, <2>1, Counting, Zenon
  <2> QED BY <1>1, <2>2
<1> QED BY <1>5, <1>9 DEF T, n

-----------------------------------------------------------------------------
\* The hosts file

Name == ValidName \cup Hostname \cup UserLine \cup (UNION Peers) \cup {"husarnet-local", "absent", ""}
Line == {"managed", "user", "absent"} \X Name
Update == [names : Peers \cup {{}}, hostname : Hostname \cup {""}, claimed : BOOLEAN]

FileTypes ==
    /\ disk \in [hosts : Seq(Line), hostname : Seq(Line)]
    /\ tmp \in Seq(Line) /\ newContent \in Seq(Line)
    /\ path \in {"hosts", "hostname"}
    /\ update \in Update

\* Before the file is truncated, it begins with what is to stay.
Overwritten == pc = "lockTruncate" => SubSeq(disk[path], 1, Len(newContent)) = newContent

\* What is known of the file, when it is /etc/hosts that is transformed: what was read
\* of it holds its user lines until an edit or, under the lease, for good.
LinesInv ==
    path = "hosts" =>
        /\ pc \in {"tmpOpen", "tmpData", "exchange"} /\ ~edited =>
              UserLines(disk.hosts) \subseteq UserLines(newContent)
        /\ pc = "lockWrite" => newContent = Transformed("hosts", disk.hosts, update)
        /\ pc = "lockTruncate" => UserLines(disk.hosts) \subseteq UserLines(newContent)
        /\ pc = "writeData" => disk.hosts = <<>>

\* What is to be written names the peers of the update, and so does the file
\* once it is written and nothing has failed.
RepairInv ==
    /\ path = "hosts" /\ pc \in {"tmpOpen", "tmpData", "exchange", "lockWrite", "lockTruncate",
                                 "writeOpen", "writeData"} => Repaired(newContent, update)
    /\ clean /\ pc = "exchange" => tmp = newContent
    /\ clean /\ path = "hosts" /\ pc = "remove" => Repaired(disk.hosts, update)
    /\ clean /\ pc = "idle" /\ updates > 0 => Repaired(disk.hosts, update)

FileInv == FileTypes /\ Overwritten /\ LinesInv /\ RepairInv

Wanted(u) == {n \in Entries(u) : validateHostname(n)}

\* ManagedLines names each wanted peer once.
LEMMA ManagedLinesNames ==
    ASSUME NEW u \in Update
    PROVE  LET ours == ManagedLines(u) IN
           /\ ours \in Seq(Line)
           /\ \A i \in 1..Len(ours) : IsManaged(ours[i])
           /\ {ours[i] : i \in 1..Len(ours)} = {Managed(n) : n \in Wanted(u)}
           /\ \A i, j \in 1..Len(ours) : ours[i] = ours[j] => i = j
<1> DEFINE ok == Wanted(u)
<1> DEFINE ours == ManagedLines(u)
<1>1. IsFiniteSet(ok)
  <2>1. u.names \in Peers \cup {{}}
    BY DEF Update
  <2>2. IsFiniteSet(u.names)
    BY <2>1, PeersAssumption, FS_EmptySet
  <2>3. IsFiniteSet(Entries(u))
    BY <2>2, FS_AddElement DEF Entries
  <2>4. ok \in SUBSET Entries(u)
    BY DEF Wanted
  <2> QED BY <2>3, <2>4, FS_Subset
<1> DEFINE c == Cardinality(ok)
<1> DEFINE names == SetToSeq(ok)
<1>2. c \in Nat /\ ExistsBijection(1..c, ok)
  BY <1>1, FS_CardinalityType
<1>3. PICK f \in [1..c -> ok] : IsInjective(f)
  BY <1>2 DEF ExistsBijection, Bijection, Injection, IsInjective
<1>4. names \in [1..c -> ok] /\ IsInjective(names)
  BY <1>3, Zenon DEF SetToSeq
<1>5. \A n \in ok : \E i \in 1..c : names[i] = n
  <2> DEFINE r == {names[i] : i \in 1..c}
  <2> HIDE DEF names, c
  <2>1. names \in Bijection(1..c, r)
    BY <1>4 DEF Bijection, Injection, Surjection
  <2>2. Cardinality(r) = c
    BY <1>2, <2>1, FS_CountingElements DEF ExistsBijection
  <2>3. r \in SUBSET ok
    BY <1>4
  <2>4. Cardinality(ok) = Cardinality(r)
    BY <2>2 DEF c
  <2>5. ok = r
    BY <1>1, <2>3, <2>4, FS_Subset
  <2> QED BY <2>5
<1>6. ours = [i \in 1..c |-> Managed(names[i])]
  BY DEF ManagedLines, Wanted
<1> HIDE DEF names, c, ours
<1>7. ASSUME NEW i \in 1..c PROVE ours[i] = Managed(names[i]) /\ names[i] \in ok /\ ours[i] \in Line /\ IsManaged(ours[i])
  <2>1. names[i] \in ok /\ ours[i] = Managed(names[i])
    BY <1>4, <1>6
  <2>2. names[i] \in ValidName \cup Hostname \cup {"husarnet-local"}
    BY <2>1 DEF Wanted, validateHostname
  <2>3. names[i] \in Name
    BY <2>2 DEF Name
  <2> QED BY <2>1, <2>3 DEF Line, Managed, IsManaged
<1>8. ours \in Seq(Line) /\ Len(ours) = c
  BY <1>2, <1>6, <1>7
<1>9. {ours[i] : i \in 1..c} = {Managed(n) : n \in ok}
  BY <1>5, <1>7
<1>10. \A i, j \in 1..c : ours[i] = ours[j] => i = j
  <2>1. \A n, m : Managed(n) = Managed(m) => n = m
    BY DEF Managed
  <2>2. \A i, j \in 1..c : names[i] = names[j] => i = j
    BY <1>4 DEF IsInjective
  <2> QED BY <1>7, <2>1, <2>2
<1> QED BY <1>7, <1>8, <1>9, <1>10 DEF ours

\* User lines, by their place in the file
LEMMA UserLinesAt ==
    ASSUME NEW content \in Seq(Line), NEW line
    PROVE  line \in UserLines(content) <=> \E i \in 1..Len(content) : content[i] = line /\ IsUser(line)
BY DEF UserLines, ToSet

\* What is written in place of /etc/hosts: each user line of the old content, no
\* later than it was, no other user line, and the managed lines of the update.
LEMMA TransformedHosts ==
    ASSUME NEW old \in Seq(Line), NEW u \in Update
    PROVE  LET new == Transformed("hosts", old, u) IN
           /\ new \in Seq(Line)
           /\ \A k \in 1..Len(old) : IsUser(old[k]) => \E j \in 1..Len(new) : j <= k /\ new[j] = old[k]
           /\ UserLines(new) \subseteq UserLines(old)
           /\ Repaired(new, u)
<1> DEFINE dropped == {line \in ToSet(old) : IsManaged(line)}
<1> DEFINE w == Without(old, dropped)
<1> DEFINE ours == ManagedLines(u)
<1> DEFINE new == Transformed("hosts", old, u)
<1>1. new = w \o ours
  BY DEF Transformed
<1>2. w \in Seq(Line) /\ Keeps(w, old, dropped, Len(old))
  BY WithoutKeeps
<1>3. /\ ours \in Seq(Line)
      /\ \A i \in 1..Len(ours) : IsManaged(ours[i])
      /\ {ours[i] : i \in 1..Len(ours)} = {Managed(n) : n \in Wanted(u)}
      /\ \A i, j \in 1..Len(ours) : ours[i] = ours[j] => i = j
  BY ManagedLinesNames
<1> HIDE DEF w, ours, new
<1>4. /\ new \in Seq(Line) /\ Len(new) = Len(w) + Len(ours)
      /\ Len(w) \in Nat /\ Len(ours) \in Nat /\ Len(old) \in Nat
  BY <1>1, <1>2, <1>3
<1>5. /\ \A i \in 1..Len(w) : i \in 1..Len(new) /\ new[i] = w[i]
      /\ \A i \in 1..Len(ours) : Len(w) + i \in 1..Len(new) /\ new[Len(w) + i] = ours[i]
      /\ \A i \in 1..Len(new) : i \in 1..Len(w) \/ (i - Len(w) \in 1..Len(ours) /\ new[i] = ours[i - Len(w)])
  BY <1>1, <1>2, <1>3, <1>4
<1>6. \A line : ~(IsUser(line) /\ IsManaged(line))
  BY DEF IsUser, IsManaged
<1>7. \A i \in 1..Len(old) : old[i] \in dropped <=> IsManaged(old[i])
  BY DEF ToSet
<1>8. PICK from \in [1..Len(w) -> 1..Len(old)] :
        \A j \in 1..Len(w) : w[j] = old[from[j]] /\ w[j] \notin dropped
  BY <1>2 DEF Keeps
<1> HIDE DEF dropped
<1>9. \A j \in 1..Len(w) : ~IsManaged(w[j]) /\ from[j] \in 1..Len(old) /\ w[j] = old[from[j]]
  BY <1>7, <1>8
<1>10. ASSUME NEW k \in 1..Len(old), IsUser(old[k])
       PROVE  \E j \in 1..Len(new) : j <= k /\ new[j] = old[k]
  <2>1. old[k] \notin dropped
    BY <1>6, <1>7, <1>10
  <2>2. PICK j \in 1..Len(w) : j <= k /\ w[j] = old[k]
    BY <1>2, <2>1 DEF Keeps
  <2> QED BY <1>5, <2>2
<1>11. ASSUME NEW line \in UserLines(new) PROVE line \in UserLines(old)
  <2>1. PICK i \in 1..Len(new) : new[i] = line /\ IsUser(line)
    BY <1>4, <1>11, UserLinesAt
  <2>2. i \in 1..Len(w)
    BY <1>3, <1>5, <1>6, <2>1
  <2>3. old[from[i]] = line /\ from[i] \in 1..Len(old)
    BY <1>5, <1>9, <2>1, <2>2
  <2> QED BY <2>1, <2>3, UserLinesAt
<1>12. Repaired(new, u)
  <2> DEFINE mine == {i \in DOMAIN new : IsManaged(new[i])}
  <2>1. DOMAIN new = 1..Len(new)
    BY <1>4
  <2>2. \A i \in mine : i \in 1..Len(new) /\ i - Len(w) \in 1..Len(ours) /\ new[i] = ours[i - Len(w)]
    <3> SUFFICES ASSUME NEW i \in 1..Len(new), IsManaged(new[i])
                 PROVE  i - Len(w) \in 1..Len(ours) /\ new[i] = ours[i - Len(w)]
      BY <2>1
    <3>1. i \notin 1..Len(w)
      BY <1>5, <1>9
    <3> QED BY <1>5, <3>1
  <2>3. \A i \in 1..Len(ours) : Len(w) + i \in mine /\ new[Len(w) + i] = ours[i]
    BY <1>3, <1>5, <2>1
  <2> HIDE DEF mine
  <2>4. {new[i] : i \in mine} = {ours[i] : i \in 1..Len(ours)}
    <3>1. ASSUME NEW i \in mine PROVE new[i] \in {ours[k] : k \in 1..Len(ours)}
      BY <2>2
    <3>2. ASSUME NEW i \in 1..Len(ours) PROVE ours[i] \in {new[k] : k \in mine}
      BY <2>3
    <3> QED BY <3>1, <3>2
  <2>5. ASSUME NEW i \in mine, NEW j \in mine, new[i] = new[j] PROVE i = j
    <3>1. i - Len(w) = j - Len(w)
      BY <1>3, <2>2, <2>5
    <3> QED BY <1>4, <2>2, <3>1
  <2>6. {new[i] : i \in mine} = {Managed(n) : n \in Wanted(u)}
    BY <1>3, <2>4
  <2> QED BY <2>5, <2>6 DEF Repaired, Wanted, mine
<1> QED BY <1>4, <1>10, <1>11, <1>12 DEF new

LEMMA TransformedKeepsUserLines ==
    ASSUME NEW old \in Seq(Line), NEW u \in Update
    PROVE  UserLines(old) \subseteq UserLines(Transformed("hosts", old, u))
<1> DEFINE new == Transformed("hosts", old, u)
<1>1. /\ new \in Seq(Line)
      /\ \A k \in 1..Len(old) : IsUser(old[k]) => \E j \in 1..Len(new) : j <= k /\ new[j] = old[k]
  BY TransformedHosts
<1> HIDE DEF new
<1>2. ASSUME NEW line \in UserLines(old) PROVE line \in UserLines(new)
  <2>1. PICK k \in 1..Len(old) : old[k] = line /\ IsUser(line)
    BY <1>2, UserLinesAt
  <2>2. PICK j \in 1..Len(new) : new[j] = line
    BY <1>1, <2>1
  <2> QED BY <1>1, <2>1, <2>2, UserLinesAt
<1> QED BY <1>2 DEF new

\* Writing the beginning of the new content over the old one loses no user line,
\* wherever the write stops: a line is overwritten only after it was written again.
LEMMA OverKeepsUserLines ==
    ASSUME NEW old \in Seq(Line), NEW u \in Update,
           NEW written \in Prefixes(Transformed("hosts", old, u))
    PROVE  /\ Over(written, old) \in Seq(Line)
           /\ UserLines(old) \subseteq UserLines(Over(written, old))
           /\ SubSeq(Over(written, old), 1, Len(written)) = written
           /\ UserLines(Over(written, old)) \subseteq UserLines(old)
<1> DEFINE new == Transformed("hosts", old, u)
<1> DEFINE over == Over(written, old)
<1>1. /\ new \in Seq(Line)
      /\ \A k \in 1..Len(old) : IsUser(old[k]) => \E j \in 1..Len(new) : j <= k /\ new[j] = old[k]
      /\ UserLines(new) \subseteq UserLines(old)
  BY TransformedHosts
<1> HIDE DEF new
<1>2. PICK n \in 0..Len(new) : written = SubSeq(new, 1, n)
  BY DEF Prefixes, new
<1>3. Len(new) \in Nat /\ Len(old) \in Nat /\ n \in Nat
  BY <1>1, <1>2
<1>4. written \in Seq(Line) /\ Len(written) = n /\ \A i \in 1..n : written[i] = new[i] /\ i \in 1..Len(new)
  BY <1>1, <1>2, <1>3
<1> DEFINE tail == SubSeq(old, n + 1, Len(old))
<1>5. /\ tail \in Seq(Line) /\ Len(tail) = IF n < Len(old) THEN Len(old) - n ELSE 0
      /\ \A i \in 1..Len(tail) : tail[i] = old[n + i] /\ n + i \in 1..Len(old)
  BY <1>3
<1>6. over = written \o tail
  BY <1>4 DEF Over
<1> HIDE DEF tail, over
<1>7. /\ over \in Seq(Line) /\ Len(tail) \in Nat /\ Len(over) = n + Len(tail)
      /\ \A i \in 1..n : over[i] = written[i]
      /\ \A i \in (n + 1)..Len(over) : over[i] = tail[i - n] /\ i - n \in 1..Len(tail)
  <2>1. over \in Seq(Line) /\ Len(tail) \in Nat /\ Len(over) = n + Len(tail)
    <3>1. tail \in Seq(Line) /\ written \in Seq(Line)
      BY <1>4, <1>5
    <3>2. written \o tail \in Seq(Line) /\ Len(written \o tail) = Len(written) + Len(tail)
      BY <3>1
    <3>3. Len(tail) \in Nat
      BY <3>1
    <3>4. Len(written) = n
      BY <1>4
    <3> QED BY <1>6, <3>2, <3>3, <3>4, Zenon
  <2>2. ASSUME NEW i \in 1..Len(over)
        PROVE  over[i] = IF i <= n THEN written[i] ELSE tail[i - n]
    BY <1>4, <1>5, <1>6, <2>1
  <2>3. \A i \in 1..n : i \in 1..Len(over)
    BY <1>3, <2>1
  <2>4. \A i \in (n + 1)..Len(over) : i \in 1..Len(over) /\ ~(i <= n) /\ i - n \in 1..Len(tail)
    BY <1>3, <2>1
  <2> QED BY <2>1, <2>2, <2>3, <2>4
<1>8. \A i \in (n + 1)..Len(over) : over[i] = old[i] /\ i \in 1..Len(old)
  BY <1>3, <1>5, <1>7
<1>9. \A i \in 1..Len(old) : i > n => i \in (n + 1)..Len(over)
  BY <1>3, <1>5, <1>7
<1>10. \A i \in 1..n : over[i] = new[i] /\ i \in 1..Len(over)
  BY <1>3, <1>4, <1>7
<1>11. ASSUME NEW line \in UserLines(old) PROVE line \in UserLines(over)
  <2>1. PICK k \in 1..Len(old) : old[k] = line /\ IsUser(line)
    BY <1>11, UserLinesAt
  <2>2. CASE k > n
    <3>1. k \in 1..Len(over) /\ over[k] = line
      BY <1>3, <1>8, <1>9, <2>1, <2>2
    <3> QED BY <1>7, <2>1, <3>1, UserLinesAt
  <2>3. CASE k <= n
    <3>1. PICK j \in 1..Len(new) : j <= k /\ new[j] = line
      BY <1>1, <2>1
    <3>2. j \in 1..n
      BY <1>3, <2>3, <3>1
    <3>3. j \in 1..Len(over) /\ over[j] = line
      BY <1>10, <3>1, <3>2
    <3> QED BY <1>7, <2>1, <3>3, UserLinesAt
  <2> QED BY <1>3, <2>2, <2>3
<1>12. ASSUME NEW line \in UserLines(over) PROVE line \in UserLines(old)
  <2>1. PICK i \in 1..Len(over) : over[i] = line /\ IsUser(line)
    BY <1>7, <1>12, UserLinesAt
  <2>2. CASE i <= n
    <3>1. i \in 1..n
      BY <1>3, <2>2
    <3>2. new[i] = line /\ i \in 1..Len(new)
      BY <1>4, <1>10, <2>1, <3>1
    <3>3. line \in UserLines(new)
      BY <1>1, <2>1, <3>2, UserLinesAt
    <3> QED BY <1>1, <3>3
  <2>3. CASE i > n
    <3>1. i \in (n + 1)..Len(over)
      BY <1>3, <1>7, <2>3
    <3>2. old[i] = line /\ i \in 1..Len(old)
      BY <1>8, <2>1, <3>1
    <3> QED BY <2>1, <3>2, UserLinesAt
  <2> QED BY <1>3, <2>2, <2>3
<1>13. SubSeq(over, 1, n) = written
  <2>1. /\ SubSeq(over, 1, n) \in Seq(Line) /\ Len(SubSeq(over, 1, n)) = n
        /\ \A i \in 1..n : SubSeq(over, 1, n)[i] = over[i]
    BY <1>3, <1>7
  <2> QED BY <1>3, <1>4, <1>7, <2>1
<1> QED BY <1>4, <1>7, <1>11, <1>12, <1>13 DEF over

\* Repaired, by places in the file
LEMMA RepairedAt ==
    ASSUME NEW content \in Seq(Line), NEW u
    PROVE  Repaired(content, u) <=>
             /\ \A i \in 1..Len(content) : IsManaged(content[i]) => content[i] \in {Managed(n) : n \in Wanted(u)}
             /\ \A n \in Wanted(u) : \E i \in 1..Len(content) : content[i] = Managed(n)
             /\ \A i, j \in 1..Len(content) : IsManaged(content[i]) /\ content[i] = content[j] => i = j
<1> DEFINE ours == {i \in DOMAIN content : IsManaged(content[i])}
<1>1. DOMAIN content = 1..Len(content)
  OBVIOUS
<1>2. \A n : IsManaged(Managed(n))
  BY DEF IsManaged, Managed
<1>3. ({content[i] : i \in ours} = {Managed(n) : n \in Wanted(u)}) <=>
        /\ \A i \in ours : content[i] \in {Managed(n) : n \in Wanted(u)}
        /\ \A n \in Wanted(u) : \E i \in ours : content[i] = Managed(n)
  <2> HIDE DEF ours
  <2> QED OBVIOUS
<1>4. (\A n \in Wanted(u) : \E i \in ours : content[i] = Managed(n)) <=>
        (\A n \in Wanted(u) : \E i \in 1..Len(content) : content[i] = Managed(n))
  BY <1>1, <1>2
<1>5. Repaired(content, u) <=> /\ {content[i] : i \in ours} = {Managed(n) : n \in Wanted(u)}
                              /\ \A i, j \in ours : content[i] = content[j] => i = j
  BY DEF Repaired, Wanted
<1> QED BY <1>1, <1>3, <1>4, <1>5

\* An editor that adds or drops a user line leaves the managed ones alone.
LEMMA EditKeepsManaged ==
    ASSUME NEW content \in Seq(Line), NEW l \in UserLine, NEW u
    PROVE  LET added == Append(content, <<"user", l>>)
               less == Without(content, {<<"user", l>>})
           IN  /\ added \in Seq(Line) /\ less \in Seq(Line)
               /\ Repaired(content, u) => Repaired(added, u) /\ Repaired(less, u)
<1> DEFINE line == <<"user", l>>
<1> DEFINE added == Append(content, line)
<1> DEFINE less == Without(content, {line})
<1>1. line \in Line /\ ~IsManaged(line) /\ \A n : Managed(n) # line
  BY DEF Line, Name, IsManaged, Managed
<1> HIDE DEF line
<1>2. /\ added \in Seq(Line) /\ Len(content) \in Nat /\ Len(added) = Len(content) + 1
      /\ added[Len(content) + 1] = line /\ \A i \in 1..Len(content) : added[i] = content[i]
  BY <1>1
<1>3. less \in Seq(Line) /\ Keeps(less, content, {line}, Len(content))
  BY WithoutKeeps
<1> HIDE DEF added, less
<1>4. ASSUME Repaired(content, u) PROVE Repaired(added, u)
  <2>1. /\ \A i \in 1..Len(content) : IsManaged(content[i]) => content[i] \in {Managed(n) : n \in Wanted(u)}
        /\ \A n \in Wanted(u) : \E i \in 1..Len(content) : content[i] = Managed(n)
        /\ \A i, j \in 1..Len(content) : IsManaged(content[i]) /\ content[i] = content[j] => i = j
    BY <1>4, RepairedAt
  <2>2. \A i \in 1..Len(added) : IsManaged(added[i]) => i \in 1..Len(content) /\ added[i] = content[i]
    BY <1>1, <1>2
  <2>3. \A i \in 1..Len(content) : i \in 1..Len(added)
    BY <1>2
  <2>4. \A i \in 1..Len(added) : IsManaged(added[i]) => added[i] \in {Managed(n) : n \in Wanted(u)}
    BY <2>1, <2>2
  <2>5. \A n \in Wanted(u) : \E i \in 1..Len(added) : added[i] = Managed(n)
    BY <1>2, <2>1, <2>3
  <2>6. \A i, j \in 1..Len(added) : IsManaged(added[i]) /\ added[i] = added[j] => i = j
    BY <2>1, <2>2
  <2> QED BY <1>2, <2>4, <2>5, <2>6, RepairedAt
<1>5. ASSUME Repaired(content, u) PROVE Repaired(less, u)
  <2>1. /\ \A i \in 1..Len(content) : IsManaged(content[i]) => content[i] \in {Managed(n) : n \in Wanted(u)}
        /\ \A n \in Wanted(u) : \E i \in 1..Len(content) : content[i] = Managed(n)
        /\ \A i, j \in 1..Len(content) : IsManaged(content[i]) /\ content[i] = content[j] => i = j
    BY <1>5, RepairedAt
  <2>2. PICK from \in [1..Len(less) -> 1..Len(content)] :
          /\ \A i, j \in 1..Len(less) : from[i] = from[j] => i = j
          /\ \A j \in 1..Len(less) : less[j] = content[from[j]]
    BY <1>3 DEF Keeps
  <2>3. \A j \in 1..Len(less) : from[j] \in 1..Len(content)
    BY <2>2
  <2>4. \A i \in 1..Len(less) : IsManaged(less[i]) => less[i] \in {Managed(n) : n \in Wanted(u)}
    BY <2>1, <2>2, <2>3
  <2>5. ASSUME NEW n \in Wanted(u) PROVE \E i \in 1..Len(less) : less[i] = Managed(n)
    <3>1. PICK k \in 1..Len(content) : content[k] = Managed(n)
      BY <2>1
    <3>2. content[k] \notin {line}
      BY <1>1, <3>1
    <3> QED BY <1>3, <3>1, <3>2 DEF Keeps
  <2>6. ASSUME NEW i \in 1..Len(less), NEW j \in 1..Len(less), IsManaged(less[i]), less[i] = less[j]
        PROVE  i = j
    <3>1. /\ from[i] \in 1..Len(content) /\ from[j] \in 1..Len(content)
          /\ less[i] = content[from[i]] /\ less[j] = content[from[j]]
      BY <2>2, <2>3, Zenon
    <3>2. from[i] = from[j]
      BY <2>1, <2>6, <3>1, Zenon
    <3> QED BY <2>2, <3>2, Zenon
  <2> QED BY <1>3, <2>4, <2>5, <2>6, RepairedAt
<1> QED BY <1>2, <1>3, <1>4, <1>5 DEF added, less, line

\* One of the two files is written.
LEMMA DiskWith ==
    ASSUME NEW files \in [hosts : Seq(Line), hostname : Seq(Line)], NEW p \in {"hosts", "hostname"},
           NEW content \in Seq(Line)
    PROVE  /\ [files EXCEPT ![p] = content] \in [hosts : Seq(Line), hostname : Seq(Line)]
           /\ [files EXCEPT ![p] = content].hosts = IF p = "hosts" THEN content ELSE files.hosts
OBVIOUS

\* What is read of a file, and what is to be written in its place, are lines.
LEMMA ReadTypes ==
    ASSUME FileTypes
    PROVE  /\ disk[path] \in Seq(Line) /\ Content(path) \in Seq(Line)
           /\ Transformed(path, Content(path), update) \in Seq(Line)
           /\ Transformed(path, disk[path], update) \in Seq(Line)
<1>1. disk[path] \in Seq(Line) /\ Content(path) \in Seq(Line)
  BY DEF FileTypes, Content
<1>2. CASE path = "hosts"
  BY <1>1, <1>2, TransformedHosts DEF FileTypes
<1>3. CASE path = "hostname"
  <2>1. <<"user", update.hostname>> \in Line
    BY DEF FileTypes, Update, Line, Name
  <2> QED BY <1>1, <1>3, <2>1 DEF Transformed
<1> QED BY <1>1, <1>2, <1>3 DEF FileTypes

LEMMA NoLines == <<>> \in Seq(Line) /\ NoFile \in Seq(Line)
<1>1. <<"absent", "absent">> \in Line
  BY DEF Line, Name
<1> QED BY <1>1 DEF NoFile

LEMMA PrefixTypes ==
    ASSUME NEW content \in Seq(Line), NEW written \in Prefixes(content)
    PROVE  written \in Seq(Line)
BY DEF Prefixes

LEMMA FileTypesStep == FileTypes /\ Overwritten /\ [HostNext]_vars => FileTypes'
<1> SUFFICES ASSUME FileTypes, Overwritten, [HostNext]_vars PROVE FileTypes'
  OBVIOUS
<1>1. ASSUME UNCHANGED <<fileVars, path, update>> PROVE FileTypes'
  BY <1>1 DEF FileTypes, fileVars
<1>2. CASE startDaemon \/ identityRead \/ identityCreate \/ identityOpen \/ identityWrite
  BY <1>1, <1>2 DEF startDaemon, identityRead, identityCreate, identityOpen, identityWrite, restVars
<1>3. CASE updateGetConfigData
  <2>1. UNCHANGED fileVars /\ path' \in {"hosts", "hostname"}
    BY <1>3 DEF updateGetConfigData, FileTypes
  <2>2. update' \in Update
    <3>1. PICK names \in Peers, h \in Hostname \cup {""}, claimed \in BOOLEAN :
            update' = [names |-> names, hostname |-> h, claimed |-> claimed]
      BY <1>3 DEF updateGetConfigData
    <3>2. [names |-> names, hostname |-> h, claimed |-> claimed]
            \in [names : Peers \cup {{}}, hostname : Hostname \cup {""}, claimed : BOOLEAN]
      BY Zenon
    <3> QED BY <3>1, <3>2, Zenon DEF Update
  <2> QED BY <2>1, <2>2 DEF FileTypes, fileVars
<1>4. CASE claim
  BY <1>4 DEF claim, FileTypes, fileVars
<1>5. CASE transformFile \/ read
  BY <1>5, ReadTypes DEF transformFile, read, FileTypes
<1>6. CASE tmpOpen
  <2>1. tmp' \in Seq(Line)
    BY <1>6, NoLines DEF tmpOpen, FileTypes
  <2> QED BY <1>6, <2>1 DEF tmpOpen, FileTypes
<1>7. CASE tmpData
  <2>1. tmp' \in Seq(Line)
    BY <1>7, PrefixTypes DEF tmpData, FileTypes
  <2> QED BY <1>7, <2>1 DEF tmpData, FileTypes
<1>8. CASE exchange
  <2>1. disk' \in [hosts : Seq(Line), hostname : Seq(Line)] /\ tmp' \in Seq(Line)
    BY <1>8, DiskWith, ReadTypes DEF exchange, FileTypes
  <2> QED BY <1>8, <2>1 DEF exchange, FileTypes
<1>9. CASE remove
  BY <1>9, NoLines DEF remove, Done, FileTypes
<1>10. CASE lock
  BY <1>1, <1>10 DEF lock
<1>11. CASE lockRead
  BY <1>11, ReadTypes DEF lockRead, FileTypes
<1>12. CASE lockWrite
  <2>1. PICK written \in Prefixes(newContent) : disk' = [disk EXCEPT ![path] = Over(written, disk[path])]
    BY <1>12 DEF lockWrite
  <2>2. written \in Seq(Line) /\ disk[path] \in Seq(Line)
    BY <2>1, PrefixTypes, ReadTypes DEF FileTypes
  <2>3. SubSeq(disk[path], Len(written) + 1, Len(disk[path])) \in Seq(Line)
    BY <2>2
  <2>4. Over(written, disk[path]) \in Seq(Line)
    BY <2>2, <2>3 DEF Over
  <2>5. disk' \in [hosts : Seq(Line), hostname : Seq(Line)]
    BY <2>1, <2>4, DiskWith DEF FileTypes
  <2> QED BY <1>12, <2>5 DEF lockWrite, FileTypes
<1>13. CASE lockTruncate
  <2>1. SubSeq(disk[path], 1, Len(newContent)) \in Seq(Line)
    BY <1>13 DEF lockTruncate, Overwritten, FileTypes
  <2>2. disk' \in [hosts : Seq(Line), hostname : Seq(Line)]
    BY <1>13, <2>1, DiskWith DEF lockTruncate, FileTypes
  <2>3. newContent' \in Seq(Line)
    BY <1>13, NoLines DEF lockTruncate, Done, FileTypes
  <2> QED BY <1>13, <2>2, <2>3 DEF lockTruncate, FileTypes
<1>14. CASE writeOpen
  <2>1. disk' \in [hosts : Seq(Line), hostname : Seq(Line)]
    BY <1>14, DiskWith, NoLines DEF writeOpen, FileTypes
  <2>2. newContent' \in Seq(Line)
    BY <1>14, NoLines DEF writeOpen, Done, FileTypes
  <2> QED BY <1>14, <2>1, <2>2 DEF writeOpen, FileTypes
<1>15. CASE writeData
  <2>1. disk' \in [hosts : Seq(Line), hostname : Seq(Line)]
    BY <1>15, DiskWith, PrefixTypes DEF writeData, FileTypes
  <2> QED BY <1>15, <2>1, NoLines DEF writeData, Done, FileTypes
<1>16. CASE periodicThread
  BY <1>1, <1>16 DEF periodicThread
<1>17. CASE editLine
  <2>1. disk' \in [hosts : Seq(Line), hostname : Seq(Line)]
    <3>1. PICK l \in UserLine :
            \/ disk' = [disk EXCEPT !.hosts = Without(@, {<<"user", l>>})]
            \/ disk' = [disk EXCEPT !.hosts = Append(@, <<"user", l>>)]
      BY <1>17 DEF editLine
    <3>2. disk.hosts \in Seq(Line)
      BY DEF FileTypes
    <3>3. Without(disk.hosts, {<<"user", l>>}) \in Seq(Line) /\ Append(disk.hosts, <<"user", l>>) \in Seq(Line)
      BY <3>2, EditKeepsManaged
    <3> QED BY <3>1, <3>3, DiskWith DEF FileTypes
  <2> QED BY <1>17, <2>1 DEF editLine, FileTypes
<1>18. CASE crash
  BY <1>18 DEF crash, FileTypes
<1>19. CASE UNCHANGED vars
  BY <1>1, <1>19 DEF vars
<1> QED BY <1>2, <1>3, <1>4, <1>5, <1>6, <1>7, <1>8, <1>9, <1>10, <1>11, <1>12, <1>13, <1>14, <1>15,
        <1>16, <1>17, <1>18, <1>19 DEF HostNext

LEMMA OverwrittenStep == FileTypes /\ Overwritten /\ [HostNext]_vars => Overwritten'
<1> SUFFICES ASSUME FileTypes, Overwritten, [HostNext]_vars PROVE Overwritten'
  OBVIOUS
<1>1. ASSUME UNCHANGED <<disk, newContent, pc, path>> PROVE Overwritten'
  BY <1>1 DEF Overwritten
<1>2. CASE startDaemon \/ identityRead \/ identityCreate \/ identityOpen \/ identityWrite
  BY <1>1, <1>2 DEF startDaemon, identityRead, identityCreate, identityOpen, identityWrite, restVars, fileVars
<1>3. ASSUME pc' # "lockTruncate" PROVE Overwritten'
  BY <1>3 DEF Overwritten
<1>4. CASE updateGetConfigData \/ claim \/ transformFile \/ tmpOpen \/ tmpData \/ exchange \/ remove
  BY <1>3, <1>4 DEF updateGetConfigData, claim, transformFile, tmpOpen, tmpData, exchange, remove, Done
<1>5. CASE lock \/ lockRead \/ lockTruncate \/ read \/ writeOpen \/ writeData \/ crash
  BY <1>3, <1>5 DEF lock, lockRead, lockTruncate, read, writeOpen, writeData, crash, Done
<1>6. CASE lockWrite
  <2>1. PICK written \in Prefixes(newContent) :
          /\ disk' = [disk EXCEPT ![path] = Over(written, disk[path])]
          /\ IF written = newContent THEN pc' = "lockTruncate" ELSE pc' = "read"
    BY <1>6 DEF lockWrite
  <2>2. newContent' = newContent /\ path' = path
    BY <1>6 DEF lockWrite
  <2>3. CASE written = newContent
    <3> DEFINE old == disk[path]
    <3>1. newContent \in Seq(Line) /\ old \in Seq(Line)
      BY ReadTypes DEF FileTypes
    <3>2. disk'[path] = Over(newContent, old)
      BY <2>1, <2>3 DEF FileTypes
    <3> HIDE DEF old
    <3> DEFINE tail == SubSeq(old, Len(newContent) + 1, Len(old))
    <3>3. tail \in Seq(Line)
      BY <3>1
    <3> HIDE DEF tail
    <3>4. SubSeq(newContent \o tail, 1, Len(newContent)) = newContent
      BY <3>1, <3>3
    <3> QED BY <2>2, <3>2, <3>4 DEF Overwritten, Over, tail
  <2>4. CASE written # newContent
    BY <1>3, <2>1, <2>4
  <2> QED BY <2>3, <2>4
<1>7. CASE periodicThread
  BY <1>1, <1>7 DEF periodicThread, fileVars
<1>8. CASE editLine
  <2>1. UNCHANGED <<newContent, pc, path>>
    BY <1>8 DEF editLine
  <2>2. ASSUME pc = "lockTruncate" PROVE disk'[path] = disk[path]
    BY <1>8, <2>2 DEF editLine, FileTypes, Locked
  <2> QED BY <2>1, <2>2 DEF Overwritten
<1>9. CASE UNCHANGED vars
  BY <1>1, <1>9 DEF vars, fileVars
<1> QED BY <1>2, <1>4, <1>5, <1>6, <1>7, <1>8, <1>9 DEF HostNext

LEMMA LinesStep == FileInv /\ [HostNext]_vars => LinesInv'
<1> SUFFICES ASSUME FileInv, [HostNext]_vars PROVE LinesInv'
  OBVIOUS
<1> USE DEF FileInv
<1>0. /\ disk.hosts \in Seq(Line) /\ update \in Update /\ path \in {"hosts", "hostname"}
      /\ path = "hosts" => disk[path] = disk.hosts
  BY DEF FileTypes
<1>1. ASSUME UNCHANGED <<disk, newContent, pc, path, update, edited>> PROVE LinesInv'
  BY <1>1 DEF LinesInv
<1>2. CASE startDaemon \/ identityRead \/ identityCreate \/ identityOpen \/ identityWrite
  BY <1>1, <1>2 DEF startDaemon, identityRead, identityCreate, identityOpen, identityWrite, restVars, fileVars
<1>3. ASSUME pc' \notin {"tmpOpen", "tmpData", "exchange", "lockWrite", "lockTruncate", "writeData"}
      PROVE  LinesInv'
  BY <1>3 DEF LinesInv
<1>4. CASE updateGetConfigData \/ claim \/ exchange \/ remove
  BY <1>3, <1>4 DEF updateGetConfigData, claim, exchange, remove, Done
<1>5. CASE lock \/ lockTruncate \/ read \/ writeData \/ crash
  BY <1>3, <1>5 DEF lock, lockTruncate, read, writeData, crash, Done
<1>6. CASE transformFile
  <2>1. /\ pc' \in {"writeOpen", "tmpOpen"} /\ disk' = disk /\ path' = path /\ update' = update
        /\ pc' = "tmpOpen" => disk[path] # NoFile
        /\ newContent' = Transformed(path, Content(path), update)
    BY <1>6 DEF transformFile
  <2>2. ASSUME path = "hosts", pc' = "tmpOpen" PROVE UserLines(disk.hosts) \subseteq UserLines(newContent')
    <3>1. newContent' = Transformed("hosts", disk.hosts, update)
      BY <1>0, <2>1, <2>2 DEF Content
    <3> QED BY <1>0, <3>1, TransformedKeepsUserLines
  <2> QED BY <2>1, <2>2 DEF LinesInv
<1>7. CASE tmpOpen \/ tmpData
  BY <1>7 DEF tmpOpen, tmpData, LinesInv
<1>8. CASE lockRead
  BY <1>0, <1>8 DEF lockRead, LinesInv
<1>9. CASE lockWrite
  <2>1. PICK written \in Prefixes(newContent) :
          /\ disk' = [disk EXCEPT ![path] = Over(written, disk[path])]
          /\ IF written = newContent THEN pc' = "lockTruncate" ELSE pc' = "read"
    BY <1>9 DEF lockWrite
  <2>2. newContent' = newContent /\ path' = path /\ pc = "lockWrite"
    BY <1>9 DEF lockWrite
  <2>3. CASE path = "hosts" /\ written = newContent
    <3>1. newContent = Transformed("hosts", disk.hosts, update)
      BY <2>2, <2>3 DEF LinesInv
    <3>2. disk'.hosts = Over(newContent, disk.hosts)
      BY <1>0, <2>1, <2>3 DEF FileTypes
    <3>3. UserLines(disk'.hosts) \subseteq UserLines(disk.hosts)
      BY <1>0, <2>1, <2>3, <3>1, <3>2, OverKeepsUserLines
    <3>4. UserLines(disk.hosts) \subseteq UserLines(newContent)
      BY <1>0, <3>1, TransformedKeepsUserLines
    <3>5. pc' = "lockTruncate"
      BY <2>1, <2>3
    <3> QED BY <2>2, <3>3, <3>4, <3>5 DEF LinesInv
  <2>4. CASE path # "hosts" \/ written # newContent
    BY <2>1, <2>2, <2>4 DEF LinesInv
  <2> QED BY <2>3, <2>4
<1>10. CASE writeOpen
  <2>1. path' = path /\ pc' \in {"writeData", "claim", "idle"}
    BY <1>10 DEF writeOpen, Done
  <2>2. ASSUME path = "hosts", pc' = "writeData" PROVE disk'.hosts = <<>>
    BY <1>10, <2>2 DEF writeOpen, Done, FileTypes
  <2> QED BY <2>1, <2>2 DEF LinesInv
<1>11. CASE periodicThread
  BY <1>1, <1>11 DEF periodicThread, fileVars
<1>12. CASE editLine
  <2>1. /\ UNCHANGED <<newContent, pc, path, update>>
        /\ edited' = (pc \notin {"idle", "claim", "begin"})
        /\ ~(path = "hosts" /\ (Locked \/ pc = "writeData"))
    BY <1>12 DEF editLine
  <2> QED BY <2>1 DEF LinesInv, Locked
<1>13. CASE UNCHANGED vars
  BY <1>1, <1>13 DEF vars, fileVars
<1> QED BY <1>2, <1>4, <1>5, <1>6, <1>7, <1>8, <1>9, <1>10, <1>11, <1>12, <1>13 DEF HostNext

LEMMA RepairStep == FileInv /\ [HostNext]_vars => RepairInv'
<1> SUFFICES ASSUME FileInv, [HostNext]_vars PROVE RepairInv'
  OBVIOUS
<1> USE DEF FileInv
<1>0. /\ disk.hosts \in Seq(Line) /\ update \in Update /\ path \in {"hosts", "hostname"}
      /\ path = "hosts" => disk[path] = disk.hosts
  BY DEF FileTypes
<1>1. ASSUME UNCHANGED <<disk, tmp, newContent, pc, path, update, updates>>, clean' => clean PROVE RepairInv'
  BY <1>1 DEF RepairInv
<1>2. CASE startDaemon \/ identityRead \/ identityCreate \/ identityOpen \/ identityWrite
  BY <1>1, <1>2 DEF startDaemon, identityRead, identityCreate, identityOpen, identityWrite, restVars, fileVars,
                    NoFault, Fault
<1>3. ASSUME pc' \in {"begin", "claim", "lock", "lockRead", "read"} PROVE RepairInv'
  BY <1>3 DEF RepairInv
<1>4. CASE updateGetConfigData \/ claim \/ lock
  BY <1>3, <1>4 DEF updateGetConfigData, claim, lock
<1>5. ASSUME path = "hosts", newContent' = Transformed(path, Content(path), update), update' = update
      PROVE  Repaired(newContent', update')
  <2>1. Content("hosts") \in Seq(Line)
    BY <1>5, ReadTypes
  <2> QED BY <1>0, <1>5, <2>1, TransformedHosts
<1>6. CASE transformFile \/ read
  <2>1. /\ pc' \in {"tmpOpen", "writeOpen"} /\ path' = path
        /\ newContent' = Transformed(path, Content(path), update) /\ update' = update
    BY <1>6 DEF transformFile, read
  <2> QED BY <1>5, <2>1 DEF RepairInv
<1>7. CASE tmpOpen \/ tmpData
  BY <1>7 DEF tmpOpen, tmpData, RepairInv, Fault, NoFault, stepVars
<1>8. CASE exchange
  <2>1. CASE pc' = "lock"
    BY <1>3, <2>1
  <2>2. CASE pc' = "remove" /\ disk' = [disk EXCEPT ![path] = tmp]
    <3>1. UNCHANGED <<path, update, clean>> /\ pc = "exchange"
      BY <1>8 DEF exchange, Fault, NoFault
    <3>2. path = "hosts" => disk'.hosts = tmp
      BY <1>0, <2>2 DEF FileTypes
    <3> QED BY <2>2, <3>1, <3>2 DEF RepairInv
  <2> QED BY <1>8, <2>1, <2>2 DEF exchange
<1>9. CASE remove
  <2>1. /\ UNCHANGED <<disk, path, update, clean, updates>> /\ pc = "remove"
        /\ pc' = IF path = "hostname" THEN "claim" ELSE "idle"
    BY <1>9 DEF remove, Done, NoFault, stepVars
  <2> QED BY <1>0, <2>1 DEF RepairInv
<1>10. CASE lockRead
  <2>1. CASE pc' = "read"
    BY <1>3, <2>1
  <2>2. CASE pc' = "lockWrite" /\ newContent' = Transformed(path, disk[path], update)
    <3>1. UNCHANGED <<path, update>>
      BY <1>10 DEF lockRead
    <3>2. path = "hosts" => Repaired(newContent', update)
      BY <1>0, <2>2, TransformedHosts
    <3> QED BY <2>2, <3>1, <3>2 DEF RepairInv
  <2> QED BY <1>10, <2>1, <2>2 DEF lockRead
<1>11. CASE lockWrite
  <2>1. UNCHANGED <<path, update, newContent>> /\ pc = "lockWrite" /\ pc' \in {"read", "lockTruncate"}
    BY <1>11 DEF lockWrite
  <2> QED BY <2>1 DEF RepairInv
<1>12. CASE lockTruncate
  <2>1. CASE pc' = "read"
    BY <1>3, <2>1
  <2>2. CASE Done /\ disk' = [disk EXCEPT ![path] = SubSeq(disk[path], 1, Len(newContent))]
    <3>1. UNCHANGED <<path, update>> /\ pc = "lockTruncate"
      BY <1>12 DEF lockTruncate
    <3>2. path = "hosts" => disk'.hosts = newContent
      BY <1>0, <2>2, <3>1 DEF Overwritten, FileTypes
    <3>3. pc' = IF path = "hostname" THEN "claim" ELSE "idle"
      BY <2>2 DEF Done
    <3> QED BY <1>0, <3>1, <3>2, <3>3 DEF RepairInv
  <2> QED BY <1>12, <2>1, <2>2 DEF lockTruncate
<1>13. CASE writeOpen
  <2>1. UNCHANGED <<path, update>> /\ pc = "writeOpen"
    BY <1>13 DEF writeOpen
  <2>2. CASE pc' = "writeData" /\ UNCHANGED newContent
    BY <2>1, <2>2 DEF RepairInv
  <2>3. CASE Fault /\ Done
    BY <2>1, <2>3 DEF RepairInv, Fault, Done
  <2> QED BY <1>13, <2>2, <2>3 DEF writeOpen
<1>14. CASE writeData
  <2>1. UNCHANGED <<path, update>> /\ pc = "writeData" /\ pc' = IF path = "hostname" THEN "claim" ELSE "idle"
    BY <1>14 DEF writeData, Done
  <2>2. clean' /\ path = "hosts" => disk'.hosts = newContent
    BY <1>0, <1>14 DEF writeData, Fault, FileTypes
  <2> QED BY <1>0, <2>1, <2>2 DEF RepairInv
<1>15. CASE periodicThread
  BY <1>1, <1>15 DEF periodicThread, fileVars, NoFault
<1>16. CASE editLine
  <2>1. /\ UNCHANGED <<tmp, newContent, pc, path, update, updates, clean>>
        /\ ~(path = "hosts" /\ (Locked \/ pc = "writeData"))
    BY <1>16 DEF editLine
  <2>2. ASSUME Repaired(disk.hosts, update) PROVE Repaired(disk'.hosts, update)
    <3>1. PICK l \in UserLine :
            \/ disk' = [disk EXCEPT !.hosts = Without(@, {<<"user", l>>})]
            \/ disk' = [disk EXCEPT !.hosts = Append(@, <<"user", l>>)]
      BY <1>16 DEF editLine
    <3>2. disk'.hosts \in {Without(disk.hosts, {<<"user", l>>}), Append(disk.hosts, <<"user", l>>)}
      BY <3>1 DEF FileTypes
    <3> QED BY <1>0, <2>2, <3>2, EditKeepsManaged
  <2> QED BY <2>1, <2>2 DEF RepairInv
<1>17. CASE crash
  BY <1>17 DEF crash, Fault, RepairInv
<1>18. CASE UNCHANGED vars
  BY <1>1, <1>18 DEF vars, fileVars
<1> QED BY <1>2, <1>4, <1>6, <1>7, <1>8, <1>9, <1>10, <1>11, <1>12, <1>13, <1>14, <1>15, <1>16, <1>17,
        <1>18 DEF HostNext

LEMMA FileStart == HostInit => FileInv
<1> SUFFICES ASSUME HostInit PROVE FileInv
  OBVIOUS
<1>1. /\ pc = "idle" /\ path = "hosts" /\ updates = 0 /\ tmp = NoFile /\ newContent = <<>>
      /\ update = [names |-> {}, hostname |-> "", claimed |-> FALSE]
  BY Zenon DEF HostInit
<1>2. disk \in [hosts : Seq(Line), hostname : Seq(Line)]
  <2> DEFINE l == CHOOSE l \in UserLine : TRUE
  <2>1. PICK n \in ValidName : \E f \in {NoFile, <<Managed(n), <<"user", l>>>>} :
          disk = [hosts |-> f, hostname |-> NoFile]
    BY Zenon DEF HostInit
  <2>2. l \in UserLine
    BY NameAssumption, Zenon
  <2> HIDE DEF l
  <2>3. Managed(n) \in Line /\ <<"user", l>> \in Line
    BY <2>2 DEF Managed, Line, Name
  <2>4. NoFile \in Seq(Line) /\ <<Managed(n), <<"user", l>>>> \in Seq(Line)
    BY <2>3, NoLines
  <2>5. PICK f \in Seq(Line) : disk = [hosts |-> f, hostname |-> NoFile]
    BY <2>1, <2>4, Zenon
  <2> QED BY <2>5, NoLines
<1>3. update \in Update
  BY <1>1 DEF Update
<1>4. FileTypes
  BY <1>1, <1>2, <1>3, NoLines DEF FileTypes
<1>5. Overwritten /\ LinesInv
  BY <1>1 DEF Overwritten, LinesInv
<1>6. RepairInv
  <2>1. updates = 0
    BY <1>1
  <2>2. ~(updates > 0)
    BY <2>1
  <2> QED BY <1>1, <2>2, Zenon DEF RepairInv
<1> QED BY <1>4, <1>5, <1>6 DEF FileInv

LEMMA FileStep == FileInv /\ [HostNext]_vars => FileInv'
BY FileTypesStep, OverwrittenStep, LinesStep, RepairStep DEF FileInv

LEMMA FilesInvariant == HostSpec => []FileInv
BY FileStart, FileStep, PTL DEF HostSpec

\* When an update ends in which nothing failed, /etc/hosts names its peers and this
\* device once each and no other peer, after any number of updates, edits, crashes
\* and failing calls, whichever of the three ways of writing it took (transformFile).
THEOREM HostsAreRepaired == HostSpec => []HostsRepaired
<1>1. FileInv => HostsRepaired
  <2> SUFFICES ASSUME FileInv, clean, pc = "idle", updates > 0 PROVE Repaired(Content("hosts"), update)
    BY DEF HostsRepaired
  <2>1. Repaired(disk.hosts, update) /\ disk.hosts \in Seq(Line)
    BY DEF FileInv, RepairInv, FileTypes
  <2>2. disk.hosts # NoFile
    <3>1. "husarnet-local" \in Wanted(update)
      BY DEF Wanted, Entries, validateHostname
    <3>2. PICK i \in 1..Len(disk.hosts) : disk.hosts[i] = Managed("husarnet-local")
      BY <2>1, <3>1, RepairedAt
    <3>3. SUFFICES ASSUME disk.hosts = NoFile PROVE FALSE
      OBVIOUS
    <3>4. i = 1 /\ disk.hosts[1] = <<"absent", "absent">>
      BY <3>2, <3>3 DEF NoFile
    <3> QED BY <3>2, <3>4 DEF Managed
  <2> QED BY <2>1, <2>2 DEF Content
<1> QED BY <1>1, FilesInvariant, PTL

\* No step of the daemon takes a line of another program out of /etc/hosts, except
\* where the file was edited after it was read, where a short temporary file is
\* swapped in, and in the last resort: for every file, edit and place of a crash
\* (transformTmpFile, transformLockFile, writeFile).
THEOREM UserLinesAreKept == HostSpec => UserLinesKept
<1> DEFINE Step == \/ UserLines(disk.hosts) \subseteq UserLines(disk'.hosts)
                   \/ editLine
                   \/ pc = "exchange" /\ (edited \/ tmp # newContent)
                   \/ pc = "writeOpen"
<1>1. FileInv /\ [HostNext]_vars => [Step]_vars
  <2> SUFFICES ASSUME FileInv, HostNext, ~editLine, pc # "writeOpen",
                      pc = "exchange" => ~edited /\ tmp = newContent
               PROVE  UserLines(disk.hosts) \subseteq UserLines(disk'.hosts)
    BY Zenon
  <2> USE DEF FileInv
  <2>0. /\ disk.hosts \in Seq(Line) /\ update \in Update /\ path \in {"hosts", "hostname"}
        /\ path = "hosts" => disk[path] = disk.hosts
    BY DEF FileTypes
  <2>1. CASE disk' = disk
    BY <2>1
  <2>2. CASE exchange
    <3>1. CASE path = "hosts" /\ disk' = [disk EXCEPT ![path] = tmp]
      <4>1. disk'.hosts = newContent
        BY <2>2, <3>1 DEF exchange, FileTypes
      <4> QED BY <2>2, <3>1, <4>1 DEF exchange, LinesInv
    <3>2. CASE path = "hostname" /\ disk' = [disk EXCEPT ![path] = tmp]
      BY <3>2 DEF FileTypes
    <3> QED BY <2>0, <2>1, <2>2, <3>1, <3>2 DEF exchange
  <2>3. CASE lockWrite
    <3>1. PICK written \in Prefixes(newContent) : disk' = [disk EXCEPT ![path] = Over(written, disk[path])]
      BY <2>3 DEF lockWrite
    <3>2. CASE path = "hosts"
      <4>1. newContent = Transformed("hosts", disk.hosts, update)
        BY <2>3, <3>2 DEF lockWrite, LinesInv
      <4>2. disk'.hosts = Over(written, disk.hosts)
        BY <2>0, <3>1, <3>2 DEF FileTypes
      <4> QED BY <2>0, <3>1, <4>1, <4>2, OverKeepsUserLines
    <3>3. CASE path = "hostname"
      BY <3>1, <3>3 DEF FileTypes
    <3> QED BY <2>0, <3>2, <3>3
  <2>4. CASE lockTruncate
    <3>1. CASE disk' = [disk EXCEPT ![path] = SubSeq(disk[path], 1, Len(newContent))]
      <4>1. CASE path = "hosts"
        <5>1. disk'.hosts = newContent
          BY <2>0, <2>4, <3>1, <4>1 DEF lockTruncate, Overwritten, FileTypes
        <5> QED BY <2>4, <4>1, <5>1 DEF lockTruncate, LinesInv
      <4>2. CASE path = "hostname"
        BY <3>1, <4>2 DEF FileTypes
      <4> QED BY <2>0, <4>1, <4>2
    <3> QED BY <2>1, <2>4, <3>1 DEF lockTruncate
  <2>5. CASE writeData
    <3>1. CASE path = "hosts"
      <4>1. disk.hosts = <<>>
        BY <2>5, <3>1 DEF writeData, LinesInv
      <4> QED BY <4>1 DEF UserLines, ToSet
    <3>2. CASE path = "hostname"
      BY <2>5, <3>2 DEF writeData, FileTypes
    <3> QED BY <2>0, <3>1, <3>2
  <2>6. CASE startDaemon \/ identityRead \/ identityCreate \/ identityOpen \/ identityWrite \/ crash
    BY <2>1, <2>6 DEF startDaemon, identityRead, identityCreate, identityOpen, identityWrite, crash, restVars, fileVars
  <2>7. CASE updateGetConfigData \/ claim \/ transformFile \/ tmpOpen \/ tmpData \/ remove
    BY <2>1, <2>7 DEF updateGetConfigData, claim, transformFile, tmpOpen, tmpData, remove, fileVars
  <2>8. CASE lock \/ lockRead \/ read \/ periodicThread
    BY <2>1, <2>8 DEF lock, lockRead, read, periodicThread, fileVars
  <2>9. ~writeOpen
    BY DEF writeOpen
  <2> QED BY <2>2, <2>3, <2>4, <2>5, <2>6, <2>7, <2>8, <2>9 DEF HostNext
<1> QED BY <1>1, FilesInvariant, PTL DEF HostSpec, UserLinesKept

-----------------------------------------------------------------------------
\* The settings

IniLines == Seq(STRING \X (STRING \ {"unset"}))

\* Line i lies in a section named s.
InSection(lines, s, i) ==
    \E j \in 1..(i - 1) : lines[j] = <<"section", s>> /\ \A k \in (j + 1)..(i - 1) : lines[k][1] # "section"

\* The first m lines that set the key in such a section
About(lines, s, m) == {i \in 1..m : lines[i][1] = "enable_hooks" /\ InSection(lines, s, i)}

\* v is what the last of them says.
LastSays(v, lines, s, m) ==
    \/ About(lines, s, m) = {} /\ v = Unset
    \/ \E i \in About(lines, s, m) : (\A j \in About(lines, s, m) : j <= i) /\ v = lines[i][2]

LEMMA LineFields ==
    ASSUME NEW lines \in IniLines, NEW i \in 1..Len(lines)
    PROVE  /\ lines[i] = <<lines[i][1], lines[i][2]>>
           /\ lines[i][1] \in STRING /\ lines[i][2] \in STRING /\ lines[i][2] # Unset
<1>1. lines[i] \in STRING \X (STRING \ {"unset"})
  BY DEF IniLines
<1> QED BY <1>1 DEF Unset

LEMMA InSectionNext ==
    ASSUME NEW lines \in IniLines, NEW s, NEW m \in 1..Len(lines)
    PROVE  InSection(lines, s, m + 1) <=> IF lines[m][1] = "section" THEN lines[m][2] = s
                                          ELSE InSection(lines, s, m)
<1>1. m \in Nat /\ (m + 1) - 1 = m
  BY DEF IniLines
<1>2. lines[m] = <<lines[m][1], lines[m][2]>>
  BY LineFields
<1>3. CASE lines[m][1] = "section"
  <2>1. ASSUME InSection(lines, s, m + 1) PROVE lines[m][2] = s
    <3>1. PICK j \in 1..m : lines[j] = <<"section", s>> /\ \A k \in (j + 1)..m : lines[k][1] # "section"
      BY <1>1, <2>1 DEF InSection
    <3>2. j = m
      BY <1>1, <1>3, <3>1
    <3> QED BY <1>2, <3>1, <3>2
  <2>2. ASSUME lines[m][2] = s PROVE InSection(lines, s, m + 1)
    <3>1. lines[m] = <<"section", s>> /\ m \in 1..m /\ (m + 1)..m = {}
      BY <1>1, <1>2, <1>3, <2>2
    <3> QED BY <1>1, <3>1 DEF InSection
  <2> QED BY <1>3, <2>1, <2>2
<1>4. CASE lines[m][1] # "section"
  <2>1. ASSUME InSection(lines, s, m + 1) PROVE InSection(lines, s, m)
    <3>1. PICK j \in 1..m : lines[j] = <<"section", s>> /\ \A k \in (j + 1)..m : lines[k][1] # "section"
      BY <1>1, <2>1 DEF InSection
    <3>2. j # m
      BY <1>4, <3>1
    <3>3. j \in 1..(m - 1) /\ \A k \in (j + 1)..(m - 1) : k \in (j + 1)..m
      BY <1>1, <3>2
    <3> QED BY <3>1, <3>3 DEF InSection
  <2>2. ASSUME InSection(lines, s, m) PROVE InSection(lines, s, m + 1)
    <3>1. PICK j \in 1..(m - 1) : lines[j] = <<"section", s>> /\ \A k \in (j + 1)..(m - 1) : lines[k][1] # "section"
      BY <2>2 DEF InSection
    <3>2. j \in 1..m /\ \A k \in (j + 1)..m : k = m \/ k \in (j + 1)..(m - 1)
      BY <1>1
    <3> QED BY <1>1, <1>4, <3>1, <3>2 DEF InSection
  <2> QED BY <1>4, <2>1, <2>2
<1> QED BY <1>3, <1>4

LEMMA LastSaysNext ==
    ASSUME NEW lines \in IniLines, NEW s, NEW m \in 1..Len(lines), NEW v, LastSays(v, lines, s, m - 1)
    PROVE  LastSays(IF lines[m][1] = "enable_hooks" /\ InSection(lines, s, m) THEN lines[m][2] ELSE v, lines, s, m)
<1>1. m \in Nat /\ \A i \in 1..m : i = m \/ i \in 1..(m - 1)
  BY DEF IniLines
<1>2. CASE lines[m][1] = "enable_hooks" /\ InSection(lines, s, m)
  <2>1. m \in About(lines, s, m) /\ \A j \in About(lines, s, m) : j <= m
    BY <1>1, <1>2 DEF About
  <2> QED BY <1>2, <2>1 DEF LastSays
<1>3. CASE ~(lines[m][1] = "enable_hooks" /\ InSection(lines, s, m))
  <2>1. About(lines, s, m) = About(lines, s, m - 1)
    BY <1>1, <1>3 DEF About
  <2>2. LastSays(v, lines, s, m)
    BY <2>1 DEF LastSays
  <2> QED BY <1>3, <2>2
<1> QED BY <1>2, <1>3

\* What has been read of the first m lines
Word == STRING \cup {"other", "unset"}
Reading == [section : Word, common : Word, daemon : Word]
ReadSays(r, lines, m) ==
    /\ r.section = "common" <=> InSection(lines, "common", m + 1)
    /\ r.section = "daemon" <=> InSection(lines, "daemon", m + 1)
    /\ LastSays(r.common, lines, "common", m)
    /\ LastSays(r.daemon, lines, "daemon", m)

LEMMA IniLineType ==
    ASSUME NEW lines \in IniLines, NEW m \in 1..Len(lines), NEW r \in Reading
    PROVE  IniLine(r, lines[m]) \in Reading
<1>1. lines[m][2] \in Word
  BY LineFields DEF Word
<1> QED BY <1>1 DEF IniLine, Reading

LEMMA IniLineSays ==
    ASSUME NEW lines \in IniLines, NEW m \in 1..Len(lines), NEW r \in Reading, ReadSays(r, lines, m - 1)
    PROVE  ReadSays(IniLine(r, lines[m]), lines, m)
<1> DEFINE kind == lines[m][1]
<1> DEFINE value == lines[m][2]
<1> DEFINE next == IniLine(r, lines[m])
<1>1. (m - 1) + 1 = m /\ kind \in STRING /\ value \in STRING
  BY LineFields DEF IniLines
<1>2. /\ r.section = "common" <=> InSection(lines, "common", m)
      /\ r.section = "daemon" <=> InSection(lines, "daemon", m)
  BY <1>1 DEF ReadSays
<1>3. next.section = IF kind = "section" THEN value ELSE r.section
  BY <1>1 DEF IniLine, Reading
<1>4. next.common = IF kind = "enable_hooks" /\ r.section = "common" THEN value ELSE r.common
  BY <1>1 DEF IniLine, Reading
<1>5. next.daemon = IF kind = "enable_hooks" /\ r.section = "daemon" THEN value ELSE r.daemon
  BY <1>1 DEF IniLine, Reading
<1> HIDE DEF next
<1>6. \A s \in {"common", "daemon"} :
        InSection(lines, s, m + 1) <=> IF kind = "section" THEN value = s ELSE InSection(lines, s, m)
  BY InSectionNext
<1>7. LastSays(next.common, lines, "common", m)
  BY <1>2, <1>4, LastSaysNext DEF ReadSays
<1>8. LastSays(next.daemon, lines, "daemon", m)
  BY <1>2, <1>5, LastSaysNext DEF ReadSays
<1>9. /\ next.section = "common" <=> InSection(lines, "common", m + 1)
      /\ next.section = "daemon" <=> InSection(lines, "daemon", m + 1)
  BY <1>2, <1>3, <1>6
<1> QED BY <1>7, <1>8, <1>9 DEF ReadSays, next

\* The settings file as a whole
LEMMA IniReadSays ==
    ASSUME NEW lines \in IniLines
    PROVE  IniRead(lines) \in Reading /\ ReadSays(IniRead(lines), lines, Len(lines))
<1> DEFINE n == Len(lines)
<1> DEFINE first == [section |-> "other", common |-> Unset, daemon |-> Unset]
<1> DEFINE IsAfter(f) == f = [i \in 0..n |-> IF i = 0 THEN first ELSE IniLine(f[i - 1], lines[i])]
<1>1. n \in Nat
  BY DEF IniLines
<1>2. first \in Reading
  BY DEF Reading, Word, Unset
<1>3. ReadSays(first, lines, 0)
  <2>1. first.section = "other" /\ first.common = Unset /\ first.daemon = Unset
    OBVIOUS
  <2>2. \A s : ~InSection(lines, s, 0 + 1)
    BY DEF InSection
  <2>3. \A s : About(lines, s, 0) = {}
    BY DEF About
  <2> HIDE DEF first
  <2> QED BY <2>1, <2>2, <2>3 DEF ReadSays, LastSays
<1> HIDE DEF n, first
<1>4. \E f : IsAfter(f)
  <2> DEFINE step == [pair \in (1..n) \X Reading |-> IniLine(pair[2], lines[pair[1]])]
  <2>1. step \in [(1..n) \X Reading -> Reading]
    BY IniLineType DEF n
  <2>2. \A i \in 1..n, r \in Reading : step[<<i, r>>] = IniLine(r, lines[i])
    OBVIOUS
  <2> HIDE DEF step
  <2>3. PICK f \in [0..n -> Reading] : StepsOf(f, n, first, step)
    BY <1>1, <1>2, <2>1, StepByStep, Zenon
  <2>4. \A i \in 1..n : f[i] = IniLine(f[i - 1], lines[i])
    <3> SUFFICES ASSUME NEW i \in 1..n PROVE f[i] = IniLine(f[i - 1], lines[i])
      OBVIOUS
    <3>1. f[i - 1] \in Reading
      BY <1>1
    <3> QED BY <2>2, <2>3, <3>1 DEF StepsOf
  <2>5. \A i \in 0..n : f[i] = IF i = 0 THEN first ELSE IniLine(f[i - 1], lines[i])
    BY <1>1, <2>3, <2>4 DEF StepsOf
  <2> QED BY <2>5
<1> DEFINE after == CHOOSE f : IsAfter(f)
<1>5. IsAfter(after)
  BY <1>4, Zenon
<1>6. IniRead(lines) = after[n]
  BY DEF IniRead, n, first
<1> HIDE DEF after
<1>7. after[0] = first /\ \A i \in 1..n : after[i] = IniLine(after[i - 1], lines[i])
  <2>1. \A i \in 0..n : after[i] = IF i = 0 THEN first ELSE IniLine(after[i - 1], lines[i])
    BY <1>5, Zenon
  <2> QED BY <1>1, <2>1
<1> DEFINE T == {m \in 0..n : after[m] \in Reading /\ ReadSays(after[m], lines, m)}
<1>8. 0 \in T
  BY <1>1, <1>2, <1>3, <1>7
<1>9. ASSUME NEW m \in 1..n, m - 1 \in T PROVE m \in T
  <2>1. m \in 1..Len(lines) /\ m \in 0..n
    BY <1>1 DEF n
  <2>2. after[m] \in Reading /\ ReadSays(after[m], lines, m)
    BY <1>7, <1>9, <2>1, IniLineType, IniLineSays
  <2> QED BY <2>1, <2>2
<1> HIDE DEF T
<1>10. n \in T
  <2>1. \A m \in 1..n : m - 1 \in T => m \in T
    BY <1>9
  <2>2. \A m \in 0..n : m \in T
    BY <1>1, <1>8, <2>1, Counting, Zenon
  <2> QED BY <1>1, <2>2
<1> QED BY <1>6, <1>10 DEF T, n

\* EnableHooks is what the strongest place says, as HooksAsConfigured spells it out.
LEMMA EnableHooksSays ==
    ASSUME NEW lines \in IniLines, NEW values \in Seq(STRING \ {"unset"})
    PROVE  LET LastOf(s) == lines[CHOOSE i \in About(lines, s, Len(lines)) :
                                    \A j \in About(lines, s, Len(lines)) : j <= i][2]
               In(s) == About(lines, s, Len(lines))
           IN  EnableHooks(lines, values) <=>
                 \/ values # <<>> /\ strToBool(values[Len(values)])
                 \/ values = <<>> /\ In("daemon") # {} /\ strToBool(LastOf("daemon"))
                 \/ values = <<>> /\ In("daemon") = {} /\ In("common") # {} /\ strToBool(LastOf("common"))
<1> DEFINE In(s) == About(lines, s, Len(lines))
<1> DEFINE LastOf(s) == lines[CHOOSE i \in In(s) : \A j \in In(s) : j <= i][2]
<1> DEFINE r == IniRead(lines)
<1>1. r \in Reading /\ ReadSays(r, lines, Len(lines))
  BY IniReadSays
<1> HIDE DEF r
<1>2. ~strToBool(Unset)
  BY DEF strToBool, Unset
<1>3. ASSUME NEW v, NEW s, LastSays(v, lines, s, Len(lines))
      PROVE  /\ In(s) = {} => v = Unset
             /\ In(s) # {} => v # Unset /\ v = LastOf(s)
  <2>1. CASE In(s) = {}
    BY <1>3, <2>1 DEF LastSays
  <2>2. CASE In(s) # {}
    <3>1. PICK i \in In(s) : (\A j \in In(s) : j <= i) /\ v = lines[i][2]
      BY <1>3, <2>2 DEF LastSays
    <3>2. In(s) \subseteq 1..Len(lines) /\ Len(lines) \in Nat
      BY DEF About, IniLines
    <3> HIDE DEF In
    <3>3. \A k \in In(s) : (\A j \in In(s) : j <= k) => k = i
      BY <3>1, <3>2
    <3>4. (CHOOSE k \in In(s) : \A j \in In(s) : j <= k) = i
      BY <3>1, <3>3, Zenon
    <3>5. lines[i][2] # Unset
      BY <3>1, <3>2, LineFields
    <3> QED BY <2>2, <3>1, <3>4, <3>5
  <2> QED BY <2>1, <2>2
<1>4. /\ In("daemon") = {} => r.daemon = Unset
      /\ In("daemon") # {} => r.daemon # Unset /\ r.daemon = LastOf("daemon")
  BY <1>1, <1>3, Zenon DEF ReadSays
<1>5. /\ In("common") = {} => r.common = Unset
      /\ In("common") # {} => r.common # Unset /\ r.common = LastOf("common")
  BY <1>1, <1>3, Zenon DEF ReadSays
<1>6. IniDefault(lines) = IF r.daemon # Unset THEN r.daemon ELSE r.common
  BY DEF IniDefault, r
<1> HIDE DEF In, LastOf
<1>7. CASE values = <<>>
  <2>1. EnableHooks(lines, values) <=> strToBool(IniDefault(lines))
    BY <1>7 DEF EnableHooks, Override
  <2>2. strToBool(IniDefault(lines)) <=>
          \/ In("daemon") # {} /\ strToBool(LastOf("daemon"))
          \/ In("daemon") = {} /\ In("common") # {} /\ strToBool(LastOf("common"))
    <3>1. CASE In("daemon") # {}
      <4>1. IniDefault(lines) = LastOf("daemon")
        BY <1>4, <1>6, <3>1
      <4> QED BY <3>1, <4>1
    <3>2. CASE In("daemon") = {} /\ In("common") # {}
      <4>1. IniDefault(lines) = LastOf("common")
        BY <1>4, <1>5, <1>6, <3>2
      <4> QED BY <3>2, <4>1
    <3>3. CASE In("daemon") = {} /\ In("common") = {}
      <4>1. IniDefault(lines) = Unset
        BY <1>4, <1>5, <1>6, <3>3
      <4> QED BY <1>2, <3>3, <4>1
    <3> QED BY <3>1, <3>2, <3>3
  <2> QED BY <1>7, <2>1, <2>2 DEF In, LastOf
<1>8. CASE values # <<>>
  <2>1. values[Len(values)] \in STRING \ {"unset"}
    BY <1>8
  <2>2. EnableHooks(lines, values) <=> strToBool(values[Len(values)])
    BY <1>8, <2>1 DEF EnableHooks, Override, Last, Unset
  <2> QED BY <1>8, <2>2 DEF In, LastOf
<1> QED BY <1>7, <1>8

\* The settings are read once, when the daemon starts, and do not change.
HooksInv ==
    /\ ini \in IniLines /\ environ \in Seq(STRING \ {"unset"})
    /\ up \notin {"down", "dead"} => enableHooks = EnableHooks(ini, environ)

LEMMA HooksStart == HostInit => HooksInv
<1> SUFFICES ASSUME HostInit PROVE HooksInv
  OBVIOUS
<1>1. up = "down" /\ \E s \in Settings : ini = s.ini /\ environ = s.environ
  BY Zenon DEF HostInit
<1>2. ini \in IniLines /\ environ \in Seq(STRING \ {"unset"})
  BY <1>1, SettingsAssumption, Zenon DEF IniLines
<1> QED BY <1>1, <1>2 DEF HooksInv

LEMMA HooksStep == HooksInv /\ [HostNext]_vars => HooksInv'
<1> SUFFICES ASSUME HooksInv, [HostNext]_vars PROVE HooksInv'
  OBVIOUS
<1>1. CASE startDaemon
  BY <1>1 DEF startDaemon, envVars, HooksInv
<1>2. ASSUME UNCHANGED <<ini, environ, enableHooks>>, up \notin {"down", "dead"} \/ up' \in {"down", "dead"}
      PROVE  HooksInv'
  BY <1>2 DEF HooksInv
<1>3. CASE identityRead \/ identityCreate \/ identityOpen \/ identityWrite
  BY <1>2, <1>3 DEF identityRead, identityCreate, identityOpen, identityWrite, restVars, envVars
<1>4. CASE crash
  BY <1>2, <1>4 DEF crash, envVars
<1>5. CASE UNCHANGED <<envVars, startVars>>
  BY <1>2, <1>5 DEF envVars, startVars
<1>6. CASE updateGetConfigData \/ claim \/ periodicThread \/ editLine
  BY <1>5, <1>6 DEF updateGetConfigData, claim, periodicThread, editLine
<1>7. CASE transformFile \/ tmpOpen \/ tmpData \/ exchange \/ remove \/ lock \/ lockRead
  BY <1>5, <1>7 DEF transformFile, tmpOpen, tmpData, exchange, remove, lock, lockRead, stepVars
<1>8. CASE lockWrite \/ lockTruncate \/ read \/ writeOpen \/ writeData
  BY <1>5, <1>8 DEF lockWrite, lockTruncate, read, writeOpen, writeData, stepVars
<1>9. CASE UNCHANGED vars
  BY <1>5, <1>9 DEF vars
<1> QED BY <1>1, <1>3, <1>4, <1>6, <1>7, <1>8, <1>9 DEF HostNext

LastWord(lines, places) == lines[CHOOSE i \in places : \A j \in places : j <= i][2]

\* Whether hooks run is what the last line about them in the strongest place says,
\* for every defaults.ini and every environment (config_env.cpp, and
\* getEnvironmentDefaultsFromIniFile of ports/fat/port.cpp).
THEOREM HooksAreAsConfigured == HostSpec => []HooksAsConfigured
<1>1. HooksInv => HooksAsConfigured
  <2> SUFFICES ASSUME HooksInv, up \notin {"down", "dead"} PROVE HooksAsConfigured
    BY Zenon DEF HooksAsConfigured
  <2> DEFINE In(s) == {i \in DOMAIN ini :
                         /\ ini[i][1] = "enable_hooks"
                         /\ \E j \in 1..(i - 1) :
                               /\ ini[j] = <<"section", s>>
                               /\ \A k \in (j + 1)..(i - 1) : ini[k][1] # "section"}
  <2> DEFINE LastOf(s) == ini[CHOOSE i \in In(s) : \A j \in In(s) : j <= i][2]
  <2> DEFINE on == \/ environ # <<>> /\ strToBool(environ[Len(environ)])
                   \/ environ = <<>> /\ In("daemon") # {} /\ strToBool(LastOf("daemon"))
                   \/ environ = <<>> /\ In("daemon") = {} /\ In("common") # {} /\ strToBool(LastOf("common"))
  <2>1. \A s : In(s) = About(ini, s, Len(ini))
    <3>1. DOMAIN ini = 1..Len(ini)
      BY DEF HooksInv, IniLines
    <3> QED BY <3>1, Zenon DEF About, InSection
  <2>2. \A s : LastOf(s) = ini[CHOOSE i \in About(ini, s, Len(ini)) :
                                 \A j \in About(ini, s, Len(ini)) : j <= i][2]
    <3> SUFFICES ASSUME NEW s
                 PROVE  LastOf(s) = ini[CHOOSE i \in About(ini, s, Len(ini)) :
                                          \A j \in About(ini, s, Len(ini)) : j <= i][2]
      OBVIOUS
    <3>1. In(s) = About(ini, s, Len(ini))
      BY <2>1, Zenon
    <3> HIDE DEF In
    <3>2. LastOf(s) = LastWord(ini, In(s))
      BY DEF LastWord
    <3>3. LastWord(ini, In(s)) = LastWord(ini, About(ini, s, Len(ini)))
      BY <3>1, Zenon
    <3> QED BY <3>2, <3>3 DEF LastWord
  <2> HIDE DEF In, LastOf
  <2>3. EnableHooks(ini, environ) <=> on
    BY <2>1, <2>2, EnableHooksSays, Zenon DEF HooksInv
  <2>4. enableHooks = EnableHooks(ini, environ)
    BY DEF HooksInv
  <2>5. enableHooks = on
    <3>1. EnableHooks(ini, environ) \in BOOLEAN
      BY DEF EnableHooks, strToBool
    <3>2. on \in BOOLEAN
      BY Zenon
    <3> HIDE DEF on
    <3> QED BY <2>3, <2>4, <3>1, <3>2
  <2> QED BY <2>5, Zenon DEF HooksAsConfigured, In, LastOf
<1> QED BY <1>1, HooksStart, HooksStep, PTL DEF HostSpec
=============================================================================
