---------------------------- MODULE IrNodesProofs ----------------------------
(***************************************************************************)
(* The list of a node's uses is right in every reachable state, however     *)
(* many nodes there are and however often a node uses another: proved from  *)
(* the shape of the nodes (their inputs are older nodes) and the two steps  *)
(* that touch the lists, a node that is constructed and an input that is    *)
(* linked.  What the factories return, and which calls they stop at, is     *)
(* proved from what the types of the nodes say; that they share all they    *)
(* can, from the keys of the caches.                                        *)
(***************************************************************************)
EXTENDS IrNodes, SequenceTheorems, TLAPS

IInv == TypeOK /\ UseListsMatchInputs

(* What an appended element does to a sequence of anything. *)
LEMMA AppendToSequence ==
    ASSUME NEW s, IsSequence(s), NEW e
    PROVE  /\ IsSequence(Append(s, e))
           /\ Len(Append(s, e)) = Len(s) + 1
           /\ \A i \in 1..Len(s) : Append(s, e)[i] = s[i]
           /\ Append(s, e)[Len(s) + 1] = e
<1> DEFINE S == {s[i] : i \in 1..Len(s)} \cup {e}
<1>1. s \in Seq(S)
  <2>1. s \in [1..Len(s) -> S] BY DEF IsSequence
  <2> QED BY <2>1 DEF IsSequence
<1>2. e \in S OBVIOUS
<1> HIDE DEF S
<1>3. Append(s, e) \in Seq(S) BY <1>1, <1>2
<1>4. IsSequence(Append(s, e))
  <2>1. /\ Len(Append(s, e)) \in Nat
        /\ Append(s, e) \in [1..Len(Append(s, e)) -> S]
    BY <1>3, LenProperties
  <2> QED BY <2>1 DEF IsSequence
<1>5. /\ Len(Append(s, e)) = Len(s) + 1
      /\ \A i \in 1..Len(s) : Append(s, e)[i] = s[i]
      /\ Append(s, e)[Len(s) + 1] = e
  BY <1>1, <1>2, AppendProperties
<1> QED BY <1>4, <1>5

(* A node that is constructed has no linked input yet, and all inputs of    *)
(* the node before it are linked: the edges stay the same.                  *)
LEMMA ConstructKeepsEdges ==
    ASSUME IInv, Constructed,
           NEW op, NEW type, NEW inputs \in Seq(DOMAIN nodes),
           Construct(op, type, inputs)
    PROVE  /\ TypeOK'
           /\ LinkedEdges' = LinkedEdges
           /\ \A e \in LinkedEdges : To(e)' = To(e) /\ To(e) \in 1..Len(nodes)
<1> DEFINE new == [op |-> op, type |-> type, inputs |-> inputs]
<1>1. IsSequence(nodes) /\ Len(nodes) \in Nat /\ DOMAIN nodes = 1..Len(nodes)
  BY DEF IInv, TypeOK, IsSequence
<1>2. nodes' = Append(nodes, new) /\ linked' = 0 BY DEF Construct
<1>3. IsSequence(nodes') /\ Len(nodes') = Len(nodes) + 1
  BY <1>1, <1>2, AppendToSequence
<1>4. \A n \in 1..Len(nodes) : nodes'[n] = nodes[n]
  BY <1>1, <1>2, AppendToSequence
<1>5. nodes'[Len(nodes) + 1].inputs = inputs
  <2>1. nodes'[Len(nodes) + 1] = new BY <1>1, <1>2, AppendToSequence
  <2> QED BY <2>1
<1>6. DOMAIN nodes' = 1..(Len(nodes) + 1) BY <1>3 DEF IsSequence
<1>7. \A n \in 1..Len(nodes) : nodes[n].inputs \in Seq(1..(n - 1))
  BY DEF IInv, TypeOK
<1>8. \A n \in 1..Len(nodes) : InputsLinked(n) = Len(nodes[n].inputs)
  <2>1. CASE nodes = <<>> BY <2>1, <1>1
  <2>2. CASE nodes # <<>>
    <3>1. linked = Len(nodes[Len(nodes)].inputs)
      BY <2>2 DEF Constructed, Last
    <3> QED BY <3>1 DEF InputsLinked
  <2> QED BY <2>1, <2>2
<1>9. \A n \in 1..Len(nodes) : InputsLinked(n)' = InputsLinked(n)
  <2> SUFFICES ASSUME NEW n \in 1..Len(nodes) PROVE InputsLinked(n)' = InputsLinked(n)
    OBVIOUS
  <2>1. n # Len(nodes') BY <1>1, <1>3
  <2>2. InputsLinked(n)' = Len(nodes'[n].inputs) BY <2>1 DEF InputsLinked
  <2> QED BY <2>2, <1>4, <1>8
<1>10. \A n \in 1..(Len(nodes) + 1) : n \in 1..Len(nodes) \/ InputsLinked(n)' = 0
  <2> SUFFICES ASSUME NEW n \in 1..(Len(nodes) + 1), n \notin 1..Len(nodes)
               PROVE  InputsLinked(n)' = 0
    OBVIOUS
  <2>1. n = Len(nodes') BY <1>1, <1>3
  <2> QED BY <2>1, <1>2 DEF InputsLinked
<1>11. LinkedEdges' = LinkedEdges
  <2>1. \A n \in DOMAIN nodes : n \in DOMAIN nodes' /\ InputsLinked(n)' = InputsLinked(n)
    BY <1>1, <1>6, <1>9
  <2>2. \A n \in DOMAIN nodes' : n \in DOMAIN nodes \/ InputsLinked(n)' = 0
    BY <1>1, <1>6, <1>10
  <2> QED BY <2>1, <2>2 DEF LinkedEdges
<1>12. \A e \in LinkedEdges : To(e)' = To(e) /\ To(e) \in 1..Len(nodes)
  <2> SUFFICES ASSUME NEW e \in LinkedEdges
               PROVE  To(e)' = To(e) /\ To(e) \in 1..Len(nodes)
    OBVIOUS
  <2>n. PICK n \in DOMAIN nodes : \E i \in 1..InputsLinked(n) : e = <<n, i>>
    BY DEF LinkedEdges
  <2>1. PICK i \in 1..InputsLinked(n) : e = <<n, i>> BY <2>n
  <2>2. n \in 1..Len(nodes) BY <2>1, <1>1
  <2>3. i \in 1..Len(nodes[n].inputs) BY <2>1, <2>2, <1>8
  <2>4. nodes[n].inputs[i] \in 1..(n - 1) BY <2>2, <2>3, <1>7, ElementOfSeq
  <2>5. To(e) = nodes[n].inputs[i] /\ To(e)' = nodes'[n].inputs[i]
    BY <2>1 DEF To
  <2> QED BY <2>2, <2>4, <2>5, <1>1, <1>4
<1>13. TypeOK'
  <2>1. \A n \in 1..Len(nodes') : nodes'[n].inputs \in Seq(1..(n - 1))
    <3> SUFFICES ASSUME NEW n \in 1..Len(nodes')
                 PROVE  nodes'[n].inputs \in Seq(1..(n - 1))
      OBVIOUS
    <3>1. CASE n \in 1..Len(nodes) BY <3>1, <1>4, <1>7
    <3>2. CASE n = Len(nodes) + 1
      <4>1. (Len(nodes) + 1) - 1 = Len(nodes) BY <1>1
      <4> QED BY <3>2, <4>1, <1>1, <1>5
    <3> QED BY <3>1, <3>2, <1>1, <1>3
  <2>2. first' \in Seq(Nat \X Nat) /\ Len(first') = Len(nodes')
    <3>1. first \in Seq(Nat \X Nat) /\ Len(first) = Len(nodes) BY DEF IInv, TypeOK
    <3>2. first' = Append(first, None) /\ None \in Nat \X Nat BY DEF Construct, None
    <3> QED BY <3>1, <3>2, <1>3, AppendProperties
  <2>3. IF nodes' = <<>> THEN linked' = 0
        ELSE linked' <= Len(nodes'[Len(nodes')].inputs)
    <3>1. Len(inputs) \in Nat BY LenProperties
    <3> QED BY <3>1, <1>2, <1>3, <1>5
  <2>4. linked' \in Nat BY <1>2
  <2> QED BY <2>1, <2>2, <2>3, <2>4, <1>3 DEF TypeOK
<1> QED BY <1>11, <1>12, <1>13

-----------------------------------------------------------------------------
(* A constructed node begins with an empty list of uses. *)
LEMMA ConstructKeepsLists ==
    ASSUME IInv, Constructed,
           NEW op, NEW type, NEW inputs \in Seq(DOMAIN nodes),
           Construct(op, type, inputs)
    PROVE  IInv'
<1>1. TypeOK' BY ConstructKeepsEdges
<1>2. LinkedEdges' = LinkedEdges BY ConstructKeepsEdges
<1>3. \A e \in LinkedEdges : To(e)' = To(e) /\ To(e) \in 1..Len(nodes)
  BY ConstructKeepsEdges
<1>4. /\ UNCHANGED <<next, previous>>
      /\ first' = Append(first, None) /\ None \in Nat \X Nat
      /\ first \in Seq(Nat \X Nat) /\ Len(first) = Len(nodes)
  BY DEF Construct, IInv, TypeOK, None
<1>5. /\ \A n \in 1..Len(nodes) : first'[n] = first[n]
      /\ first'[Len(nodes) + 1] = None
  BY <1>4, AppendProperties
<1>6. /\ DOMAIN nodes = 1..Len(nodes) /\ Len(nodes) \in Nat
      /\ DOMAIN nodes' = 1..(Len(nodes) + 1)
  <2>1. Len(first') = Len(nodes') BY <1>1 DEF TypeOK
  <2>2. Len(first') = Len(nodes) + 1 BY <1>4, AppendProperties
  <2>3. IsSequence(nodes) /\ IsSequence(nodes') BY <1>1 DEF IInv, TypeOK
  <2> QED BY <2>1, <2>2, <2>3 DEF IsSequence
<1>7. UseListsMatchInputs BY DEF IInv
<1>8. DOMAIN next' = LinkedEdges' /\ DOMAIN previous' = LinkedEdges'
  BY <1>2, <1>4, <1>7 DEF UseListsMatchInputs
<1>9. ASSUME NEW n \in DOMAIN nodes', first'[n] # None
      PROVE  /\ first'[n] \in LinkedEdges'
             /\ To(first[n])' = n
             /\ previous'[first'[n]] = None
  <2>1. n \in DOMAIN nodes /\ first'[n] = first[n] BY <1>5, <1>6, <1>9
  <2>2. /\ first[n] \in LinkedEdges
        /\ To(first[n]) = n
        /\ previous[first[n]] = None
    BY <1>7, <1>9, <2>1 DEF UseListsMatchInputs
  <2>3. nodes'[first[n][1]].inputs[first[n][2]] = n BY <2>2, <1>3 DEF To
  <2> QED BY <2>1, <2>2, <2>3, <1>2, <1>4 DEF To
<1>10. ASSUME NEW e \in LinkedEdges'
       PROVE  /\ next'[e] # None => /\ next'[e] \in LinkedEdges'
                                    /\ To(next[e])' = To(e)'
                                    /\ previous'[next'[e]] = e
                                    /\ NewerThan(e, next'[e])
              /\ IF previous'[e] = None THEN first'[To(e)'] = e
                 ELSE previous'[e] \in LinkedEdges' /\ next'[previous'[e]] = e
  <2>1. e \in LinkedEdges /\ To(e)' = To(e) /\ first'[To(e)] = first[To(e)]
    BY <1>2, <1>3, <1>5
  <2>2. ASSUME next[e] # None
        PROVE  next[e] \in LinkedEdges /\ To(next[e])' = To(e)'
    <3>1. next[e] \in LinkedEdges /\ To(next[e]) = To(e)
      BY <2>1, <2>2, <1>7 DEF UseListsMatchInputs
    <3>2. nodes'[next[e][1]].inputs[next[e][2]] = To(next[e])
      BY <3>1, <1>3 DEF To
    <3> QED BY <3>1, <3>2, <2>1, <1>4 DEF To
  <2> QED BY <2>1, <2>2, <1>2, <1>4, <1>7 DEF UseListsMatchInputs
<1>11. UseListsMatchInputs' BY <1>8, <1>9, <1>10 DEF UseListsMatchInputs
<1> QED BY <1>1, <1>11 DEF IInv

-----------------------------------------------------------------------------
(* The edge LinkInput links is new, and newer than the ones that are linked. *)
LEMMA NextEdge ==
    ASSUME IInv, LinkInput
    PROVE  /\ Len(nodes) \in 1..Len(nodes) /\ linked \in Nat
           /\ linked + 1 \in 1..Len(nodes[Len(nodes)].inputs)
           /\ nodes[Len(nodes)].inputs[linked + 1] \in 1..Len(nodes)
           /\ <<Len(nodes), linked + 1>> \notin LinkedEdges
           /\ LinkedEdges' = LinkedEdges \cup {<<Len(nodes), linked + 1>>}
           /\ \A e \in LinkedEdges : /\ To(e)' = To(e)
                                     /\ To(e) \in 1..Len(nodes)
                                     /\ e # None
                                     /\ NewerThan(<<Len(nodes), linked + 1>>, e)
<1>0. Len(nodes) \in Nat BY DEF IInv, TypeOK, IsSequence
<1>N. PICK N \in Nat : N = Len(nodes) BY <1>0
<1>1. /\ DOMAIN nodes = 1..N /\ linked \in Nat
      /\ \A n \in 1..N : nodes[n].inputs \in Seq(1..(n - 1))
  BY <1>N DEF IInv, TypeOK, IsSequence
<1>2. /\ nodes # <<>> /\ linked # Len(nodes[N].inputs)
      /\ linked' = linked + 1 /\ UNCHANGED nodes
  BY <1>N DEF LinkInput, Constructed, Last
<1>3. N \in 1..N
  <2>1. N # 0
    <3>1. SUFFICES ASSUME N = 0 PROVE FALSE OBVIOUS
    <3>2. nodes = [i \in 1..0 |-> nodes[i]] BY <3>1, <1>N DEF IInv, TypeOK, IsSequence
    <3>3. nodes = <<>> BY <3>2
    <3> QED BY <3>3, <1>2
  <2> QED BY <2>1, <1>1
<1>4. linked + 1 \in 1..Len(nodes[N].inputs)
  <2>1. Len(nodes[N].inputs) \in Nat BY <1>1, <1>3, LenProperties
  <2>2. linked <= Len(nodes[N].inputs) BY <1>2, <1>N DEF IInv, TypeOK
  <2> QED BY <2>1, <2>2, <1>1, <1>2
<1>5. nodes[N].inputs[linked + 1] \in 1..N
  <2>1. nodes[N].inputs[linked + 1] \in 1..(N - 1)
    BY <1>1, <1>3, <1>4, ElementOfSeq
  <2> QED BY <2>1, <1>1
<1>6. \A n \in 1..N : InputsLinked(n)' =
                       IF n = N THEN linked + 1 ELSE InputsLinked(n)
  BY <1>2, <1>N DEF InputsLinked
<1>7. InputsLinked(N) = linked BY <1>N DEF InputsLinked
<1>8. \A n \in 1..N : InputsLinked(n) \in Nat /\ InputsLinked(n) <= Len(nodes[n].inputs)
  <2> SUFFICES ASSUME NEW n \in 1..N
               PROVE  InputsLinked(n) \in Nat /\ InputsLinked(n) <= Len(nodes[n].inputs)
    OBVIOUS
  <2>1. Len(nodes[n].inputs) \in Nat BY <1>1, LenProperties
  <2>2. CASE n = N
    <3>1. linked <= Len(nodes[N].inputs) BY <2>1, <2>2, <1>1, <1>4
    <3> QED BY <3>1, <2>2, <1>1, <1>7
  <2>3. CASE n # N
    <3>1. InputsLinked(n) = Len(nodes[n].inputs) BY <2>3, <1>N DEF InputsLinked
    <3> QED BY <3>1, <2>1
  <2> QED BY <2>2, <2>3
<1>9. ASSUME NEW e \in LinkedEdges
      PROVE  /\ To(e)' = To(e) /\ To(e) \in 1..N
             /\ e # None /\ NewerThan(<<N, linked + 1>>, e)
             /\ e # <<N, linked + 1>>
  <2>1. PICK n \in 1..N : \E i \in 1..InputsLinked(n) : e = <<n, i>>
    BY <1>1 DEF LinkedEdges
  <2>2. PICK i \in 1..InputsLinked(n) : e = <<n, i>> BY <2>1
  <2>3. i \in 1..Len(nodes[n].inputs) BY <2>2, <1>8
  <2>4. nodes[n].inputs[i] \in 1..(n - 1) BY <2>3, <1>1, ElementOfSeq
  <2>5. To(e) = nodes[n].inputs[i] BY <2>2 DEF To
  <2>6. To(e) \in 1..N BY <2>4, <2>5, <1>1
  <2>7. To(e)' = To(e) BY <1>2 DEF To
  <2>8. n < N \/ (n = N /\ i <= linked)
    <3>1. CASE n = N BY <3>1, <2>2, <1>1, <1>7
    <3>2. CASE n # N BY <3>2, <1>1
    <3> QED BY <3>1, <3>2
  <2>9. e[1] = n /\ e[2] = i BY <2>2
  <2>10. NewerThan(<<N, linked + 1>>, e)
    BY <2>8, <2>9, <1>1, <1>3 DEF NewerThan
  <2>11. e # None /\ e # <<N, linked + 1>>
    BY <2>2, <2>8, <1>1, <1>3 DEF None
  <2> QED BY <2>6, <2>7, <2>10, <2>11
<1>10. LinkedEdges' = LinkedEdges \cup {<<N, linked + 1>>}
  <2>1. ASSUME NEW e \in LinkedEdges' PROVE e \in LinkedEdges \cup {<<N, linked + 1>>}
    <3>1. PICK n \in 1..N : \E i \in 1..InputsLinked(n)' : e = <<n, i>>
      BY <2>1, <1>1, <1>2 DEF LinkedEdges
    <3>2. PICK i \in 1..InputsLinked(n)' : e = <<n, i>> BY <3>1
    <3>3. i \in 1..InputsLinked(n) \/ (n = N /\ i = linked + 1)
      BY <3>2, <1>1, <1>6, <1>7, <1>8
    <3> QED BY <3>2, <3>3, <1>1 DEF LinkedEdges
  <2>2. ASSUME NEW e \in LinkedEdges PROVE e \in LinkedEdges'
    <3>1. PICK n \in 1..N : \E i \in 1..InputsLinked(n) : e = <<n, i>>
      BY <2>2, <1>1 DEF LinkedEdges
    <3>2. PICK i \in 1..InputsLinked(n) : e = <<n, i>> BY <3>1
    <3>3. i \in 1..InputsLinked(n)'
      <4>1. CASE n = N
        <5>1. i \in 1..linked BY <3>2, <4>1, <1>7
        <5>2. InputsLinked(n)' = linked + 1 BY <4>1, <1>6
        <5> QED BY <5>1, <5>2, <1>1
      <4>2. CASE n # N
        <5>1. InputsLinked(n)' = InputsLinked(n) BY <4>2, <1>6
        <5> QED BY <5>1, <3>2
      <4> QED BY <4>1, <4>2
    <3> QED BY <3>2, <3>3, <1>1, <1>2 DEF LinkedEdges
  <2>3. <<N, linked + 1>> \in LinkedEdges'
    <3>1. N \in DOMAIN nodes' /\ InputsLinked(N)' = linked + 1
      BY <1>1, <1>2, <1>3, <1>6
    <3>2. linked + 1 \in 1..InputsLinked(N)' BY <3>1, <1>1
    <3> QED BY <3>1, <3>2 DEF LinkedEdges
  <2> QED BY <2>1, <2>2, <2>3
<1> QED BY <1>N, <1>1, <1>3, <1>4, <1>5, <1>9, <1>10

(* Linking an input puts its edge at the head of one list and leaves every  *)
(* other list as it was.                                                    *)
LEMMA LinkInputKeepsLists ==
    ASSUME IInv, LinkInput
    PROVE  IInv'
<1>e. PICK edge : edge = <<Len(nodes), linked + 1>> OBVIOUS
<1>o. PICK to : to = nodes[Len(nodes)].inputs[linked + 1] OBVIOUS
<1>l. PICK last : last = first[to] OBVIOUS
<1>1. /\ edge \notin LinkedEdges /\ to \in 1..Len(nodes)
      /\ LinkedEdges' = LinkedEdges \cup {edge}
      /\ \A e \in LinkedEdges : /\ To(e)' = To(e) /\ To(e) \in 1..Len(nodes)
                                /\ e # None /\ NewerThan(edge, e)
  BY <1>e, <1>o, NextEdge
<1>2. /\ DOMAIN next = LinkedEdges /\ DOMAIN previous = LinkedEdges
      /\ UNCHANGED nodes /\ linked' = linked + 1
      /\ first' = [first EXCEPT ![to] = edge]
  BY <1>e, <1>o DEF LinkInput, IInv, UseListsMatchInputs
<1>3. DOMAIN next' = LinkedEdges' /\ DOMAIN previous' = LinkedEdges'
  BY <1>1, <1>2, <1>e, <1>o, <1>l DEF LinkInput
<1>4. \A e \in LinkedEdges : next'[e] = next[e]
  BY <1>1, <1>2, <1>e, <1>o, <1>l DEF LinkInput
<1>5. next'[edge] = last /\ previous'[edge] = None
  BY <1>1, <1>2, <1>e, <1>o, <1>l DEF LinkInput
<1>6. \A e \in LinkedEdges : previous'[e] = IF e = last THEN edge ELSE previous[e]
  BY <1>1, <1>2, <1>e, <1>o, <1>l DEF LinkInput
<1>7. /\ first \in Seq(Nat \X Nat) /\ Len(first) = Len(nodes)
      /\ Len(nodes) \in Nat /\ DOMAIN nodes = 1..Len(nodes)
      /\ linked \in Nat
  BY DEF IInv, TypeOK, IsSequence
<1>8. edge # None /\ edge \in Nat \X Nat
  <2>1. Len(nodes) # 0 BY <1>1, <1>7
  <2> QED BY <2>1, <1>7, <1>e DEF None
<1>9. /\ first'[to] = edge
      /\ \A n \in 1..Len(nodes) : n # to => first'[n] = first[n]
  <2>1. DOMAIN first = 1..Len(nodes) BY <1>7, LenProperties
  <2> QED BY <2>1, <1>1, <1>2
<1>10. To(edge) = to /\ To(edge)' = to BY <1>2, <1>e, <1>o DEF To
<1>11. ASSUME last # None
       PROVE  last \in LinkedEdges /\ To(last) = to /\ previous[last] = None
  BY <1>1, <1>7, <1>11, <1>l DEF IInv, UseListsMatchInputs
<1>t. TypeOK'
  <2>1. first' \in Seq(Nat \X Nat) /\ Len(first') = Len(first)
    BY <1>1, <1>2, <1>7, <1>8, ExceptSeq
  <2>2. linked' \in Nat /\ linked' <= Len(nodes'[Len(nodes')].inputs) /\ nodes' # <<>>
    <3>1. linked + 1 \in 1..Len(nodes[Len(nodes)].inputs) BY NextEdge
    <3>2. nodes # <<>> BY DEF LinkInput, Constructed
    <3> QED BY <3>1, <3>2, <1>2, <1>7
  <2> QED BY <2>1, <2>2, <1>2, <1>7 DEF IInv, TypeOK, IsSequence
<1>12. ASSUME NEW n \in DOMAIN nodes', first'[n] # None
       PROVE  /\ first'[n] \in LinkedEdges'
              /\ nodes'[first'[n][1]].inputs[first'[n][2]] = n
              /\ previous'[first'[n]] = None
  <2>1. CASE n = to
    <3>1. nodes'[edge[1]].inputs[edge[2]] = to BY <1>2, <1>10 DEF To
    <3> QED BY <3>1, <2>1, <1>1, <1>5, <1>9
  <2>2. CASE n # to
    <3>1. first'[n] = first[n] /\ first[n] # None BY <2>2, <1>2, <1>7, <1>9, <1>12
    <3>2. first[n] \in LinkedEdges /\ To(first[n]) = n /\ previous[first[n]] = None
      BY <3>1, <1>2, <1>12 DEF IInv, UseListsMatchInputs
    <3>3. first[n] # last BY <3>1, <3>2, <2>2, <1>11
    <3>4. previous'[first[n]] = None BY <3>2, <3>3, <1>6
    <3>5. nodes[first[n][1]].inputs[first[n][2]] = n BY <3>2 DEF To
    <3> QED BY <3>1, <3>2, <3>4, <3>5, <1>1, <1>2
  <2> QED BY <2>1, <2>2
<1>13. ASSUME NEW e \in LinkedEdges', next'[e] # None
       PROVE  /\ next'[e] \in LinkedEdges'
              /\ nodes'[next'[e][1]].inputs[next'[e][2]] = To(e)'
              /\ previous'[next'[e]] = e
              /\ NewerThan(e, next'[e])
  <2>1. CASE e = edge
    <3>1. next'[e] = last /\ last # None BY <2>1, <1>5, <1>13
    <3>2. last \in LinkedEdges /\ To(last) = to BY <3>1, <1>11
    <3>3. previous'[last] = edge /\ NewerThan(edge, last) BY <3>2, <1>1, <1>6
    <3>4. nodes'[last[1]].inputs[last[2]] = to BY <3>2, <1>2 DEF To
    <3>5. To(e)' = to BY <2>1, <1>10
    <3> QED BY <3>1, <3>2, <3>3, <3>4, <3>5, <2>1, <1>1
  <2>2. CASE e # edge
    <3>1. e \in LinkedEdges /\ next'[e] = next[e] BY <2>2, <1>1, <1>4
    <3>2. /\ next[e] \in LinkedEdges /\ To(next[e]) = To(e)
          /\ previous[next[e]] = e /\ NewerThan(e, next[e])
      BY <3>1, <1>13 DEF IInv, UseListsMatchInputs
    <3>3. next[e] # last
      <4>1. e # None BY <3>1, <1>1
      <4>2. next[e] # None BY <3>1, <1>13
      <4> QED BY <4>1, <4>2, <3>2, <1>11
    <3>4. previous'[next[e]] = e BY <3>2, <3>3, <1>6
    <3>5. nodes'[next[e][1]].inputs[next[e][2]] = To(e)'
      BY <3>1, <3>2, <1>1, <1>2 DEF To
    <3> QED BY <3>1, <3>2, <3>4, <3>5, <1>1
  <2> QED BY <2>1, <2>2
<1>14. ASSUME NEW e \in LinkedEdges', previous'[e] = None
       PROVE  first'[To(e)'] = e
  <2>1. CASE e = edge
    <3>1. To(e)' = to BY <2>1, <1>10
    <3> QED BY <3>1, <2>1, <1>9
  <2>2. CASE e # edge
    <3>1. e \in LinkedEdges BY <2>2, <1>1
    <3>2. e # last /\ previous[e] = None BY <3>1, <1>6, <1>8, <1>14
    <3>3. first[To(e)] = e BY <3>1, <3>2 DEF IInv, UseListsMatchInputs
    <3>4. To(e) # to BY <3>2, <3>3, <1>l
    <3>5. To(e)' = To(e) /\ To(e) \in 1..Len(nodes) BY <3>1, <1>1
    <3> QED BY <3>3, <3>4, <3>5, <1>9
  <2> QED BY <2>1, <2>2
<1>15. ASSUME NEW e \in LinkedEdges', previous'[e] # None
       PROVE  previous'[e] \in LinkedEdges' /\ next'[previous'[e]] = e
  <2>1. e # edge BY <1>5, <1>15
  <2>2. e \in LinkedEdges BY <2>1, <1>1
  <2>3. CASE e = last
    <3>1. previous'[e] = edge BY <2>2, <2>3, <1>6
    <3> QED BY <3>1, <2>3, <1>1, <1>5
  <2>4. CASE e # last
    <3>1. previous'[e] = previous[e] BY <2>2, <2>4, <1>6
    <3>2. previous[e] \in LinkedEdges /\ next[previous[e]] = e
      BY <3>1, <2>2, <1>15 DEF IInv, UseListsMatchInputs
    <3> QED BY <3>1, <3>2, <1>1, <1>4
  <2> QED BY <2>3, <2>4
<1>16. UseListsMatchInputs'
  <2>1. \A n \in DOMAIN nodes' :
          first'[n] # None => /\ first'[n] \in LinkedEdges'
                              /\ To(first[n])' = n
                              /\ previous'[first'[n]] = None
    BY <1>12 DEF To
  <2>2. \A e \in LinkedEdges' :
          next'[e] # None => /\ next'[e] \in LinkedEdges'
                             /\ To(next[e])' = To(e)'
                             /\ previous'[next'[e]] = e
                             /\ NewerThan(e, next'[e])
    BY <1>13 DEF To
  <2>3. \A e \in LinkedEdges' :
          IF previous'[e] = None THEN first'[To(e)'] = e
          ELSE previous'[e] \in LinkedEdges' /\ next'[previous'[e]] = e
    BY <1>14, <1>15
  <2> QED BY <2>1, <2>2, <2>3, <1>3 DEF UseListsMatchInputs, NewerThan
<1> QED BY <1>t, <1>16 DEF IInv

-----------------------------------------------------------------------------
LEMMA InitEstablishesIInv == Init => IInv
<1> SUFFICES ASSUME Init PROVE IInv OBVIOUS
<1>1. /\ nodes = <<>> /\ linked = 0
      /\ first = <<>> /\ next = <<>> /\ previous = <<>>
  BY DEF Init
<1>2. Len(nodes) = 0 /\ DOMAIN nodes = {} BY <1>1
<1>3. IsSequence(nodes) BY <1>1, <1>2 DEF IsSequence
<1>4. TypeOK BY <1>1, <1>2, <1>3 DEF TypeOK
<1>5. LinkedEdges = {} BY <1>2 DEF LinkedEdges
<1>6. UseListsMatchInputs BY <1>1, <1>2, <1>5 DEF UseListsMatchInputs
<1> QED BY <1>4, <1>6 DEF IInv

(* What changes neither the nodes nor the lists. *)
LEMMA UnchangedKeepsLists ==
    ASSUME IInv, UNCHANGED <<nodes, linked, first, next, previous>>
    PROVE  IInv'
<1>1. TypeOK' BY DEF IInv, TypeOK, IsSequence
<1>2. LinkedEdges' = LinkedEdges BY DEF LinkedEdges, InputsLinked
<1>3. UseListsMatchInputs'
  BY <1>2 DEF IInv, UseListsMatchInputs, To, NewerThan
<1> QED BY <1>1, <1>3 DEF IInv

LEMMA NewNodeKeepsLists ==
    ASSUME IInv, Ready, NEW code, NEW member, NEW type,
           NEW inputs \in Seq(DOMAIN nodes),
           NewNode(code, member, type, inputs)
    PROVE  IInv'
<1>1. CASE FitsFormat([code |-> code, member |-> member], inputs)
  <2>1. Construct(OperatorOf(code, member), type, inputs) BY <1>1 DEF NewNode
  <2> QED BY <2>1, ConstructKeepsLists DEF Ready
<1>2. CASE ~ FitsFormat([code |-> code, member |-> member], inputs)
  <2>1. UNCHANGED <<nodes, linked, first, next, previous>> BY <1>2 DEF NewNode, uses
  <2> QED BY <2>1, UnchangedKeepsLists
<1> QED BY <1>1, <1>2

LEMMA GetOrNewNodeKeepsLists ==
    ASSUME IInv, Ready, NEW code, NEW member, NEW type,
           NEW inputs \in Seq(DOMAIN nodes),
           GetOrNewNode(code, member, type, inputs)
    PROVE  IInv'
<1> DEFINE present == FindNode(OperatorOf(code, member), type, inputs)
<1>1. CASE present = {}
  <2>1. NewNode(code, member, type, inputs) BY <1>1 DEF GetOrNewNode
  <2> QED BY <2>1, NewNodeKeepsLists
<1>2. CASE present # {}
  <2>1. UNCHANGED <<nodes, linked, first, next, previous>>
    BY <1>2 DEF GetOrNewNode, uses
  <2> QED BY <2>1, UnchangedKeepsLists
<1> QED BY <1>1, <1>2

LEMMA TupleInputsAreSequences ==
    ASSUME NEW inputs \in TupleInputs PROVE inputs \in Seq(DOMAIN nodes)
<1>1. ASSUME NEW width \in Nat, inputs \in [1..width -> DOMAIN nodes]
      PROVE  inputs \in Seq(DOMAIN nodes)
  BY <1>1
<1>2. Widths \subseteq Nat /\ RepeatedWidths \subseteq Nat
  BY IrNodesAssumption
<1>3. CASE inputs \in AnyInputs BY <1>1, <1>2, <1>3 DEF AnyInputs
<1>4. CASE inputs \in RepeatedInputs
  <2>1. PICK width \in RepeatedWidths :
          inputs \in {[i \in 1..width |-> n] : n \in DOMAIN nodes}
    BY <1>4 DEF RepeatedInputs
  <2>2. inputs \in [1..width -> DOMAIN nodes] BY <2>1
  <2> QED BY <1>1, <1>2, <2>2
<1> QED BY <1>3, <1>4 DEF TupleInputs

LEMMA NextKeepsIInv == IInv /\ [Next]_vars => IInv'
<1> SUFFICES ASSUME IInv, [Next]_vars PROVE IInv' OBVIOUS
<1> USE DEF Controls
<1>f. ASSUME NEW assertion, NEW type, Fail(assertion, type) PROVE IInv'
  BY <1>f, UnchangedKeepsLists DEF Fail, uses
<1>1. CASE NewFunctionType
  BY <1>1, <1>f, UnchangedKeepsLists DEF NewFunctionType, SetTypes, uses
<1>2. CASE NewReferenceType
  BY <1>2, UnchangedKeepsLists DEF NewReferenceType, SetTypes, uses
<1>3. CASE NewTupleType
  BY <1>3, UnchangedKeepsLists DEF NewTupleType, SetTypes, uses
<1>4. CASE NewUnionType
  BY <1>4, UnchangedKeepsLists DEF NewUnionType, SetTypes, uses
<1>5. CASE NewExit
  <2>1. PICK control \in Controls :
          \/ NewNode("Exit", 0, Primitive("Void"), <<control>>)
          \/ Fail("is_control", OutputType(control))
    BY <1>5 DEF NewExit
  <2>2. <<control>> \in Seq(DOMAIN nodes) OBVIOUS
  <2> QED BY <1>5, <1>f, <2>1, <2>2, NewNodeKeepsLists DEF NewExit
<1>6. CASE NewIf
  <2>1. PICK control \in Controls, condition \in DOMAIN nodes :
          \/ NewNode("If", 0, Primitive("Control"), <<control, condition>>)
          \/ Fail("is_control", OutputType(control))
    BY <1>6 DEF NewIf
  <2>2. <<control, condition>> \in Seq(DOMAIN nodes) OBVIOUS
  <2> QED BY <1>6, <1>f, <2>1, <2>2, NewNodeKeepsLists DEF NewIf
<1>7. CASE NewBranch
  <2>1. PICK control \in Controls,
             code \in {"IfException", "IfFalse", "IfSuccess", "IfTrue"} :
          \/ NewNode(code, 0, Primitive("Control"), <<control>>)
          \/ Fail("is_control", OutputType(control))
    BY <1>7 DEF NewBranch
  <2>2. <<control>> \in Seq(DOMAIN nodes) OBVIOUS
  <2> QED BY <1>7, <1>f, <2>1, <2>2, NewNodeKeepsLists DEF NewBranch
<1>8. CASE NewLiteral
  <2>1. <<>> \in Seq(DOMAIN nodes) OBVIOUS
  <2> QED BY <1>8, <2>1, GetOrNewNodeKeepsLists DEF NewLiteral
<1>9. CASE NewProjection
  <2>1. PICK tuple \in TupleNodes :
          IF IsTuple(tuple)
          THEN \E index \in DOMAIN types[OutputType(tuple)].members :
                  GetOrNewNode("Projection", index - 1,
                     types[OutputType(tuple)].members[index], <<tuple>>)
          ELSE Fail("is_tuple", OutputType(tuple))
    BY <1>9 DEF NewProjection
  <2>2. <<tuple>> \in Seq(DOMAIN nodes) BY DEF TupleNodes
  <2>3. CASE IsTuple(tuple)
    BY <1>9, <2>1, <2>2, <2>3, GetOrNewNodeKeepsLists DEF NewProjection
  <2>4. CASE ~ IsTuple(tuple) BY <2>1, <2>4, <1>f
  <2> QED BY <2>3, <2>4
<1>10. CASE NewRet
  <2>1. PICK control \in Controls, value \in DOMAIN nodes :
          \/ GetOrNewNode("Ret", 0, Primitive("Control"), <<control, value>>)
          \/ Fail("is_control", OutputType(control))
    BY <1>10 DEF NewRet
  <2>2. <<control, value>> \in Seq(DOMAIN nodes) OBVIOUS
  <2> QED BY <1>10, <1>f, <2>1, <2>2, GetOrNewNodeKeepsLists DEF NewRet
<1>11. CASE NewStart
  <2>1. <<>> \in Seq(DOMAIN nodes) OBVIOUS
  <2> QED BY <1>11, <1>f, <2>1, NewNodeKeepsLists DEF NewStart
<1>12. CASE NewTuple
  <2> DEFINE made(inputs) ==
        NewComposite(types, "Tuple", [i \in DOMAIN inputs |-> OutputType(inputs[i])])
  <2>1. PICK inputs \in TupleInputs :
          GetOrNewNode("Tuple", Len(inputs), made(inputs).type, inputs)
    BY <1>12 DEF NewTuple
  <2>2. inputs \in Seq(DOMAIN nodes) BY <2>1, TupleInputsAreSequences
  <2> HIDE DEF made
  <2> QED BY <1>12, <2>1, <2>2, GetOrNewNodeKeepsLists DEF NewTuple
<1>13. CASE LinkInput BY <1>13, LinkInputKeepsLists
<1>14. CASE UNCHANGED vars BY <1>14, UnchangedKeepsLists DEF vars
<1> QED
  BY <1>1, <1>2, <1>3, <1>4, <1>5, <1>6, <1>7, <1>8, <1>9, <1>10, <1>11, <1>12,
     <1>13, <1>14 DEF Next

(* In every reachable state the nodes only use older nodes, and the list of *)
(* a node's uses (aoba/ir/node_inputs.cc) holds exactly the edges that      *)
(* lead to it.                                                              *)
THEOREM IrTypeCorrect == Spec => []TypeOK
<1>1. IInv => TypeOK BY DEF IInv
<1> QED BY <1>1, InitEstablishesIInv, NextKeepsIInv, PTL DEF Spec

(* Every use of a node is found from the node, and nothing else is: the     *)
(* lists of uses are right in every reachable state                         *)
(* (aoba/ir/node_inputs.cc:61).                                             *)
THEOREM UseListsCorrect == Spec => []UseListsMatchInputs
<1>1. IInv => UseListsMatchInputs BY DEF IInv
<1> QED BY <1>1, InitEstablishesIInv, NextKeepsIInv, PTL DEF Spec

-----------------------------------------------------------------------------
(* What the factories return.  A sequence of types, operators or nodes only *)
(* grows at its end, so that what was said of a number remains true.        *)
Extends(s, t) == /\ IsSequence(t) /\ Len(s) <= Len(t)
                 /\ \A i \in 1..Len(s) : t[i] = s[i]

InputTypes(inputs) == [i \in DOMAIN inputs |-> OutputType(inputs[i])]

(* A tuple has the type of its inputs, a tuple or the union that was found  *)
(* in its place, and a start node has the type of a tuple.                  *)
TupleIsTyped(n) ==
    /\ OutputType(n) \in DOMAIN types
    /\ types[OutputType(n)].kind \in {"Tuple", "Union"}
    /\ CodeOf(n) = "Start" => IsTuple(n)
    /\ CodeOf(n) = "Tuple" =>
         types[OutputType(n)].members = InputTypes(nodes[n].inputs)
MadeTuples == {n \in DOMAIN nodes : CodeOf(n) \in {"Start", "Tuple"}}
TuplesAreTyped == \A n \in MadeTuples : TupleIsTyped(n)

Graph == /\ IsSequence(types) /\ IsSequence(operators)
         /\ \A n \in DOMAIN nodes : nodes[n].op \in DOMAIN operators
         /\ TuplesAreTyped

CallInv == Graph /\ CallsReturnWhatWasAsked /\ OnlyWideOrSharedTuplesFail

(* What a caller takes for a tuple type is one or the union that the cache  *)
(* found in its place, of the members that were passed.                     *)
AskedAreTyped ==
    \A a \in asked : /\ a.type \in DOMAIN types
                     /\ types[a.type].kind \in {"Tuple", "Union"}
                     /\ types[a.type].members = a.members

LEMMA ExtendsItself ==
    ASSUME NEW s, IsSequence(s) PROVE Extends(s, s)
BY DEF Extends, IsSequence

LEMMA AppendExtends ==
    ASSUME NEW s, IsSequence(s), NEW e PROVE Extends(s, Append(s, e))
<1>1. Len(s) \in Nat BY DEF IsSequence
<1> QED BY <1>1, AppendToSequence DEF Extends

LEMMA IndicesOfSequence ==
    ASSUME NEW s, IsSequence(s)
    PROVE  /\ Len(s) \in Nat /\ DOMAIN s = 1..Len(s)
           /\ Len(s) + 1 \notin DOMAIN s
BY DEF IsSequence

LEMMA AppendedIndex ==
    ASSUME NEW s, IsSequence(s), NEW e
    PROVE  DOMAIN Append(s, e) = DOMAIN s \cup {Len(s) + 1}
<1>1. IsSequence(Append(s, e)) /\ Len(Append(s, e)) = Len(s) + 1
  BY AppendToSequence
<1>2. DOMAIN Append(s, e) = 1..(Len(s) + 1) BY <1>1, IndicesOfSequence
<1>3. DOMAIN s = 1..Len(s) /\ Len(s) \in Nat BY IndicesOfSequence
<1> QED BY <1>2, <1>3

LEMMA FirstOfOne ==
    ASSUME NEW S, NEW s, s \in Seq(S), Len(s) = 1 PROVE s[1] \in S
OBVIOUS

LEMMA FieldsOfNode ==
    ASSUME NEW op, NEW type, NEW inputs, NEW s, NEW n,
           s[n] = [op |-> op, type |-> type, inputs |-> inputs]
    PROVE  s[n].op = op /\ s[n].type = type /\ s[n].inputs = inputs
OBVIOUS

LEMMA EmptyHasNoIndex == DOMAIN <<>> = {}
OBVIOUS

(* Find and Register of CompositeTypeFactory: the type that is returned is  *)
(* of the members that were passed, of the kind or of one that shares it.   *)
LEMMA NewCompositeIsAsAsked ==
    ASSUME NEW known, IsSequence(known), NEW kind, NEW members,
           NEW made, made = NewComposite(known, kind, members)
    PROVE  /\ Extends(known, made.types)
           /\ made.type \in DOMAIN made.types
           /\ made.types[made.type].kind \in SharedKinds(kind)
           /\ made.types[made.type].members = members
<1> DEFINE present == FindType(known, kind, members)
           new == [kind |-> kind, members |-> members]
<1>1. CASE present # {}
  <2>1. made = [types |-> known, type |-> CHOOSE t \in present : TRUE]
    BY <1>1 DEF NewComposite
  <2>2. made.type \in present BY <1>1, <2>1
  <2>3. made.types = known BY <2>1
  <2> QED BY <2>2, <2>3, ExtendsItself DEF FindType
<1>2. CASE present = {}
  <2>1. made = [types |-> Append(known, new), type |-> Len(known) + 1]
    BY <1>2 DEF NewComposite
  <2>2. made.types = Append(known, new) /\ made.type = Len(known) + 1 BY <2>1
  <2>3. Extends(known, made.types) BY <2>2, AppendExtends
  <2>4. /\ IsSequence(made.types) /\ Len(made.types) = Len(known) + 1
        /\ made.types[made.type] = new
    BY <2>2, AppendToSequence
  <2>5. made.type \in DOMAIN made.types
    BY <2>2, <2>4, IndicesOfSequence
  <2>6. kind \in SharedKinds(kind) BY DEF SharedKinds
  <2> QED BY <2>3, <2>4, <2>5, <2>6
<1> QED BY <1>1, <1>2

LEMMA NewUnionExtends ==
    ASSUME NEW known, IsSequence(known), NEW passed
    PROVE  Extends(known, NewUnion(known, passed).types)
BY ExtendsItself, NewCompositeIsAsAsked DEF NewUnion

(* The operator a call is given is of its code and, but for the sign of     *)
(* zero, of its member.                                                     *)
Answers(op, code, member) ==
    /\ op.code = code
    /\ \/ op.member = member
       \/ op.code = "LiteralFloat64" /\ SameNumber(op.member, member)

LEMMA OperatorIsAsAsked ==
    ASSUME IsSequence(operators), NEW code, NEW member,
           NEW op, op = OperatorOf(code, member),
           NEW with, with = OperatorsWith(op, code, member)
    PROVE  /\ Extends(operators, with)
           /\ op \in DOMAIN with
           /\ Answers(with[op], code, member)
           /\ op \in DOMAIN operators => Answers(operators[op], code, member)
<1> DEFINE present == FindOperator(code, member)
           new == [code |-> code, member |-> member]
<1>0. Len(operators) \in Nat /\ DOMAIN operators = 1..Len(operators)
  BY IndicesOfSequence
<1>1. CASE present # {}
  <2>1. op \in present BY <1>1 DEF OperatorOf
  <2>2. op \in DOMAIN operators BY <2>1 DEF FindOperator
  <2>3. with = operators BY <2>2 DEF OperatorsWith
  <2>4. Answers(operators[op], code, member)
    BY <2>1 DEF FindOperator, SameMember, Answers
  <2> QED BY <2>2, <2>3, <2>4, ExtendsItself
<1>2. CASE present = {}
  <2>1. op = Len(operators) + 1 BY <1>2 DEF OperatorOf
  <2>2. op \notin DOMAIN operators BY <2>1, <1>0
  <2>3. with = Append(operators, new) BY <2>2 DEF OperatorsWith
  <2>4. /\ IsSequence(Append(operators, new))
        /\ Len(Append(operators, new)) = Len(operators) + 1
        /\ Append(operators, new)[Len(operators) + 1] = new
    BY AppendToSequence
  <2>7. /\ IsSequence(with) /\ Len(with) = Len(operators) + 1
        /\ with[op] = new
    BY <2>1, <2>3, <2>4
  <2>5. op \in DOMAIN with BY <2>1, <2>7, <1>0, IndicesOfSequence
  <2>6. Extends(operators, with) BY <2>3, AppendExtends
  <2> QED BY <2>2, <2>5, <2>6, <2>7 DEF Answers
<1> QED BY <1>1, <1>2

LEMMA InputsAreNodes ==
    ASSUME IInv
    PROVE  \A n \in DOMAIN nodes : nodes[n].inputs \in Seq(DOMAIN nodes)
<1> SUFFICES ASSUME NEW n \in DOMAIN nodes
             PROVE  nodes[n].inputs \in Seq(DOMAIN nodes)
  OBVIOUS
<1>1. Len(nodes) \in Nat /\ DOMAIN nodes = 1..Len(nodes)
  BY IndicesOfSequence DEF IInv, TypeOK
<1>2. nodes[n].inputs \in Seq(1..(n - 1)) BY <1>1 DEF IInv, TypeOK
<1>3. 1..(n - 1) \subseteq DOMAIN nodes BY <1>1
<1> QED BY <1>2, <1>3

(* What is known of a node stays known while the sequences grow. *)
LEMMA OldNodesStay ==
    ASSUME IInv, Graph, Extends(types, types'), Extends(operators, operators'),
           Extends(nodes, nodes')
    PROVE  \A n \in DOMAIN nodes :
             /\ n \in DOMAIN nodes' /\ nodes'[n] = nodes[n]
             /\ OutputType(n)' = OutputType(n) /\ CodeOf(n)' = CodeOf(n)
             /\ nodes'[n].op \in DOMAIN operators'
             /\ nodes[n].inputs \in Seq(DOMAIN nodes)
             /\ n \in MadeTuples =>
                  /\ OutputType(n) \in DOMAIN types'
                  /\ types'[OutputType(n)] = types[OutputType(n)]
<1>1. /\ Len(nodes) \in Nat /\ DOMAIN nodes = 1..Len(nodes)
      /\ Len(operators) \in Nat /\ DOMAIN operators = 1..Len(operators)
      /\ Len(types) \in Nat /\ DOMAIN types = 1..Len(types)
  BY IndicesOfSequence DEF IInv, TypeOK, Graph
<1>2. /\ Len(nodes') \in Nat /\ DOMAIN nodes' = 1..Len(nodes')
      /\ Len(operators') \in Nat /\ DOMAIN operators' = 1..Len(operators')
      /\ Len(types') \in Nat /\ DOMAIN types' = 1..Len(types')
  BY IndicesOfSequence DEF Extends
<1>3. /\ DOMAIN nodes \subseteq DOMAIN nodes'
      /\ DOMAIN operators \subseteq DOMAIN operators'
      /\ DOMAIN types \subseteq DOMAIN types'
  BY <1>1, <1>2 DEF Extends
<1> SUFFICES ASSUME NEW n \in DOMAIN nodes
             PROVE  /\ n \in DOMAIN nodes' /\ nodes'[n] = nodes[n]
                    /\ OutputType(n)' = OutputType(n) /\ CodeOf(n)' = CodeOf(n)
                    /\ nodes'[n].op \in DOMAIN operators'
                    /\ nodes[n].inputs \in Seq(DOMAIN nodes)
                    /\ n \in MadeTuples =>
                         /\ OutputType(n) \in DOMAIN types'
                         /\ types'[OutputType(n)] = types[OutputType(n)]
  OBVIOUS
<1>4. n \in DOMAIN nodes' /\ nodes'[n] = nodes[n] BY <1>1, <1>3 DEF Extends
<1>5. OutputType(n)' = OutputType(n) BY <1>4 DEF OutputType
<1>6. nodes[n].op \in DOMAIN operators BY DEF Graph
<1>7. CodeOf(n)' = CodeOf(n) BY <1>1, <1>4, <1>6 DEF CodeOf, Extends
<1>8. nodes'[n].op \in DOMAIN operators' BY <1>3, <1>4, <1>6
<1>9. nodes[n].inputs \in Seq(DOMAIN nodes) BY InputsAreNodes
<1>10. ASSUME n \in MadeTuples
       PROVE  /\ OutputType(n) \in DOMAIN types'
              /\ types'[OutputType(n)] = types[OutputType(n)]
  <2>1. OutputType(n) \in DOMAIN types BY <1>10 DEF Graph, TuplesAreTyped, TupleIsTyped
  <2> QED BY <2>1, <1>1, <1>3 DEF Extends
<1> QED BY <1>4, <1>5, <1>7, <1>8, <1>9, <1>10

LEMMA OldTuplesStay ==
    ASSUME IInv, Graph, Extends(types, types'), Extends(operators, operators'),
           Extends(nodes, nodes'),
           NEW n \in DOMAIN nodes, n \in MadeTuples'
    PROVE  n \in MadeTuples /\ TupleIsTyped(n)'
<1>1. /\ nodes'[n] = nodes[n]
      /\ OutputType(n)' = OutputType(n) /\ CodeOf(n)' = CodeOf(n)
      /\ nodes[n].inputs \in Seq(DOMAIN nodes)
  BY OldNodesStay
<1>2. n \in MadeTuples BY <1>1 DEF MadeTuples
<1>3. /\ OutputType(n) \in DOMAIN types'
      /\ types'[OutputType(n)] = types[OutputType(n)]
  BY <1>2, OldNodesStay
<1>4. TupleIsTyped(n) BY <1>2 DEF Graph, TuplesAreTyped
<1>5. InputTypes(nodes[n].inputs)' = InputTypes(nodes[n].inputs)
  <2>1. \A i \in DOMAIN nodes[n].inputs : nodes[n].inputs[i] \in DOMAIN nodes
    BY <1>1, ElementOfSeq, LenProperties
  <2>2. \A i \in DOMAIN nodes[n].inputs :
          nodes'[nodes[n].inputs[i]].type = nodes[nodes[n].inputs[i]].type
    BY <2>1, OldNodesStay
  <2> QED BY <2>2, <1>1 DEF InputTypes, OutputType
<1>6. types'[OutputType(n)'] = types[OutputType(n)] BY <1>1, <1>3
<1> QED BY <1>1, <1>2, <1>3, <1>4, <1>5, <1>6 DEF TupleIsTyped, IsTuple, Is

-----------------------------------------------------------------------------
(* A call whose type is the one its operator and inputs ask for. *)
Fits(code, member, type, inputs, known) ==
    /\ code # "Tuple" => Arity[code] = Len(inputs) /\ Len(inputs) <= 2
    /\ code = "Tuple" => /\ member = Len(inputs)
                         /\ type \in DOMAIN known
                         /\ known[type].kind \in {"Tuple", "Union"}
                         /\ known[type].members = InputTypes(inputs)
    /\ code = "Start" => type \in DOMAIN known /\ known[type].kind = "Tuple"
    /\ code = "Projection" =>
         /\ Len(inputs) = 1
         /\ CodeOf(inputs[1]) = "Tuple" =>
              /\ member + 1 \in DOMAIN nodes[inputs[1]].inputs
              /\ type = OutputType(nodes[inputs[1]].inputs[member + 1])

(* Only a tuple of more than seven inputs does not fit the three bits. *)
LEMMA OnlyWideTuplesDoNotFit ==
    ASSUME NEW S, NEW inputs \in Seq(S), NEW code, NEW member, NEW type, NEW known,
           Fits(code, member, type, inputs, known),
           ~ FitsFormat([code |-> code, member |-> member], inputs)
    PROVE  code = "Tuple" /\ Len(inputs) > kMaxNumberOfInputs
<1>1. Len(inputs) \in Nat BY LenProperties
<1>2. 2^BitsOfInputs = 8 BY DEF BitsOfInputs
<1>3. ArityOf([code |-> code, member |-> member]) = Len(inputs)
  BY DEF Fits, ArityOf
<1>4. Len(inputs) % 8 # Len(inputs) BY <1>2, <1>3 DEF FitsFormat
<1>5. Len(inputs) > 7 BY <1>1, <1>4
<1> QED BY <1>1, <1>5 DEF Fits, kMaxNumberOfInputs

-----------------------------------------------------------------------------
LEMMA InitEstablishesCalls == Init => CallInv
<1> SUFFICES ASSUME Init PROVE CallInv OBVIOUS
<1>1. nodes = <<>> /\ failed = "" BY DEF Init
<1>2. DOMAIN nodes = {} BY <1>1, EmptyHasNoIndex
<1>3. IsSequence(operators)
  <2>1. \A a, b : IsSequence(<<a, b>>) BY DEF IsSequence
  <2> QED BY <2>1 DEF Init
<1>4. IsSequence(types)
  <2>1. types = [i \in DOMAIN PrimitiveTypes |->
                   [kind |-> PrimitiveTypes[i], members |-> <<>>]]
    BY DEF Init, Primitives
  <2>2. DOMAIN PrimitiveTypes = 1..11 BY DEF PrimitiveTypes
  <2>3. \A f : f = [i \in 1..11 |-> f[i]] => IsSequence(f)
    <3> SUFFICES ASSUME NEW f, f = [i \in 1..11 |-> f[i]] PROVE IsSequence(f)
      OBVIOUS
    <3>1. f \in Seq({f[i] : i \in 1..11}) /\ DOMAIN f = 1..11 OBVIOUS
    <3>2. Len(f) = 11 BY <3>1, LenProperties
    <3> QED BY <3>2 DEF IsSequence
  <2> QED BY <2>1, <2>2, <2>3
<1>5. TuplesAreTyped BY <1>2 DEF TuplesAreTyped, MadeTuples
<1>6. CallsReturnWhatWasAsked
  <2>1. call.node \notin DOMAIN nodes BY <1>2
  <2> QED BY <2>1 DEF CallsReturnWhatWasAsked
<1>7. OnlyWideOrSharedTuplesFail BY <1>1 DEF OnlyWideOrSharedTuplesFail
<1> QED BY <1>2, <1>3, <1>4, <1>5, <1>6, <1>7 DEF CallInv, Graph

(* New types, and the edges that are linked, change nothing of the calls. *)
LEMMA NewTypesKeepCalls ==
    ASSUME IInv, CallInv, failed = "", Extends(types, types'),
           UNCHANGED <<operators, nodes, call, failed>>
    PROVE  CallInv'
<1>1. /\ Extends(operators, operators') /\ Extends(nodes, nodes')
      /\ IsSequence(types') /\ IsSequence(operators')
  BY ExtendsItself DEF IInv, TypeOK, CallInv, Graph, Extends
<1>2. ASSUME NEW n \in MadeTuples' PROVE TupleIsTyped(n)'
  BY <1>1, <1>2, OldTuplesStay DEF CallInv, MadeTuples
<1>3. Graph' BY <1>1, <1>2 DEF CallInv, Graph, TuplesAreTyped
<1>4. CallsReturnWhatWasAsked'
  BY DEF CallInv, CallsReturnWhatWasAsked, OutputType, CodeOf
<1>5. OnlyWideOrSharedTuplesFail' BY DEF OnlyWideOrSharedTuplesFail
<1> QED BY <1>3, <1>4, <1>5 DEF CallInv

(* A node that is made is the one the call asked for. *)
LEMMA NewNodeKeepsCalls ==
    ASSUME IInv, CallInv, Ready, Extends(types, types'),
           NEW code, NEW member, NEW type, NEW inputs \in Seq(DOMAIN nodes),
           Fits(code, member, type, inputs, types'),
           NewNode(code, member, type, inputs)
    PROVE  CallInv'
<1>o. PICK op : op = OperatorOf(code, member) OBVIOUS
<1>0. /\ operators' = OperatorsWith(op, code, member)
      /\ call' = [code |-> code, member |-> member, inputs |-> inputs,
                  node |-> Len(nodes) + 1]
  BY <1>o DEF NewNode
<1>1. /\ Extends(operators, operators') /\ op \in DOMAIN operators'
      /\ Answers(operators'[op], code, member)
  BY <1>o, <1>0, OperatorIsAsAsked DEF CallInv, Graph
<1>2. IsSequence(nodes) /\ Len(nodes) \in Nat /\ DOMAIN nodes = 1..Len(nodes)
  BY IndicesOfSequence DEF IInv, TypeOK
<1>3. IsSequence(types') /\ IsSequence(operators') BY <1>1 DEF Extends
<1>4. CASE FitsFormat([code |-> code, member |-> member], inputs)
  <2> DEFINE new == [op |-> op, type |-> type, inputs |-> inputs]
  <2>N. PICK N : N = Len(nodes) + 1 OBVIOUS
  <2>1. nodes' = Append(nodes, new) /\ failed' = failed
    BY <1>4, <1>o DEF NewNode, Construct
  <2>2. Extends(nodes, nodes') BY <2>1, <1>2, AppendExtends
  <2>3. /\ IsSequence(Append(nodes, new)) /\ Len(Append(nodes, new)) = N
        /\ Append(nodes, new)[N] = new
    BY <1>2, <2>N, AppendToSequence
  <2>4. nodes'[N].op = op /\ nodes'[N].type = type /\ nodes'[N].inputs = inputs
    <3>1. nodes'[N] = new BY <2>1, <2>3
    <3> QED BY <3>1, FieldsOfNode
  <2>5. DOMAIN nodes' = DOMAIN nodes \cup {N}
    <3>1. DOMAIN Append(nodes, new) = DOMAIN nodes \cup {Len(nodes) + 1}
      BY <1>2, AppendedIndex
    <3> QED BY <3>1, <2>1, <2>N
  <2>6. /\ Graph /\ Extends(types, types') /\ Extends(operators, operators')
        /\ \A n \in DOMAIN nodes :
             /\ nodes'[n] = nodes[n] /\ CodeOf(n)' = CodeOf(n)
             /\ OutputType(n)' = OutputType(n)
             /\ nodes'[n].op \in DOMAIN operators'
             /\ nodes[n].inputs \in Seq(DOMAIN nodes)
    BY <1>1, <2>2, OldNodesStay DEF CallInv
  <2>7. CodeOf(N)' = code /\ OutputType(N)' = type
    BY <2>4, <1>1 DEF CodeOf, OutputType, Answers
  <2>8. [i \in DOMAIN inputs |-> nodes'[inputs[i]].type] = InputTypes(inputs)
    <3>1. \A i \in DOMAIN inputs : inputs[i] \in DOMAIN nodes
      BY ElementOfSeq, LenProperties
    <3> QED BY <3>1, <2>6 DEF InputTypes, OutputType
  <2>9. TupleIsTyped(N)' \/ N \notin MadeTuples'
    <3>1. CASE code = "Tuple"
      <4>1. /\ type \in DOMAIN types' /\ types'[type].kind \in {"Tuple", "Union"}
            /\ types'[type].members = InputTypes(inputs)
        BY <3>1 DEF Fits
      <4>2. InputTypes(nodes[N].inputs)' = InputTypes(inputs)
        BY <2>4, <2>8 DEF InputTypes, OutputType
      <4> QED BY <3>1, <4>1, <4>2, <2>7 DEF TupleIsTyped
    <3>2. CASE code = "Start"
      <4>1. type \in DOMAIN types' /\ types'[type].kind = "Tuple"
        BY <3>2 DEF Fits
      <4> QED BY <3>2, <4>1, <2>7 DEF TupleIsTyped, IsTuple, Is
    <3>3. CASE code \notin {"Tuple", "Start"} BY <3>3, <2>7 DEF MadeTuples
    <3> QED BY <3>1, <3>2, <3>3
  <2>10. TuplesAreTyped'
    <3> SUFFICES ASSUME NEW n \in MadeTuples' PROVE TupleIsTyped(n)'
      BY DEF TuplesAreTyped
    <3>1. n \in DOMAIN nodes' BY DEF MadeTuples
    <3>2. CASE n \in DOMAIN nodes BY <3>2, <2>2, <2>6, OldTuplesStay
    <3>3. CASE n = N BY <3>3, <2>9
    <3> QED BY <3>1, <3>2, <3>3, <2>5
  <2>11. \A n \in DOMAIN nodes' : nodes'[n].op \in DOMAIN operators'
    BY <2>4, <2>5, <2>6, <1>1
  <2>12. CallsReturnWhatWasAsked'
    <3>1. ASSUME code = "Projection", CodeOf(inputs[1])' = "Tuple"
          PROVE  type = OutputType(nodes[inputs[1]].inputs[member + 1])'
      <4>1. inputs[1] \in DOMAIN nodes
        <5>1. Len(inputs) = 1 BY <3>1 DEF Fits
        <5> QED BY <5>1, FirstOfOne
      <4>2. /\ member + 1 \in DOMAIN nodes[inputs[1]].inputs
            /\ type = OutputType(nodes[inputs[1]].inputs[member + 1])
        BY <4>1, <3>1, <2>6 DEF Fits
      <4>3. nodes[inputs[1]].inputs[member + 1] \in DOMAIN nodes
        BY <4>1, <4>2, <2>6, ElementOfSeq, LenProperties
      <4>4. nodes'[inputs[1]].inputs[member + 1] = nodes[inputs[1]].inputs[member + 1]
        BY <4>1, <2>6
      <4> QED BY <4>2, <4>3, <4>4, <2>6 DEF OutputType
    <3>2. /\ operators'[nodes'[N].op].code = code
          /\ \/ operators'[nodes'[N].op].member = member
             \/ /\ operators'[nodes'[N].op].code = "LiteralFloat64"
                /\ SameNumber(operators'[nodes'[N].op].member, member)
      BY <1>1, <2>4 DEF Answers
    <3>3. /\ call'.node = N /\ call'.code = code
          /\ call'.member = member /\ call'.inputs = inputs
      BY <1>0, <2>N
    <3> QED BY <3>1, <3>2, <3>3, <2>4 DEF CallsReturnWhatWasAsked, OutputType
  <2>13. OnlyWideOrSharedTuplesFail'
    BY <2>1 DEF Ready, OnlyWideOrSharedTuplesFail
  <2> QED BY <1>3, <2>10, <2>11, <2>12, <2>13 DEF CallInv, Graph
<1>5. CASE ~ FitsFormat([code |-> code, member |-> member], inputs)
  <2>1. nodes' = nodes /\ failed' = "number_of_inputs" BY <1>5 DEF NewNode
  <2>2. Extends(nodes, nodes') /\ Graph
    BY <2>1, <1>2, ExtendsItself DEF CallInv
  <2>3. \A n \in DOMAIN nodes : nodes'[n].op \in DOMAIN operators'
    BY <2>2, <1>1, OldNodesStay
  <2>4. ASSUME NEW n \in MadeTuples' PROVE TupleIsTyped(n)'
    <3>1. n \in DOMAIN nodes BY <2>1, <2>4 DEF MadeTuples
    <3> QED BY <3>1, <2>2, <2>4, <1>1, OldTuplesStay
  <2>5. call'.node \notin DOMAIN nodes'
    <3>1. call'.node = Len(nodes) + 1 BY <1>0
    <3>2. Len(nodes) + 1 \notin DOMAIN nodes BY <1>2, IndicesOfSequence
    <3> QED BY <3>1, <3>2, <2>1
  <2>6. CallsReturnWhatWasAsked' BY <2>5 DEF CallsReturnWhatWasAsked
  <2>7. code = "Tuple" /\ Len(inputs) > kMaxNumberOfInputs
    BY <1>5, OnlyWideTuplesDoNotFit
  <2>8. OnlyWideOrSharedTuplesFail'
    BY <2>1, <2>7, <1>0 DEF OnlyWideOrSharedTuplesFail, kMaxNumberOfInputs
  <2> QED BY <1>3, <2>1, <2>3, <2>4, <2>6, <2>8 DEF CallInv, Graph, TuplesAreTyped
<1> QED BY <1>4, <1>5

(* A node that is found is the one the call asked for. *)
LEMMA FoundNodeKeepsCalls ==
    ASSUME IInv, CallInv, Ready, Extends(types, types'),
           NEW code, NEW member, NEW type, NEW inputs \in Seq(DOMAIN nodes),
           Fits(code, member, type, inputs, types'),
           FindNode(OperatorOf(code, member), type, inputs) # {},
           GetOrNewNode(code, member, type, inputs)
    PROVE  CallInv'
<1>o. PICK op : op = OperatorOf(code, member) OBVIOUS
<1>n. PICK n : n = CHOOSE m \in FindNode(op, type, inputs) : TRUE OBVIOUS
<1>1. /\ call' = [code |-> code, member |-> member, inputs |-> inputs, node |-> n]
      /\ UNCHANGED <<operators, nodes, failed>>
  BY <1>o, <1>n DEF GetOrNewNode
<1>2. n \in FindNode(op, type, inputs) BY <1>o, <1>n
<1>3. n \in DOMAIN nodes BY <1>2 DEF FindNode
<1>4. nodes[n].op = op /\ nodes[n].type = type /\ nodes[n].inputs = inputs
  <2>1. nodes[n] = [op |-> op, type |-> type, inputs |-> inputs]
    BY <1>2 DEF FindNode
  <2> QED BY <2>1, FieldsOfNode
<1>5. op \in DOMAIN operators BY <1>3, <1>4 DEF CallInv, Graph
<1>6. Answers(operators[op], code, member)
  BY <1>o, <1>5, OperatorIsAsAsked DEF CallInv, Graph
<1>7. /\ Extends(operators, operators') /\ Extends(nodes, nodes')
      /\ IsSequence(types') /\ IsSequence(operators')
  BY <1>1, ExtendsItself DEF IInv, TypeOK, CallInv, Graph, Extends
<1>8. ASSUME NEW m \in MadeTuples' PROVE TupleIsTyped(m)'
  <2>1. m \in DOMAIN nodes BY <1>1, <1>8 DEF MadeTuples
  <2> QED BY <2>1, <1>7, <1>8, OldTuplesStay DEF CallInv
<1>9. Graph' BY <1>1, <1>7, <1>8 DEF CallInv, Graph, TuplesAreTyped
<1>10. CallsReturnWhatWasAsked'
  <2>1. /\ call'.node = n /\ call'.code = code
        /\ call'.member = member /\ call'.inputs = inputs
    BY <1>1
  <2>2. /\ operators[op].code = code
        /\ \/ operators[op].member = member
           \/ /\ operators[op].code = "LiteralFloat64"
              /\ SameNumber(operators[op].member, member)
    BY <1>6 DEF Answers
  <2>3. ASSUME code = "Projection", CodeOf(inputs[1]) = "Tuple"
        PROVE  type = OutputType(nodes[inputs[1]].inputs[member + 1])
    BY <2>3 DEF Fits
  <2> QED BY <1>1, <1>4, <2>1, <2>2, <2>3
          DEF CallsReturnWhatWasAsked, CodeOf, OutputType
<1>11. OnlyWideOrSharedTuplesFail'
  BY <1>1 DEF Ready, OnlyWideOrSharedTuplesFail
<1> QED BY <1>9, <1>10, <1>11 DEF CallInv

LEMMA GetOrNewNodeKeepsCalls ==
    ASSUME IInv, CallInv, Ready, Extends(types, types'),
           NEW code, NEW member, NEW type, NEW inputs \in Seq(DOMAIN nodes),
           Fits(code, member, type, inputs, types'),
           GetOrNewNode(code, member, type, inputs)
    PROVE  CallInv'
<1>1. CASE FindNode(OperatorOf(code, member), type, inputs) = {}
  <2>1. NewNode(code, member, type, inputs) BY <1>1 DEF GetOrNewNode
  <2> QED BY <2>1, NewNodeKeepsCalls
<1>2. CASE FindNode(OperatorOf(code, member), type, inputs) # {}
  BY <1>2, FoundNodeKeepsCalls
<1> QED BY <1>1, <1>2

(* A call that fails for a type that was asked for as a tuple fails because *)
(* the cache found a union.                                                 *)
LEMMA FailKeepsCalls ==
    ASSUME IInv, CallInv, AskedAreTyped, UNCHANGED <<types, asked>>,
           NEW assertion, assertion # "number_of_inputs",
           NEW a \in asked, ~ Is(types, a.type, "Tuple"), Fail(assertion, a.type)
    PROVE  CallInv'
<1>1. /\ failed' = assertion /\ call'.member = a.type /\ call'.node = 0
      /\ UNCHANGED <<types, asked, operators, nodes>>
  BY DEF Fail
<1>2. /\ Extends(types, types') /\ Extends(operators, operators')
      /\ Extends(nodes, nodes') /\ IsSequence(types') /\ IsSequence(operators')
  BY <1>1, ExtendsItself DEF IInv, TypeOK, CallInv, Graph, Extends
<1>3. ASSUME NEW n \in MadeTuples' PROVE TupleIsTyped(n)'
  <2>1. n \in DOMAIN nodes BY <1>1, <1>3 DEF MadeTuples
  <2> QED BY <2>1, <1>2, <1>3, OldTuplesStay DEF CallInv
<1>4. Graph' BY <1>1, <1>2, <1>3 DEF CallInv, Graph, TuplesAreTyped
<1>5. CallsReturnWhatWasAsked'
  <2>1. DOMAIN nodes = 1..Len(nodes) BY IndicesOfSequence DEF IInv, TypeOK
  <2>2. call'.node \notin DOMAIN nodes' BY <1>1, <2>1
  <2> QED BY <2>2 DEF CallsReturnWhatWasAsked
<1>6. Is(types, a.type, "Union") /\ types[a.type].members = a.members
  BY DEF AskedAreTyped, Is
<1>7. a.members \in AskedFor(a.type) BY DEF AskedFor
<1>8. AskedFor(a.type)' = AskedFor(a.type) BY <1>1 DEF AskedFor
<1>9. /\ Is(types, call.member, "Union")'
      /\ types'[call'.member].members \in AskedFor(call.member)'
  BY <1>1, <1>6, <1>7, <1>8 DEF Is, AskedFor
<1>10. OnlyWideOrSharedTuplesFail' BY <1>1, <1>9 DEF OnlyWideOrSharedTuplesFail
<1> QED BY <1>4, <1>5, <1>10 DEF CallInv

(* What a caller takes for a control and is none has the type of a tuple    *)
(* that was asked for and is a union.                                       *)
LEMMA ControlIsTuple ==
    ASSUME AskedAreTyped, NEW control \in Controls, ~ IsControl(control)
    PROVE  \E a \in asked : /\ a.type = OutputType(control)
                            /\ ~ Is(types, a.type, "Tuple")
<1>1. ~ Is(types, OutputType(control), "Control") BY DEF IsControl, IsControlType
<1>2. PICK members \in AskedFor(OutputType(control)) : BeginsWithControl(types, members)
  BY <1>1 DEF Controls
<1>3. PICK a \in asked : a.type = OutputType(control) /\ a.members = members
  BY DEF AskedFor
<1>4. types[a.type].members = members BY <1>3 DEF AskedAreTyped
<1>5. ~ Is(types, a.type, "Tuple")
  BY <1>2, <1>3, <1>4 DEF IsControl, IsControlType
<1> QED BY <1>3, <1>5

LEMMA NoControlKeepsCalls ==
    ASSUME IInv, CallInv, AskedAreTyped, UNCHANGED <<types, asked>>,
           NEW control \in Controls, ~ IsControl(control),
           Fail("is_control", OutputType(control))
    PROVE  CallInv'
<1>1. PICK a \in asked : a.type = OutputType(control) /\ ~ Is(types, a.type, "Tuple")
  BY ControlIsTuple
<1>2. Fail("is_control", a.type) BY <1>1
<1> QED BY <1>1, <1>2, FailKeepsCalls

(* What a projection selects is the type of one of the tuple's inputs.      *)
LEMMA ProjectionKeepsCalls ==
    ASSUME IInv, CallInv, AskedAreTyped, NewProjection
    PROVE  CallInv'
<1>0. Ready /\ UNCHANGED <<types, asked>> BY DEF NewProjection
<1>1. PICK tuple \in TupleNodes :
        IF IsTuple(tuple)
        THEN \E index \in DOMAIN types[OutputType(tuple)].members :
                GetOrNewNode("Projection", index - 1,
                   types[OutputType(tuple)].members[index], <<tuple>>)
        ELSE Fail("is_tuple", OutputType(tuple))
  BY DEF NewProjection
<1>2. tuple \in DOMAIN nodes BY DEF TupleNodes
<1>3. nodes[tuple].inputs \in Seq(DOMAIN nodes)
  BY <1>2, InputsAreNodes
<1>4. CASE IsTuple(tuple)
  <2>2. PICK index \in DOMAIN types[OutputType(tuple)].members :
          GetOrNewNode("Projection", index - 1,
             types[OutputType(tuple)].members[index], <<tuple>>)
    BY <1>1, <1>4
  <2> DEFINE type == types[OutputType(tuple)].members[index]
  <2>3. ASSUME CodeOf(tuple) = "Tuple"
        PROVE  /\ index - 1 + 1 \in DOMAIN nodes[tuple].inputs
               /\ type = OutputType(nodes[tuple].inputs[index - 1 + 1])
    <3>0. TupleIsTyped(tuple)
      BY <1>2, <2>3 DEF MadeTuples, CallInv, Graph, TuplesAreTyped
    <3>1. types[OutputType(tuple)].members = InputTypes(nodes[tuple].inputs)
      BY <3>0, <2>3 DEF TupleIsTyped
    <3>2. DOMAIN InputTypes(nodes[tuple].inputs) = DOMAIN nodes[tuple].inputs
      BY DEF InputTypes
    <3>3. index \in DOMAIN nodes[tuple].inputs BY <2>2, <3>1, <3>2
    <3>4. index \in Nat BY <3>3, <1>3, LenProperties
    <3>5. index - 1 + 1 = index BY <3>4
    <3> QED BY <3>1, <3>3, <3>5 DEF InputTypes
  <2>4. Fits("Projection", index - 1, type, <<tuple>>, types')
    BY <2>3 DEF Fits, Arity
  <2>5. <<tuple>> \in Seq(DOMAIN nodes) BY <1>2
  <2>6. Extends(types, types') BY <1>0, ExtendsItself DEF CallInv, Graph
  <2> QED BY <1>0, <2>2, <2>4, <2>5, <2>6, GetOrNewNodeKeepsCalls
<1>5. CASE ~ IsTuple(tuple)
  <2>1. PICK a \in asked : a.type = OutputType(tuple) BY DEF TupleNodes, AskedFor
  <2>2. Fail("is_tuple", a.type) BY <1>1, <1>5, <2>1
  <2>3. ~ Is(types, a.type, "Tuple") BY <1>5, <2>1 DEF IsTuple
  <2> QED BY <1>0, <2>2, <2>3, FailKeepsCalls
<1> QED BY <1>4, <1>5

(* A tuple's type is found or made of the types of its inputs. *)
LEMMA TupleKeepsCalls ==
    ASSUME IInv, CallInv, NewTuple
    PROVE  CallInv'
<1>0. Ready /\ IsSequence(types) BY DEF NewTuple, CallInv, Graph
<1>1. PICK inputs \in TupleInputs :
        LET made == NewComposite(types, "Tuple",
                                 [i \in DOMAIN inputs |-> OutputType(inputs[i])])
        IN  /\ types' = made.types
            /\ GetOrNewNode("Tuple", Len(inputs), made.type, inputs)
  BY DEF NewTuple
<1>m. PICK members : members = InputTypes(inputs) OBVIOUS
<1>n. PICK made : made = NewComposite(types, "Tuple", members) OBVIOUS
<1>2. /\ types' = made.types
      /\ GetOrNewNode("Tuple", Len(inputs), made.type, inputs)
  BY <1>1, <1>m, <1>n DEF InputTypes
<1>3. /\ Extends(types, types') /\ made.type \in DOMAIN types'
      /\ types'[made.type].kind \in {"Tuple", "Union"}
      /\ types'[made.type].members = InputTypes(inputs)
  <2>1. SharedKinds("Tuple") = {"Tuple", "Union"} BY DEF SharedKinds
  <2>2. /\ Extends(types, made.types) /\ made.type \in DOMAIN made.types
        /\ made.types[made.type].kind \in SharedKinds("Tuple")
        /\ made.types[made.type].members = members
    BY <1>0, <1>n, NewCompositeIsAsAsked
  <2> QED BY <2>1, <2>2, <1>2, <1>m
<1>4. Fits("Tuple", Len(inputs), made.type, inputs, types') BY <1>3 DEF Fits
<1>5. inputs \in Seq(DOMAIN nodes) BY TupleInputsAreSequences
<1> QED BY <1>0, <1>2, <1>3, <1>4, <1>5, GetOrNewNodeKeepsCalls

LEMMA StartKeepsCalls ==
    ASSUME IInv, CallInv, AskedAreTyped, NewStart
    PROVE  CallInv'
<1>0. Ready /\ UNCHANGED <<types, asked>> BY DEF NewStart
<1>1. PICK a \in asked : IF Is(types, a.type, "Tuple")
                        THEN NewNode("Start", 0, a.type, <<>>)
                        ELSE Fail("output_type", a.type)
  BY DEF NewStart, StartTypes
<1>2. CASE Is(types, a.type, "Tuple")
  <2>1. NewNode("Start", 0, a.type, <<>>) BY <1>1, <1>2
  <2>2. a.type \in DOMAIN types /\ types[a.type].kind = "Tuple"
    BY <1>2 DEF AskedAreTyped, Is
  <2>3. Fits("Start", 0, a.type, <<>>, types')
    <3>1. Arity["Start"] = 0 BY DEF Arity
    <3>2. Len(<<>>) = 0 OBVIOUS
    <3>3. Arity["Start"] = Len(<<>>) /\ Len(<<>>) <= 2 BY <3>1, <3>2
    <3> QED BY <3>3, <2>2, <1>0 DEF Fits
  <2>4. Extends(types, types') BY <1>0, ExtendsItself DEF CallInv, Graph
  <2>5. <<>> \in Seq(DOMAIN nodes) OBVIOUS
  <2> QED BY <1>0, <2>1, <2>3, <2>4, <2>5, NewNodeKeepsCalls
<1>3. CASE ~ Is(types, a.type, "Tuple")
  <2>1. Fail("output_type", a.type) BY <1>1, <1>3
  <2> QED BY <1>0, <1>3, <2>1, FailKeepsCalls
<1> QED BY <1>2, <1>3

(* The other members of the factory pass the operator the inputs it takes,  *)
(* and their types are primitive.                                           *)
LEMMA PrimitiveCallKeepsCalls ==
    ASSUME IInv, CallInv, Ready, UNCHANGED types,
           NEW code \in DOMAIN Arity \ {"Start", "Projection", "Tuple"},
           NEW member, NEW type, NEW inputs \in Seq(DOMAIN nodes),
           Len(inputs) = Arity[code],
           \/ NewNode(code, member, type, inputs)
           \/ GetOrNewNode(code, member, type, inputs)
    PROVE  CallInv'
<1>1. Arity[code] <= 2 BY DEF Arity
<1>2. Fits(code, member, type, inputs, types') BY <1>1 DEF Fits, Arity
<1>3. Extends(types, types') BY ExtendsItself DEF CallInv, Graph
<1> QED BY <1>2, <1>3, NewNodeKeepsCalls, GetOrNewNodeKeepsCalls

LEMMA NewTypeKeepsCalls ==
    ASSUME IInv, CallInv, AskedAreTyped,
           NewFunctionType \/ NewReferenceType \/ NewTupleType \/ NewUnionType
    PROVE  CallInv'
<1>0. IsSequence(types) /\ failed = ""
  BY DEF CallInv, Graph, NewFunctionType, NewReferenceType, NewTupleType,
         NewUnionType, Ready
<1>1. ASSUME NEW kind, NEW members, SetTypes(NewComposite(types, kind, members))
      PROVE  CallInv'
  BY <1>0, <1>1, NewCompositeIsAsAsked, NewTypesKeepCalls DEF SetTypes
<1>2. ASSUME NEW passed, SetTypes(NewUnion(types, passed))
      PROVE  CallInv'
  BY <1>0, <1>2, NewUnionExtends, NewTypesKeepCalls DEF SetTypes
<1>3. CASE NewFunctionType
  <2>1. PICK a \in asked, return \in Components :
          IF Is(types, a.type, "Tuple")
          THEN SetTypes(NewComposite(types, "Function", <<a.type, return>>))
          ELSE Fail("as_tuple", a.type) /\ UNCHANGED types
    BY <1>3 DEF NewFunctionType
  <2>2. UNCHANGED asked BY <1>3 DEF NewFunctionType
  <2>3. CASE Is(types, a.type, "Tuple") BY <1>1, <2>1, <2>3
  <2>4. CASE ~ Is(types, a.type, "Tuple")
    <3>1. Fail("as_tuple", a.type) /\ UNCHANGED types BY <2>1, <2>4
    <3> QED BY <2>2, <2>4, <3>1, FailKeepsCalls
  <2> QED BY <2>3, <2>4
<1>4. CASE NewReferenceType BY <1>1, <1>4 DEF NewReferenceType
<1>5. CASE NewTupleType BY <1>1, <1>5 DEF NewTupleType
<1>6. CASE NewUnionType BY <1>2, <1>6 DEF NewUnionType
<1> QED BY <1>3, <1>4, <1>5, <1>6

LEMMA NextKeepsCalls == IInv /\ CallInv /\ AskedAreTyped /\ [Next]_vars => CallInv'
<1> SUFFICES ASSUME IInv, CallInv, AskedAreTyped, [Next]_vars PROVE CallInv' OBVIOUS
<1>0. Controls \subseteq DOMAIN nodes BY DEF Controls
<1>1. CASE NewFunctionType BY <1>1, NewTypeKeepsCalls
<1>2. CASE NewReferenceType BY <1>2, NewTypeKeepsCalls
<1>3. CASE NewTupleType BY <1>3, NewTypeKeepsCalls
<1>4. CASE NewUnionType BY <1>4, NewTypeKeepsCalls
<1>5. CASE NewExit
  <2>0. Ready /\ UNCHANGED <<types, asked>> BY <1>5 DEF NewExit
  <2>1. PICK control \in Controls :
          IF IsControl(control)
          THEN NewNode("Exit", 0, Primitive("Void"), <<control>>)
          ELSE Fail("is_control", OutputType(control))
    BY <1>5 DEF NewExit
  <2>2. /\ <<control>> \in Seq(DOMAIN nodes)
        /\ Len(<<control>>) = Arity["Exit"]
    BY <1>0 DEF Arity
  <2>3. "Exit" \in DOMAIN Arity \ {"Start", "Projection", "Tuple"} BY DEF Arity
  <2>4. CASE IsControl(control)
    BY <2>0, <2>1, <2>2, <2>3, <2>4, PrimitiveCallKeepsCalls
  <2>5. CASE ~ IsControl(control) BY <2>0, <2>1, <2>5, NoControlKeepsCalls
  <2> QED BY <2>4, <2>5
<1>6. CASE NewIf
  <2>0. Ready /\ UNCHANGED <<types, asked>> BY <1>6 DEF NewIf
  <2>1. PICK control \in Controls, condition \in DOMAIN nodes :
          IF IsControl(control)
          THEN NewNode("If", 0, Primitive("Control"), <<control, condition>>)
          ELSE Fail("is_control", OutputType(control))
    BY <1>6 DEF NewIf
  <2>2. /\ <<control, condition>> \in Seq(DOMAIN nodes)
        /\ Len(<<control, condition>>) = Arity["If"]
    BY <1>0 DEF Arity
  <2>3. "If" \in DOMAIN Arity \ {"Start", "Projection", "Tuple"} BY DEF Arity
  <2>4. CASE IsControl(control)
    BY <2>0, <2>1, <2>2, <2>3, <2>4, PrimitiveCallKeepsCalls
  <2>5. CASE ~ IsControl(control) BY <2>0, <2>1, <2>5, NoControlKeepsCalls
  <2> QED BY <2>4, <2>5
<1>7. CASE NewBranch
  <2>0. Ready /\ UNCHANGED <<types, asked>> BY <1>7 DEF NewBranch
  <2>1. PICK control \in Controls,
             code \in {"IfException", "IfFalse", "IfSuccess", "IfTrue"} :
          IF IsControl(control)
          THEN NewNode(code, 0, Primitive("Control"), <<control>>)
          ELSE Fail("is_control", OutputType(control))
    BY <1>7 DEF NewBranch
  <2>2. /\ <<control>> \in Seq(DOMAIN nodes)
        /\ Len(<<control>>) = Arity[code]
    BY <1>0 DEF Arity
  <2>3. code \in DOMAIN Arity \ {"Start", "Projection", "Tuple"} BY DEF Arity
  <2>4. CASE IsControl(control)
    BY <2>0, <2>1, <2>2, <2>3, <2>4, PrimitiveCallKeepsCalls
  <2>5. CASE ~ IsControl(control) BY <2>0, <2>1, <2>5, NoControlKeepsCalls
  <2> QED BY <2>4, <2>5
<1>8. CASE NewLiteral
  <2> DEFINE codes == {"LiteralBool", "LiteralFloat64", "LiteralInt64",
                       "LiteralString", "LiteralVoid"}
  <2>1. PICK code \in codes :
          \E data, type : GetOrNewNode(code, data, type, <<>>)
    BY <1>8 DEF NewLiteral
  <2>2. PICK data, type : GetOrNewNode(code, data, type, <<>>) BY <2>1
  <2>3. <<>> \in Seq(DOMAIN nodes) /\ Len(<<>>) = Arity[code] BY DEF Arity
  <2>4. code \in DOMAIN Arity \ {"Start", "Projection", "Tuple"} BY DEF Arity
  <2> QED BY <1>8, <2>2, <2>3, <2>4, PrimitiveCallKeepsCalls DEF NewLiteral
<1>9. CASE NewProjection BY <1>9, ProjectionKeepsCalls
<1>10. CASE NewRet
  <2>0. Ready /\ UNCHANGED <<types, asked>> BY <1>10 DEF NewRet
  <2>1. PICK control \in Controls, value \in DOMAIN nodes :
          IF IsControl(control)
          THEN GetOrNewNode("Ret", 0, Primitive("Control"), <<control, value>>)
          ELSE Fail("is_control", OutputType(control))
    BY <1>10 DEF NewRet
  <2>2. /\ <<control, value>> \in Seq(DOMAIN nodes)
        /\ Len(<<control, value>>) = Arity["Ret"]
    BY <1>0 DEF Arity
  <2>3. "Ret" \in DOMAIN Arity \ {"Start", "Projection", "Tuple"} BY DEF Arity
  <2>4. CASE IsControl(control)
    BY <2>0, <2>1, <2>2, <2>3, <2>4, PrimitiveCallKeepsCalls
  <2>5. CASE ~ IsControl(control) BY <2>0, <2>1, <2>5, NoControlKeepsCalls
  <2> QED BY <2>4, <2>5
<1>11. CASE NewStart BY <1>11, StartKeepsCalls
<1>12. CASE NewTuple BY <1>12, TupleKeepsCalls
<1>13. CASE LinkInput
  BY <1>13, NewTypesKeepCalls, ExtendsItself DEF LinkInput, CallInv, Graph
<1>14. CASE UNCHANGED vars
  <2>1. UNCHANGED <<types, operators, nodes, call, failed, asked>> BY <1>14 DEF vars
  <2>2. Graph'
    BY <2>1 DEF CallInv, Graph, TuplesAreTyped, MadeTuples, TupleIsTyped, IsTuple,
                Is, InputTypes, IsSequence, OutputType, CodeOf
  <2>3. CallsReturnWhatWasAsked'
    BY <2>1 DEF CallInv, CallsReturnWhatWasAsked, OutputType, CodeOf
  <2>4. OnlyWideOrSharedTuplesFail'
    BY <2>1 DEF CallInv, OnlyWideOrSharedTuplesFail, AskedFor, Is
  <2> QED BY <2>2, <2>3, <2>4 DEF CallInv
<1> QED
  BY <1>1, <1>2, <1>3, <1>4, <1>5, <1>6, <1>7, <1>8, <1>9, <1>10, <1>11, <1>12,
     <1>13, <1>14 DEF Next

(* What was asked for stays as it was answered: types are never changed.    *)
LEMMA AskedStay ==
    ASSUME AskedAreTyped, IsSequence(types), Extends(types, types')
    PROVE  \A a \in asked : /\ a.type \in DOMAIN types'
                            /\ types'[a.type].kind \in {"Tuple", "Union"}
                            /\ types'[a.type].members = a.members
<1>1. DOMAIN types = 1..Len(types) /\ Len(types) \in Nat BY IndicesOfSequence
<1>2. DOMAIN types' = 1..Len(types') /\ Len(types') \in Nat
  BY IndicesOfSequence DEF Extends
<1>3. \A t \in DOMAIN types : t \in DOMAIN types' /\ types'[t] = types[t]
  BY <1>1, <1>2 DEF Extends
<1> QED BY <1>3 DEF AskedAreTyped

LEMMA AskingKeepsAsked ==
    ASSUME AskedAreTyped, IsSequence(types), NEW members,
           NEW made, made = NewComposite(types, "Tuple", members),
           types' = made.types, asked' = asked \cup {AskedTuple(made, members)}
    PROVE  AskedAreTyped'
<1>1. /\ Extends(types, made.types) /\ made.type \in DOMAIN made.types
      /\ made.types[made.type].kind \in SharedKinds("Tuple")
      /\ made.types[made.type].members = members
  BY NewCompositeIsAsAsked
<1>2. SharedKinds("Tuple") = {"Tuple", "Union"} BY DEF SharedKinds
<1>3. PICK a : a = AskedTuple(made, members) OBVIOUS
<1>4. a.type = made.type /\ a.members = members BY <1>3 DEF AskedTuple
<1>5. /\ a.type \in DOMAIN types' /\ types'[a.type].kind \in {"Tuple", "Union"}
      /\ types'[a.type].members = a.members
  BY <1>1, <1>2, <1>4
<1>6. asked' = asked \cup {a} BY <1>3
<1> QED BY <1>1, <1>5, <1>6, AskedStay DEF AskedAreTyped

LEMMA NextKeepsAsked == CallInv /\ AskedAreTyped /\ [Next]_vars => AskedAreTyped'
<1> SUFFICES ASSUME CallInv, AskedAreTyped, [Next]_vars PROVE AskedAreTyped' OBVIOUS
<1>0. IsSequence(types) BY DEF CallInv, Graph
<1>s. ASSUME UNCHANGED <<types, asked>> PROVE AskedAreTyped' BY <1>s DEF AskedAreTyped
<1>e. ASSUME UNCHANGED asked, Extends(types, types') PROVE AskedAreTyped'
  BY <1>0, <1>e, AskedStay DEF AskedAreTyped
<1>1. CASE NewFunctionType
  <2>1. PICK parameters, return :
          \/ SetTypes(NewComposite(types, "Function", <<parameters, return>>))
          \/ UNCHANGED types
    BY <1>1 DEF NewFunctionType
  <2>2. UNCHANGED asked BY <1>1 DEF NewFunctionType
  <2>3. CASE UNCHANGED types BY <1>s, <2>2, <2>3
  <2>4. CASE SetTypes(NewComposite(types, "Function", <<parameters, return>>))
    BY <1>0, <1>e, <2>2, <2>4, NewCompositeIsAsAsked DEF SetTypes
  <2> QED BY <2>1, <2>3, <2>4
<1>2. CASE NewReferenceType
  <2>1. PICK to : SetTypes(NewComposite(types, "Reference", <<to>>))
    BY <1>2 DEF NewReferenceType
  <2>2. UNCHANGED asked BY <1>2 DEF NewReferenceType
  <2> QED BY <1>0, <1>e, <2>1, <2>2, NewCompositeIsAsAsked DEF SetTypes
<1>3. CASE NewTupleType
  <2>1. PICK members : LET made == NewComposite(types, "Tuple", members)
                       IN  /\ types' = made.types
                           /\ asked' = asked \cup {AskedTuple(made, members)}
    BY <1>3 DEF NewTupleType, SetTypes
  <2> QED BY <1>0, <2>1, AskingKeepsAsked
<1>4. CASE NewUnionType
  <2>1. PICK passed : SetTypes(NewUnion(types, passed)) BY <1>4 DEF NewUnionType
  <2>2. UNCHANGED asked BY <1>4 DEF NewUnionType
  <2> QED BY <1>0, <1>e, <2>1, <2>2, NewUnionExtends DEF SetTypes
<1>5. CASE NewTuple
  <2>1. PICK members : LET made == NewComposite(types, "Tuple", members)
                       IN  /\ types' = made.types
                           /\ asked' = asked \cup {AskedTuple(made, members)}
    BY <1>5 DEF NewTuple
  <2> QED BY <1>0, <2>1, AskingKeepsAsked
<1>6. CASE \/ NewExit \/ NewIf \/ NewBranch \/ NewLiteral \/ NewProjection
           \/ NewRet \/ NewStart \/ LinkInput \/ UNCHANGED vars
  <2>1. UNCHANGED <<types, asked>>
    BY <1>6 DEF NewExit, NewIf, NewBranch, NewLiteral, NewProjection, NewRet,
                NewStart, LinkInput, vars
  <2> QED BY <1>s, <2>1
<1> QED BY <1>1, <1>2, <1>3, <1>4, <1>5, <1>6 DEF Next

(* The invariants on which the theorems below rest.                         *)
FactoryInv == IInv /\ CallInv /\ AskedAreTyped
LEMMA FactoryInvHolds == Spec => []FactoryInv
<1>1. Init => FactoryInv
  BY InitEstablishesIInv, InitEstablishesCalls DEF FactoryInv, AskedAreTyped, Init
<1>2. FactoryInv /\ [Next]_vars => FactoryInv'
  BY NextKeepsIInv, NextKeepsCalls, NextKeepsAsked DEF FactoryInv
<1> QED BY <1>1, <1>2, PTL DEF Spec

(* The tuples of the graph have the type of their inputs or the union that  *)
(* was made of the same members before, in every reachable state            *)
(* (aoba/ir/composite_type_factory.cc:93): what a projection and the        *)
(* control check of the factory read of the type is what the inputs say.    *)
THEOREM TuplesCorrect == Spec => []TuplesAreTyped
<1>1. FactoryInv => TuplesAreTyped BY DEF FactoryInv, CallInv, Graph
<1> QED BY <1>1, FactoryInvHolds, PTL

(* A member of the node factory returns what it was asked for, whatever was *)
(* made before and is shared: the caches of operators and of nodes, keyed   *)
(* by less than a call, answer no call with another's node                  *)
(* (aoba/ir/operator_factory.cc:140, aoba/ir/node_factory.cc:112).          *)
THEOREM CallsCorrect == Spec => []CallsReturnWhatWasAsked
<1>1. FactoryInv => CallsReturnWhatWasAsked BY DEF FactoryInv, CallInv
<1> QED BY <1>1, FactoryInvHolds, PTL

(* The only calls the assertions of the factories stop are a tuple wider    *)
(* than a node's format and a call that needs a tuple type and has a union, *)
(* of the members a tuple type was asked for, however many types and nodes  *)
(* there are (aoba/ir/node.h:47, aoba/ir/composite_type_factory.cc:83 and   *)
(* 93, aoba/ir/node_factory.cc:266 and 279).                                *)
THEOREM FailuresCorrect == Spec => []OnlyWideOrSharedTuplesFail
<1>1. FactoryInv => OnlyWideOrSharedTuplesFail BY DEF FactoryInv, CallInv
<1> QED BY <1>1, FactoryInvHolds, PTL

-----------------------------------------------------------------------------
(* What the caches share: no type, operator or node is there twice, so that *)
(* what is found is the one that was made.  A NaN is never found again, and *)
(* nodes that branch, exit or start are made by each call.                  *)
TypesAreShared(known) ==
    \A t, u \in DOMAIN known :
       /\ known[t].kind \in SharedKinds(known[u].kind)
       /\ known[t].members = known[u].members
       => t = u

OperatorsAreShared ==
    \A i, j \in DOMAIN operators :
       /\ operators[i].code = operators[j].code
       /\ SameMember(operators[i].code, operators[i].member, operators[j].member)
       => i = j

SharedCodes == {"LiteralBool", "LiteralFloat64", "LiteralInt64", "LiteralString",
                "LiteralVoid", "Projection", "Ret", "Tuple"}
NodesAreShared ==
    \A n, m \in DOMAIN nodes :
       /\ CodeOf(n) \in SharedCodes /\ Len(nodes[n].inputs) <= 2
       /\ nodes[n] = nodes[m]
       => n = m

NothingIsMadeTwice == TypesAreShared(types) /\ OperatorsAreShared /\ NodesAreShared

LEMMA SharedKindsAreMutual ==
    ASSUME NEW k, NEW l, k \in SharedKinds(l)
    PROVE  l \in SharedKinds(k) /\ SharedKinds(k) = SharedKinds(l)
BY DEF SharedKinds

LEMMA NewCompositeShares ==
    ASSUME NEW known, IsSequence(known), TypesAreShared(known),
           NEW kind, NEW members,
           NEW made, made = NewComposite(known, kind, members)
    PROVE  TypesAreShared(made.types)
<1> DEFINE present == FindType(known, kind, members)
           new == [kind |-> kind, members |-> members]
<1>1. CASE present # {}
  <2>1. made = [types |-> known, type |-> CHOOSE t \in present : TRUE]
    BY <1>1 DEF NewComposite
  <2>2. made.types = known BY <2>1
  <2> QED BY <2>2
<1>2. CASE present = {}
  <2>1. made = [types |-> Append(known, new), type |-> Len(known) + 1]
    BY <1>2 DEF NewComposite
  <2>2. made.types = Append(known, new) BY <2>1
  <2>N. PICK N : N = Len(known) + 1 OBVIOUS
  <2>3. /\ DOMAIN made.types = DOMAIN known \cup {N} /\ N \notin DOMAIN known
        /\ \A t \in DOMAIN known : made.types[t] = known[t]
        /\ made.types[N] = new
    BY <2>2, <2>N, AppendedIndex, AppendToSequence, IndicesOfSequence
  <2>4. made.types[N].kind = kind /\ made.types[N].members = members BY <2>3
  <2>5. ASSUME NEW t \in DOMAIN known
        PROVE  ~ (known[t].kind \in SharedKinds(kind) /\ known[t].members = members)
    BY <1>2, <2>5 DEF FindType
  <2> SUFFICES ASSUME NEW t \in DOMAIN made.types, NEW u \in DOMAIN made.types,
                      made.types[t].kind \in SharedKinds(made.types[u].kind),
                      made.types[t].members = made.types[u].members
               PROVE  t = u
    BY DEF TypesAreShared
  <2>6. CASE t \in DOMAIN known /\ u \in DOMAIN known
    BY <2>3, <2>6 DEF TypesAreShared
  <2>7. CASE t \in DOMAIN known /\ u = N BY <2>3, <2>4, <2>5, <2>7
  <2>8. CASE t = N /\ u \in DOMAIN known
    BY <2>3, <2>4, <2>5, <2>8, SharedKindsAreMutual
  <2> QED BY <2>3, <2>6, <2>7, <2>8
<1> QED BY <1>1, <1>2

LEMMA NewUnionShares ==
    ASSUME NEW known, IsSequence(known), TypesAreShared(known), NEW passed
    PROVE  TypesAreShared(NewUnion(known, passed).types)
BY NewCompositeShares DEF NewUnion

LEMMA NewOperatorIsShared ==
    ASSUME IsSequence(operators), OperatorsAreShared, NEW code, NEW member,
           operators' = OperatorsWith(OperatorOf(code, member), code, member)
    PROVE  OperatorsAreShared'
<1> DEFINE present == FindOperator(code, member)
           new == [code |-> code, member |-> member]
<1>o. PICK op : op = OperatorOf(code, member) OBVIOUS
<1>1. CASE op \in DOMAIN operators
  <2>1. operators' = operators BY <1>1, <1>o DEF OperatorsWith
  <2> QED BY <2>1 DEF OperatorsAreShared
<1>2. CASE op \notin DOMAIN operators
  <2>1. present = {}
    <3>1. present # {} => op \in present BY <1>o DEF OperatorOf
    <3> QED BY <3>1, <1>2 DEF FindOperator
  <2>2. op = Len(operators) + 1 BY <2>1, <1>o DEF OperatorOf
  <2>3. operators' = Append(operators, new) BY <1>2, <1>o DEF OperatorsWith
  <2>4. /\ DOMAIN operators' = DOMAIN operators \cup {op}
        /\ \A i \in DOMAIN operators : operators'[i] = operators[i]
        /\ operators'[op] = new
    BY <2>2, <2>3, AppendedIndex, AppendToSequence, IndicesOfSequence
  <2>5. operators'[op].code = code /\ operators'[op].member = member BY <2>4
  <2>6. ASSUME NEW i \in DOMAIN operators
        PROVE  ~ (operators[i].code = code /\ SameMember(code, operators[i].member, member))
    BY <2>1, <2>6 DEF FindOperator
  <2> SUFFICES ASSUME NEW i \in DOMAIN operators', NEW j \in DOMAIN operators',
                      operators'[i].code = operators'[j].code,
                      SameMember(operators'[i].code, operators'[i].member,
                                 operators'[j].member)
               PROVE  i = j
    BY DEF OperatorsAreShared
  <2>7. SameMember(operators'[j].code, operators'[j].member, operators'[i].member)
    BY DEF SameMember, SameNumber
  <2>8. CASE i \in DOMAIN operators /\ j \in DOMAIN operators
    BY <2>4, <2>8 DEF OperatorsAreShared
  <2>9. CASE i \in DOMAIN operators /\ j = op BY <2>4, <2>5, <2>6, <2>9
  <2>10. CASE i = op /\ j \in DOMAIN operators BY <2>4, <2>5, <2>6, <2>7, <2>10
  <2> QED BY <2>4, <2>8, <2>9, <2>10
<1> QED BY <1>1, <1>2

(* A node is made when there is none like it, or when none is to be shared. *)
LEMMA NewNodeIsShared ==
    ASSUME IInv, CallInv, NothingIsMadeTwice,
           Extends(types, types'), TypesAreShared(types'),
           NEW code, NEW member, NEW type, NEW inputs \in Seq(DOMAIN nodes),
           \/ FindNode(OperatorOf(code, member), type, inputs) = {}
           \/ code \notin SharedCodes,
           NewNode(code, member, type, inputs)
    PROVE  NothingIsMadeTwice'
<1>o. PICK op : op = OperatorOf(code, member) OBVIOUS
<1>0. operators' = OperatorsWith(op, code, member) BY <1>o DEF NewNode
<1>1. /\ Extends(operators, operators') /\ op \in DOMAIN operators'
      /\ Answers(operators'[op], code, member)
  BY <1>o, <1>0, OperatorIsAsAsked DEF CallInv, Graph
<1>2. OperatorsAreShared'
  BY <1>o, <1>0, NewOperatorIsShared DEF NothingIsMadeTwice, CallInv, Graph
<1>3. IsSequence(nodes) BY DEF IInv, TypeOK
<1>4. CASE FitsFormat([code |-> code, member |-> member], inputs)
  <2> DEFINE new == [op |-> op, type |-> type, inputs |-> inputs]
  <2>N. PICK N : N = Len(nodes) + 1 OBVIOUS
  <2>1. nodes' = Append(nodes, new) BY <1>4, <1>o DEF NewNode, Construct
  <2>2. Extends(nodes, nodes') BY <2>1, <1>3, AppendExtends
  <2>3. /\ DOMAIN nodes' = DOMAIN nodes \cup {N}
        /\ nodes'[N] = new
    BY <2>1, <2>N, <1>3, AppendToSequence, AppendedIndex
  <2>4. nodes'[N].op = op /\ nodes'[N].inputs = inputs
    BY <2>3, FieldsOfNode
  <2>5. \A n \in DOMAIN nodes : nodes'[n] = nodes[n] /\ CodeOf(n)' = CodeOf(n)
    BY <2>2, <1>1, OldNodesStay DEF CallInv
  <2>6. CodeOf(N)' = code BY <2>4, <1>1 DEF CodeOf, Answers
  <2>7. ASSUME NEW n \in DOMAIN nodes, nodes'[n] = nodes'[N],
               CodeOf(n)' \in SharedCodes, Len(nodes'[n].inputs) <= 2
        PROVE  FALSE
    <3>1. nodes[n] = new BY <2>3, <2>5, <2>7
    <3>2. code \in SharedCodes BY <2>6, <2>7 DEF CodeOf
    <3>3. Len(inputs) <= 2 BY <2>4, <2>7
    <3>4. Len(inputs) \in Nat BY LenProperties
    <3>5. n \in FindNode(op, type, inputs) BY <3>1, <3>3, <3>4 DEF FindNode
    <3> QED BY <3>2, <3>5, <1>o
  <2>8. NodesAreShared'
    <3> SUFFICES ASSUME NEW n \in DOMAIN nodes', NEW m \in DOMAIN nodes',
                        CodeOf(n)' \in SharedCodes, Len(nodes'[n].inputs) <= 2,
                        nodes'[n] = nodes'[m]
                 PROVE  n = m
      BY DEF NodesAreShared
    <3>1. CASE n \in DOMAIN nodes /\ m \in DOMAIN nodes
      BY <3>1, <2>5 DEF NothingIsMadeTwice, NodesAreShared
    <3>2. CASE n \in DOMAIN nodes /\ m = N BY <3>2, <2>7
    <3>3. CASE n = N /\ m \in DOMAIN nodes
      <4>1. CodeOf(m)' \in SharedCodes BY DEF CodeOf
      <4> QED BY <3>3, <4>1, <2>7
    <3> QED BY <3>1, <3>2, <3>3, <2>3
  <2> QED BY <2>8, <1>2 DEF NothingIsMadeTwice
<1>5. CASE ~ FitsFormat([code |-> code, member |-> member], inputs)
  <2>1. nodes' = nodes BY <1>5 DEF NewNode
  <2>2. \A n \in DOMAIN nodes : CodeOf(n)' = CodeOf(n)
    BY <2>1, <1>1, <1>3, OldNodesStay, ExtendsItself DEF CallInv
  <2>3. NodesAreShared' BY <2>1, <2>2 DEF NothingIsMadeTwice, NodesAreShared
  <2> QED BY <2>3, <1>2 DEF NothingIsMadeTwice
<1> QED BY <1>4, <1>5

LEMMA GetOrNewNodeIsShared ==
    ASSUME IInv, CallInv, NothingIsMadeTwice,
           Extends(types, types'), TypesAreShared(types'),
           NEW code, NEW member, NEW type, NEW inputs \in Seq(DOMAIN nodes),
           GetOrNewNode(code, member, type, inputs)
    PROVE  NothingIsMadeTwice'
<1>1. CASE FindNode(OperatorOf(code, member), type, inputs) = {}
  <2>1. NewNode(code, member, type, inputs) BY <1>1 DEF GetOrNewNode
  <2> QED BY <2>1, <1>1, NewNodeIsShared
<1>2. CASE FindNode(OperatorOf(code, member), type, inputs) # {}
  <2>1. UNCHANGED <<operators, nodes>> BY <1>2 DEF GetOrNewNode
  <2> QED BY <2>1 DEF NothingIsMadeTwice, OperatorsAreShared, NodesAreShared, CodeOf
<1> QED BY <1>1, <1>2

LEMMA InitMakesNothingTwice == Init => NothingIsMadeTwice
<1> SUFFICES ASSUME Init PROVE NothingIsMadeTwice OBVIOUS
<1>1. OperatorsAreShared
  <2> DEFINE false == [code |-> "LiteralBool", member |-> FALSE]
             true == [code |-> "LiteralBool", member |-> TRUE]
  <2>1. operators = <<false, true>> BY DEF Init
  <2>2. \A a, b : DOMAIN <<a, b>> = 1..2 /\ <<a, b>>[1] = a /\ <<a, b>>[2] = b
    OBVIOUS
  <2>3. DOMAIN operators = 1..2 /\ operators[1] = false /\ operators[2] = true
    BY <2>1, <2>2
  <2>4. /\ operators[1].code = "LiteralBool" /\ operators[1].member = FALSE
        /\ operators[2].code = "LiteralBool" /\ operators[2].member = TRUE
    BY <2>3
  <2>5. operators[1].member # operators[2].member BY <2>4, Zenon
  <2>6. \A a, b : SameMember("LiteralBool", a, b) => a = b BY DEF SameMember
  <2> SUFFICES ASSUME NEW i \in 1..2, NEW j \in 1..2,
                      SameMember("LiteralBool", operators[i].member, operators[j].member)
               PROVE  i = j
    BY <2>3, <2>4 DEF OperatorsAreShared
  <2>7. operators[i].member = operators[j].member BY <2>6
  <2>8. (i = 1 \/ i = 2) /\ (j = 1 \/ j = 2) OBVIOUS
  <2> QED BY <2>5, <2>7, <2>8
<1>2. NodesAreShared
  <2>1. DOMAIN nodes = {} BY EmptyHasNoIndex DEF Init
  <2> QED BY <2>1 DEF NodesAreShared
<1>3. TypesAreShared(types)
  <2>1. DOMAIN PrimitiveTypes = 1..11 BY DEF PrimitiveTypes
  <2>2. /\ DOMAIN types = 1..11
        /\ \A t \in 1..11 : types[t].kind = PrimitiveTypes[t]
    BY <2>1 DEF Init, Primitives
  <2>3. \A t \in 1..11 : SharedKinds(PrimitiveTypes[t]) = {PrimitiveTypes[t]}
    BY DEF SharedKinds, PrimitiveTypes
  <2>4. \A t, u \in 1..11 : PrimitiveTypes[t] = PrimitiveTypes[u] => t = u
    BY DEF PrimitiveTypes
  <2> QED BY <2>2, <2>3, <2>4 DEF TypesAreShared
<1> QED BY <1>1, <1>2, <1>3 DEF NothingIsMadeTwice

LEMMA NextMakesNothingTwice ==
    IInv /\ CallInv /\ NothingIsMadeTwice /\ [Next]_vars => NothingIsMadeTwice'
<1> SUFFICES ASSUME IInv, CallInv, NothingIsMadeTwice, [Next]_vars
             PROVE  NothingIsMadeTwice'
  OBVIOUS
<1>0. IsSequence(types) /\ TypesAreShared(types)
  BY DEF CallInv, Graph, NothingIsMadeTwice
<1>t. ASSUME UNCHANGED <<operators, nodes>>, TypesAreShared(types')
      PROVE  NothingIsMadeTwice'
  BY <1>t DEF NothingIsMadeTwice, OperatorsAreShared, NodesAreShared, CodeOf
<1>n. ASSUME UNCHANGED types, NEW code, code \notin SharedCodes,
             NEW member, NEW type, NEW inputs \in Seq(DOMAIN nodes),
             NewNode(code, member, type, inputs)
      PROVE  NothingIsMadeTwice'
  BY <1>0, <1>n, NewNodeIsShared, ExtendsItself
<1>g. ASSUME UNCHANGED types, NEW code, NEW member, NEW type,
             NEW inputs \in Seq(DOMAIN nodes), GetOrNewNode(code, member, type, inputs)
      PROVE  NothingIsMadeTwice'
  BY <1>0, <1>g, GetOrNewNodeIsShared, ExtendsItself
<1>f. ASSUME UNCHANGED types, NEW assertion, NEW type, Fail(assertion, type)
      PROVE  NothingIsMadeTwice'
  BY <1>0, <1>f, <1>t DEF Fail
<1>1. CASE NewFunctionType
  BY <1>1, <1>0, <1>f, <1>t, NewCompositeShares DEF NewFunctionType, SetTypes
<1>2. CASE NewReferenceType
  BY <1>2, <1>0, <1>t, NewCompositeShares DEF NewReferenceType, SetTypes
<1>3. CASE NewTupleType
  BY <1>3, <1>0, <1>t, NewCompositeShares DEF NewTupleType, SetTypes
<1>4. CASE NewUnionType
  BY <1>4, <1>0, <1>t, NewUnionShares DEF NewUnionType, SetTypes
<1>5. CASE NewExit
  <2>1. PICK n \in DOMAIN nodes :
          \/ NewNode("Exit", 0, Primitive("Void"), <<n>>)
          \/ Fail("is_control", OutputType(n))
    BY <1>5 DEF NewExit, Controls
  <2>2. "Exit" \notin SharedCodes /\ <<n>> \in Seq(DOMAIN nodes) BY DEF SharedCodes
  <2> QED BY <1>5, <1>f, <1>n, <2>1, <2>2 DEF NewExit
<1>6. CASE NewIf
  <2>1. PICK n \in DOMAIN nodes, m \in DOMAIN nodes :
          \/ NewNode("If", 0, Primitive("Control"), <<n, m>>)
          \/ Fail("is_control", OutputType(n))
    BY <1>6 DEF NewIf, Controls
  <2>2. "If" \notin SharedCodes /\ <<n, m>> \in Seq(DOMAIN nodes) BY DEF SharedCodes
  <2> QED BY <1>6, <1>f, <1>n, <2>1, <2>2 DEF NewIf
<1>7. CASE NewBranch
  <2>1. PICK n \in DOMAIN nodes,
             code \in {"IfException", "IfFalse", "IfSuccess", "IfTrue"} :
          \/ NewNode(code, 0, Primitive("Control"), <<n>>)
          \/ Fail("is_control", OutputType(n))
    BY <1>7 DEF NewBranch, Controls
  <2>2. code \notin SharedCodes /\ <<n>> \in Seq(DOMAIN nodes) BY DEF SharedCodes
  <2> QED BY <1>7, <1>f, <1>n, <2>1, <2>2 DEF NewBranch
<1>8. CASE NewLiteral
  <2>1. PICK code, data, type : GetOrNewNode(code, data, type, <<>>)
    BY <1>8 DEF NewLiteral
  <2>2. <<>> \in Seq(DOMAIN nodes) OBVIOUS
  <2> QED BY <1>8, <1>g, <2>1, <2>2 DEF NewLiteral
<1>9. CASE NewProjection
  <2>1. PICK n \in DOMAIN nodes :
          \/ /\ \E index, type : GetOrNewNode("Projection", index, type, <<n>>)
             /\ UNCHANGED types
          \/ Fail("is_tuple", OutputType(n)) /\ UNCHANGED types
    BY <1>9 DEF NewProjection, TupleNodes
  <2>2. <<n>> \in Seq(DOMAIN nodes) OBVIOUS
  <2> QED BY <1>f, <1>g, <2>1, <2>2
<1>10. CASE NewRet
  <2>1. PICK n \in DOMAIN nodes, m \in DOMAIN nodes :
          \/ GetOrNewNode("Ret", 0, Primitive("Control"), <<n, m>>)
          \/ Fail("is_control", OutputType(n))
    BY <1>10 DEF NewRet, Controls
  <2>2. <<n, m>> \in Seq(DOMAIN nodes) OBVIOUS
  <2> QED BY <1>10, <1>f, <1>g, <2>1, <2>2 DEF NewRet
<1>11. CASE NewStart
  <2>1. PICK type : NewNode("Start", 0, type, <<>>) \/ Fail("output_type", type)
    BY <1>11 DEF NewStart
  <2>2. "Start" \notin SharedCodes /\ <<>> \in Seq(DOMAIN nodes) BY DEF SharedCodes
  <2> QED BY <1>11, <1>f, <1>n, <2>1, <2>2 DEF NewStart
<1>12. CASE NewTuple
  <2>1. PICK inputs, members :
          LET made == NewComposite(types, "Tuple", members)
          IN  /\ inputs \in TupleInputs
              /\ types' = made.types
              /\ GetOrNewNode("Tuple", Len(inputs), made.type, inputs)
    BY <1>12 DEF NewTuple
  <2>2. inputs \in Seq(DOMAIN nodes) BY <2>1, TupleInputsAreSequences
  <2>3. Extends(types, types') /\ TypesAreShared(types')
    BY <2>1, <1>0, NewCompositeIsAsAsked, NewCompositeShares
  <2> QED BY <2>1, <2>2, <2>3, GetOrNewNodeIsShared
<1>13. CASE LinkInput BY <1>13, <1>0, <1>t DEF LinkInput
<1>14. CASE UNCHANGED vars BY <1>14, <1>0, <1>t DEF vars
<1> QED
  BY <1>1, <1>2, <1>3, <1>4, <1>5, <1>6, <1>7, <1>8, <1>9, <1>10, <1>11, <1>12,
     <1>13, <1>14 DEF Next

(* The factories make no type, no operator and no node that is shared a     *)
(* second time (aoba/ir/composite_type_factory.cc:93,                       *)
(* aoba/ir/operator_factory.cc:140, aoba/ir/node_factory.cc:112): what a    *)
(* cache finds is the only one there is, so that types and shared nodes can *)
(* be compared by address.                                                  *)
THEOREM SharingCorrect == Spec => []NothingIsMadeTwice
<1>1. FactoryInv /\ NothingIsMadeTwice /\ [Next]_vars => NothingIsMadeTwice'
  BY NextMakesNothingTwice DEF FactoryInv
<1> QED BY <1>1, FactoryInvHolds, InitMakesNothingTwice, PTL DEF Spec
==============================================================================
