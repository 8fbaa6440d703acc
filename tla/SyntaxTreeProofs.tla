--------------------------- MODULE SyntaxTreeProofs ---------------------------
(***************************************************************************)
(* Theorems about SyntaxTree, for every script and every set of texts and  *)
(* numbers: what the caches return, what the iterators visit, and that     *)
(* accessors read what the factory stored.                                 *)
(***************************************************************************)
EXTENDS SyntaxTree, Induction, FiniteSetTheorems, SequenceTheorems, TLAPS

IsSequence(s) == Len(s) \in Nat /\ s = [i \in 1 .. Len(s) |-> s[i]]

LEMMA AppendToSequence ==
  ASSUME NEW s, IsSequence(s), NEW e
  PROVE  LET t == Append(s, e) IN
         /\ IsSequence(t)
         /\ DOMAIN t = DOMAIN s \cup {Len(s) + 1}
         /\ Len(t) = Len(s) + 1 /\ Len(s) + 1 \notin DOMAIN s
         /\ \A i \in DOMAIN s : t[i] = s[i]
         /\ t[Len(s) + 1] = e
<1>0. PICK t : t = Append(s, e)
  OBVIOUS
<1>1. PICK S : S = {s[i] : i \in 1 .. Len(s)} \cup {e}
  OBVIOUS
<1>2. Len(s) \in Nat /\ s \in [1 .. Len(s) -> S]
  BY <1>1 DEF IsSequence
<1>3. s \in Seq(S) /\ e \in S
  BY <1>1, <1>2
<1>4. t \in Seq(S)
  BY <1>0, <1>3
<1>5. /\ Len(t) = Len(s) + 1
      /\ \A i \in 1 .. Len(s) : t[i] = s[i]
      /\ t[Len(s) + 1] = e
  BY <1>0, <1>3, AppendProperties
<1>6. /\ Len(t) \in Nat /\ t \in [1 .. Len(t) -> S]
      /\ DOMAIN t = 1 .. Len(t) /\ DOMAIN s = 1 .. Len(s)
  BY <1>3, <1>4, LenProperties
<1>7. 1 .. Len(t) = 1 .. Len(s) \cup {Len(s) + 1} /\ Len(s) + 1 \notin 1 .. Len(s)
  BY <1>2, <1>5
<1>8. IsSequence(t)
  BY <1>6 DEF IsSequence
<1> QED BY <1>0, <1>5, <1>6, <1>7, <1>8

-----------------------------------------------------------------------------
(* The nodes and their syntaxes. *)

(* There is one record of what was given for each node, and the shared     *)
(* syntax of a node has the code that was asked for.                       *)
NodesAreGiven ==
  /\ IsSequence(nodes) /\ IsSequence(given) /\ IsSequence(syntaxes)
  /\ Len(given) = Len(nodes)
  /\ \A n \in DOMAIN nodes :
       nodes[n].syntax \in DOMAIN syntaxes /\ CodeOf(n) = given[n].code

(* What is made stays: nodes and syntaxes are only added.                  *)
NodesKept ==
  /\ DOMAIN nodes \subseteq DOMAIN nodes'
  /\ \A n \in DOMAIN nodes : nodes'[n] = nodes[n] /\ given'[n] = given[n]
  /\ DOMAIN syntaxes \subseteq DOMAIN syntaxes'
  /\ \A i \in DOMAIN syntaxes : syntaxes'[i] = syntaxes[i]

(* The node that is made last.                                             *)
NewNodeGiven(code, parameters, text) ==
  LET n == Len(nodes) + 1
      present == Find(code, parameters)
      syntax == nodes'[n].syntax
  IN  /\ DOMAIN nodes' = DOMAIN nodes \cup {n} /\ n \notin DOMAIN nodes
      /\ DOMAIN given' = DOMAIN nodes'
      /\ given'[n].code = code /\ given'[n].parameters = parameters
      /\ given'[n].text = text
      /\ present # {} => syntaxes' = syntaxes /\ syntax \in present
      /\ present = {} => /\ syntaxes' = Append(syntaxes, syntaxes'[syntax])
                         /\ syntax = Len(syntaxes) + 1
                         /\ syntaxes'[syntax] = [code |-> code, parameters |-> parameters]

LEMMA FoundHasCode ==
  ASSUME NEW code, NEW parameters, NEW i \in Find(code, parameters)
  PROVE  i \in DOMAIN syntaxes /\ syntaxes[i].code = code
<1>1. CASE code = "NumericLiteral"
  BY <1>1 DEF Find, FindNumber, FindLowerBound
<1>2. CASE code # "NumericLiteral"
  BY <1>2 DEF Find, FindExactly
<1> QED BY <1>1, <1>2

LEMMA NodeIsMade ==
  ASSUME NodesAreGiven, NEW code, NEW parameters, NEW arguments, NEW text,
         NewNodeOf(code, parameters, arguments, text)
  PROVE  NodesAreGiven' /\ NodesKept /\ NewNodeGiven(code, parameters, text)
<1>1. PICK n : n = Len(nodes) + 1
  OBVIOUS
<1>2. PICK present : present = Find(code, parameters)
  OBVIOUS
<1>3. PICK syntax : syntax = IF present = {} THEN Len(syntaxes) + 1
                             ELSE CHOOSE i \in present : TRUE
  OBVIOUS
<1>4. PICK children : children = ChildrenOf(FactoryOf(code), arguments)
  OBVIOUS
<1>5. /\ syntaxes' = IF present # {} THEN syntaxes
                     ELSE Append(syntaxes, [code |-> code, parameters |-> parameters])
      /\ nodes' = Append(nodes, [syntax |-> syntax, children |-> children])
      /\ given' = Append(given, [code |-> code, parameters |-> parameters,
                                 arguments |-> arguments, text |-> text])
  BY <1>2, <1>3, <1>4 DEF NewNodeOf
<1>6. /\ IsSequence(nodes') /\ Len(nodes') = n
      /\ DOMAIN nodes' = DOMAIN nodes \cup {n} /\ n \notin DOMAIN nodes
      /\ \A m \in DOMAIN nodes : nodes'[m] = nodes[m]
      /\ nodes'[n] = [syntax |-> syntax, children |-> children]
  <2>1. PICK new : new = [syntax |-> syntax, children |-> children]
    OBVIOUS
  <2>2. IsSequence(nodes) /\ nodes' = Append(nodes, new)
    BY <1>5, <2>1 DEF NodesAreGiven
  <2> QED BY <1>1, <2>1, <2>2, AppendToSequence
<1>7. Len(given) = Len(nodes) /\ DOMAIN given = DOMAIN nodes
  BY DEF NodesAreGiven, IsSequence
<1>8. /\ IsSequence(given') /\ Len(given') = n
      /\ DOMAIN given' = DOMAIN given \cup {n}
      /\ \A m \in DOMAIN given : given'[m] = given[m]
      /\ given'[n] = [code |-> code, parameters |-> parameters,
                      arguments |-> arguments, text |-> text]
  <2>1. PICK new : new = [code |-> code, parameters |-> parameters,
                          arguments |-> arguments, text |-> text]
    OBVIOUS
  <2>2. IsSequence(given) /\ given' = Append(given, new)
    BY <1>5, <2>1 DEF NodesAreGiven
  <2> QED BY <1>1, <1>7, <2>1, <2>2, AppendToSequence
<1>9. /\ IsSequence(syntaxes') /\ syntax \in DOMAIN syntaxes'
      /\ DOMAIN syntaxes \subseteq DOMAIN syntaxes'
      /\ \A i \in DOMAIN syntaxes : syntaxes'[i] = syntaxes[i]
      /\ syntaxes'[syntax].code = code
      /\ present # {} => syntaxes' = syntaxes /\ syntax \in present
      /\ present = {} => /\ syntaxes' = Append(syntaxes, syntaxes'[syntax])
                         /\ syntax = Len(syntaxes) + 1
                         /\ syntaxes'[syntax] = [code |-> code, parameters |-> parameters]
  <2>1. CASE present # {}
    <3>1. syntax \in present
      BY <1>3, <2>1
    <3> QED BY <1>2, <1>5, <2>1, <3>1, FoundHasCode DEF NodesAreGiven
  <2>2. CASE present = {}
    <3>1. PICK new : new = [code |-> code, parameters |-> parameters]
      OBVIOUS
    <3>2. syntaxes' = Append(syntaxes, new) /\ syntax = Len(syntaxes) + 1
      BY <1>3, <1>5, <2>2, <3>1
    <3>3. IsSequence(syntaxes)
      BY DEF NodesAreGiven
    <3>4. /\ IsSequence(syntaxes') /\ DOMAIN syntaxes' = DOMAIN syntaxes \cup {syntax}
          /\ \A i \in DOMAIN syntaxes : syntaxes'[i] = syntaxes[i]
          /\ syntaxes'[syntax] = new
      BY <3>2, <3>3, AppendToSequence
    <3> QED BY <2>2, <3>1, <3>2, <3>4
  <2> QED BY <2>1, <2>2
<1>10. nodes'[n].syntax = syntax
  BY <1>6
<1>11. NodesKept
  BY <1>6, <1>7, <1>8, <1>9 DEF NodesKept
<1>12. NewNodeGiven(code, parameters, text)
  BY <1>1, <1>2, <1>6, <1>8, <1>7, <1>9, <1>10 DEF NewNodeGiven
<1>13. ASSUME NEW m \in DOMAIN nodes'
       PROVE  nodes'[m].syntax \in DOMAIN syntaxes' /\ CodeOf(m)' = given'[m].code
  <2>1. CASE m \in DOMAIN nodes
    BY <1>6, <1>7, <1>8, <1>9, <2>1 DEF NodesAreGiven, CodeOf
  <2>2. CASE m = n
    BY <1>6, <1>8, <1>9, <1>10, <2>2 DEF CodeOf
  <2> QED BY <1>6, <1>13, <2>1, <2>2
<1>14. NodesAreGiven'
  BY <1>6, <1>8, <1>9, <1>13 DEF NodesAreGiven
<1> QED BY <1>11, <1>12, <1>14

LEMMA InitIsGiven ==
  ASSUME Init
  PROVE  /\ NodesAreGiven /\ DOMAIN nodes = {}
         /\ \A i \in DOMAIN syntaxes : syntaxes[i].code = "BooleanLiteral"
<1>1. PICK no, yes : /\ no = [code |-> "BooleanLiteral", parameters |-> <<0>>]
                     /\ yes = [code |-> "BooleanLiteral", parameters |-> <<1>>]
                     /\ syntaxes = <<no, yes>>
  BY DEF Init
<1>2. IsSequence(syntaxes) /\ DOMAIN syntaxes = {1, 2}
  <2>1. syntaxes \in Seq({no, yes}) /\ Len(syntaxes) = 2
    BY <1>1
  <2>2. DOMAIN syntaxes = 1 .. 2 /\ syntaxes = [i \in 1 .. 2 |-> syntaxes[i]]
    BY <2>1
  <2> QED BY <2>1, <2>2 DEF IsSequence
<1>3. nodes = <<>> /\ given = <<>> /\ DOMAIN nodes = {}
  BY DEF Init
<1>4. IsSequence(nodes) /\ IsSequence(given) /\ Len(given) = Len(nodes)
  BY <1>3 DEF IsSequence
<1> QED BY <1>1, <1>2, <1>3, <1>4 DEF NodesAreGiven

(* Which members of the factory a step calls.                              *)
LEMMA StepMakes ==
  ASSUME [Next]_vars
  PROVE  \/ UNCHANGED <<nodes, given, syntaxes, names, last_id>>
         \/ NewName \/ NewYieldStar \/ NewNumericLiteral
         \/ /\ UNCHANGED <<names, last_id>>
            /\ \E code, parameters, arguments, text :
                 /\ code \notin {"Name", "NumericLiteral"}
                 /\ NewNodeOf(code, parameters, arguments, text)
<1>1. CASE MakeNode
  <2>1. CASE NewPunctuator
    BY <2>1 DEF NewPunctuator
  <2>2. ASSUME script # <<>>,
               Head(script) \notin {"Name", "YieldStar", "Punctuator", "NumericLiteral"},
               NewOther(Head(script))
        PROVE  /\ UNCHANGED <<names, last_id>>
               /\ \E code, parameters, arguments, text :
                    /\ code \notin {"Name", "NumericLiteral"}
                    /\ NewNodeOf(code, parameters, arguments, text)
    BY <2>2 DEF NewOther
  <2> QED BY <1>1, <2>1, <2>2 DEF MakeNode
<1>2. CASE BeginWalk \/ Visit \/ UNCHANGED vars
  BY <1>2 DEF BeginWalk, Visit, vars
<1> QED BY <1>1, <1>2 DEF Next

(* What is known of a node does not change.                                *)
LEMMA NodesStay ==
  ASSUME NodesAreGiven, NodesKept, NEW n \in DOMAIN nodes
  PROVE  /\ n \in DOMAIN nodes' /\ given'[n] = given[n]
         /\ CodeOf(n)' = CodeOf(n) /\ NumberOf(n)' = NumberOf(n)
BY DEF NodesAreGiven, NodesKept, CodeOf, NumberOf

-----------------------------------------------------------------------------
(* Numbers. *)

NumberSyntaxes == {i \in DOMAIN syntaxes : syntaxes[i].code = "NumericLiteral"}
ValueOf(i) == syntaxes[i].parameters[1]
FirstIsNumber == given[FirstNumericLiteral].parameters[1] # NaN

(* Unless the first number was NaN there is no NaN in the map: it finds    *)
(* the least number that is there.                                         *)
NumbersInv ==
  /\ NodesAreGiven
  /\ \A i \in NumberSyntaxes : ValueOf(i) \in Numbers
  /\ NumericLiterals = {} => NumberSyntaxes = {}
  /\ NumericLiterals # {} /\ FirstIsNumber => \A i \in NumberSyntaxes : ValueOf(i) # NaN
  /\ NumbersKeepTheirValue

LEMMA FirstIsLeast ==
  ASSUME NodesAreGiven, NumericLiterals # {}
  PROVE  /\ FirstNumericLiteral \in NumericLiterals
         /\ \A m \in NumericLiterals : FirstNumericLiteral <= m
<1>1. NumericLiterals \subseteq Nat
  BY DEF NodesAreGiven, IsSequence, NumericLiterals
<1>2. \E n \in NumericLiterals : \A m \in NumericLiterals : n <= m
  BY <1>1, SmallestOf
<1> QED BY <1>2 DEF FirstNumericLiteral

(* The first number remains the first.                                     *)
LEMMA FirstStays ==
  ASSUME NodesAreGiven, NodesAreGiven', NodesKept, NumericLiterals # {},
         NEW n, DOMAIN nodes' \subseteq DOMAIN nodes \cup {n}, n = Len(nodes) + 1
  PROVE  /\ FirstNumericLiteral' = FirstNumericLiteral
         /\ FirstIsNumber' = FirstIsNumber
<1>1. PICK f : f = FirstNumericLiteral
  OBVIOUS
<1>2. f \in NumericLiterals /\ \A m \in NumericLiterals : f <= m
  BY <1>1, FirstIsLeast
<1>3. NumericLiterals \subseteq NumericLiterals'
  BY NodesStay DEF NumericLiterals
<1>4. NumericLiterals' \subseteq NumericLiterals \cup {n}
  BY NodesStay DEF NumericLiterals
<1>5. NumericLiterals' \subseteq Nat
  BY DEF NodesAreGiven, IsSequence, NumericLiterals
<1>6. f <= n
  BY <1>2 DEF NodesAreGiven, IsSequence, NumericLiterals
<1>7. f \in NumericLiterals' /\ \A m \in NumericLiterals' : f <= m
  BY <1>2, <1>3, <1>4, <1>6
<1>8. PICK g : g = FirstNumericLiteral'
  OBVIOUS
<1>9. g \in NumericLiterals' /\ \A m \in NumericLiterals' : g <= m
  <2>1. \E k \in NumericLiterals' : \A m \in NumericLiterals' : k <= m
    BY <1>7
  <2> QED BY <1>8, <2>1 DEF FirstNumericLiteral
<1>10. g = f
  BY <1>5, <1>7, <1>9
<1>11. given'[f] = given[f]
  BY <1>2 DEF NodesKept, NumericLiterals
<1> QED BY <1>1, <1>8, <1>10, <1>11 DEF FirstIsNumber

(* Nothing but a number disturbs the numbers.                              *)
LEMMA OthersKeepNumbers ==
  ASSUME NumbersInv, NEW code, NEW parameters, NEW arguments, NEW text,
         code # "NumericLiteral", NewNodeOf(code, parameters, arguments, text)
  PROVE  NumbersInv'
<1>1. NodesAreGiven' /\ NodesKept /\ NewNodeGiven(code, parameters, text)
  BY NodeIsMade DEF NumbersInv
<1>2. PICK n : n = Len(nodes) + 1
  OBVIOUS
<1>3. DOMAIN nodes' = DOMAIN nodes \cup {n} /\ CodeOf(n)' = code
  BY <1>1, <1>2 DEF NewNodeGiven, NodesAreGiven
<1>4. NumericLiterals' = NumericLiterals
  BY <1>1, <1>3, NodesStay DEF NumericLiterals, NumbersInv
<1>5. NumberSyntaxes' = NumberSyntaxes
  <2>1. CASE syntaxes' = syntaxes
    BY <2>1 DEF NumberSyntaxes
  <2>2. CASE syntaxes' # syntaxes
    <3>1. PICK new : new = syntaxes'[nodes'[n].syntax]
      OBVIOUS
    <3>2. syntaxes' = Append(syntaxes, new) /\ new.code = code
      BY <1>1, <1>2, <2>2, <3>1 DEF NewNodeGiven
    <3>3. IsSequence(syntaxes)
      BY DEF NumbersInv, NodesAreGiven
    <3>4. /\ DOMAIN syntaxes' = DOMAIN syntaxes \cup {Len(syntaxes) + 1}
          /\ \A i \in DOMAIN syntaxes : syntaxes'[i] = syntaxes[i]
          /\ syntaxes'[Len(syntaxes) + 1] = new
      BY <3>2, <3>3, AppendToSequence
    <3> QED BY <3>2, <3>4 DEF NumberSyntaxes
  <2> QED BY <2>1, <2>2
<1>6. \A i \in NumberSyntaxes : ValueOf(i)' = ValueOf(i)
  BY <1>1 DEF NodesKept, NumberSyntaxes, ValueOf
<1>7. NumericLiterals # {} => FirstNumericLiteral' = FirstNumericLiteral
                              /\ FirstIsNumber' = FirstIsNumber
  BY <1>1, <1>2, <1>3, FirstStays DEF NumbersInv
<1>8. \A m \in NumericLiterals : NumberOf(m)' = NumberOf(m) /\ given'[m] = given[m]
  BY <1>1, NodesStay DEF NumericLiterals, NumbersInv
<1>9. NumbersKeepTheirValue'
  BY <1>4, <1>7, <1>8 DEF NumbersInv, NumbersKeepTheirValue, FirstIsNumber
<1> QED BY <1>1, <1>4, <1>5, <1>6, <1>7, <1>9 DEF NumbersInv

(* In a map of numbers, NaN finds the least and a number only itself.      *)
LEMMA NaNFindsSome ==
  ASSUME NumbersInv, NumberSyntaxes # {}, \A i \in NumberSyntaxes : ValueOf(i) # NaN
  PROVE  FindNumber(NaN) # {}
<1>1. PICK values : values = {ValueOf(i) : i \in NumberSyntaxes}
  OBVIOUS
<1>2. values \subseteq Nat /\ values # {} /\ NaN \notin values
  BY <1>1, SyntaxTreeAssumption DEF NumbersInv
<1>3. PICK v \in values : \A w \in values : v <= w
  BY <1>2, SmallestOf
<1>4. v \in LowerBound(values, NaN)
  BY <1>2, <1>3 DEF LowerBound, Less
<1>5. PICK i \in NumberSyntaxes : ValueOf(i) = v
  BY <1>1
<1>6. i \in FindLowerBound(NaN)
  BY <1>1, <1>4, <1>5 DEF FindLowerBound, NumberSyntaxes, ValueOf
<1> QED BY <1>6 DEF FindNumber, Less

LEMMA NumberFindsItself ==
  ASSUME NumbersInv, \A i \in NumberSyntaxes : ValueOf(i) # NaN,
         NEW v \in Numbers, v # NaN, NEW i \in FindNumber(v)
  PROVE  i \in NumberSyntaxes /\ ValueOf(i) = v
<1>1. i \in NumberSyntaxes
  BY DEF FindNumber, FindLowerBound, NumberSyntaxes
<1>2. ~ Less(ValueOf(i), v)
  BY DEF FindNumber, FindLowerBound, LowerBound, ValueOf
<1>3. ~ Less(v, ValueOf(i))
  BY DEF FindNumber, ValueOf
<1>4. ValueOf(i) \in Nat /\ v \in Nat /\ ValueOf(i) # NaN
  BY <1>1, SyntaxTreeAssumption DEF NumbersInv
<1> QED BY <1>1, <1>2, <1>3, <1>4 DEF Less

LEMMA NumberKeepsNumbers ==
  ASSUME NumbersInv, NEW v \in Numbers, NEW arguments, NEW text,
         NewNodeOf("NumericLiteral", <<v>>, arguments, text)
  PROVE  NumbersInv'
<1>1. NodesAreGiven' /\ NodesKept /\ NewNodeGiven("NumericLiteral", <<v>>, text)
  BY NodeIsMade DEF NumbersInv
<1>2. PICK n : n = Len(nodes) + 1
  OBVIOUS
<1>3. PICK new : new = nodes'[n].syntax
  OBVIOUS
<1>4. PICK present : present = FindNumber(v)
  OBVIOUS
<1>5. present = Find("NumericLiteral", <<v>>)
  BY <1>4 DEF Find
<1>6. /\ DOMAIN nodes' = DOMAIN nodes \cup {n} /\ n \notin DOMAIN nodes
      /\ given'[n].parameters = <<v>>
      /\ present # {} => syntaxes' = syntaxes /\ new \in present
      /\ present = {} => /\ syntaxes' = Append(syntaxes, syntaxes'[new])
                         /\ new = Len(syntaxes) + 1
                         /\ syntaxes'[new] = [code |-> "NumericLiteral", parameters |-> <<v>>]
  BY <1>1, <1>2, <1>3, <1>5 DEF NewNodeGiven
<1>7. CodeOf(n)' = "NumericLiteral" /\ NumberOf(n)' = ValueOf(new)'
  BY <1>1, <1>2, <1>3 DEF NewNodeGiven, NodesAreGiven, NumberOf, ValueOf
<1>8. NumericLiterals' = NumericLiterals \cup {n}
  BY <1>1, <1>6, <1>7, NodesStay DEF NumericLiterals, NumbersInv
<1>9. CASE present # {}
  <2>1. NumberSyntaxes' = NumberSyntaxes /\ \A i : ValueOf(i)' = ValueOf(i)
    BY <1>6, <1>9 DEF NumberSyntaxes, ValueOf
  <2>2. NumberSyntaxes # {}
    BY <1>4, <1>9 DEF FindNumber, FindLowerBound, NumberSyntaxes
  <2>3. NumericLiterals # {}
    BY <2>2 DEF NumbersInv
  <2>4. /\ FirstNumericLiteral' = FirstNumericLiteral
        /\ FirstIsNumber' = FirstIsNumber
    BY <1>1, <1>2, <1>6, <2>3, FirstStays DEF NumbersInv
  <2>5. ASSUME v # NaN, FirstIsNumber
        PROVE  NumberOf(n)' = v
    BY <1>4, <1>6, <1>7, <1>9, <2>1, <2>3, <2>5, NumberFindsItself DEF NumbersInv
  <2>6. \A m \in NumericLiterals : NumberOf(m)' = NumberOf(m) /\ given'[m] = given[m]
    BY <1>1, NodesStay DEF NumericLiterals, NumbersInv
  <2>7. given'[n].parameters[1] = v
    BY <1>6
  <2>8. ASSUME NEW m \in NumericLiterals', given'[m].parameters[1] # NaN, FirstIsNumber
        PROVE  NumberOf(m)' = given'[m].parameters[1]
    <3>1. CASE m = n
      BY <2>5, <2>7, <2>8, <3>1
    <3>2. CASE m \in NumericLiterals
      BY <2>6, <2>8, <3>2 DEF NumbersInv, NumbersKeepTheirValue, FirstIsNumber
    <3> QED BY <1>8, <2>8, <3>1, <3>2
  <2>9. NumbersKeepTheirValue'
    BY <2>4, <2>8 DEF NumbersKeepTheirValue, FirstIsNumber
  <2> QED BY <1>1, <1>8, <2>1, <2>3, <2>4, <2>9 DEF NumbersInv
<1>10. CASE present = {}
  <2>1. PICK s : s = [code |-> "NumericLiteral", parameters |-> <<v>>]
    OBVIOUS
  <2>2. IsSequence(syntaxes) /\ syntaxes' = Append(syntaxes, s) /\ new = Len(syntaxes) + 1
    BY <1>6, <1>10, <2>1 DEF NumbersInv, NodesAreGiven
  <2>3. /\ DOMAIN syntaxes' = DOMAIN syntaxes \cup {new} /\ new \notin DOMAIN syntaxes
        /\ \A i \in DOMAIN syntaxes : syntaxes'[i] = syntaxes[i]
        /\ syntaxes'[new] = s
    BY <2>2, AppendToSequence
  <2>4. NumberSyntaxes' = NumberSyntaxes \cup {new} /\ ValueOf(new)' = v
    BY <2>1, <2>3 DEF NumberSyntaxes, ValueOf
  <2>5. \A i \in NumberSyntaxes : ValueOf(i)' = ValueOf(i)
    BY <2>3 DEF NumberSyntaxes, ValueOf
  <2>6. NumberOf(n)' = v /\ given'[n].parameters[1] = v
    BY <1>6, <1>7, <2>4
  <2>7. \A i \in NumberSyntaxes' : ValueOf(i)' \in Numbers
    BY <2>4, <2>5 DEF NumbersInv
  <2>8. CASE NumericLiterals = {}
    <3>1. NumericLiterals' = {n} /\ NumberSyntaxes' = {new}
      BY <1>8, <2>4, <2>8 DEF NumbersInv
    <3>2. FirstNumericLiteral' = n
      <4>1. n <= n
        BY <1>2 DEF NumbersInv, NodesAreGiven, IsSequence
      <4> QED BY <3>1, <4>1 DEF FirstNumericLiteral
    <3>3. FirstIsNumber' <=> v # NaN
      BY <2>6, <3>2 DEF FirstIsNumber
    <3>4. NumbersKeepTheirValue'
      BY <2>6, <3>1 DEF NumbersKeepTheirValue
    <3> QED BY <1>1, <2>4, <2>7, <3>1, <3>3, <3>4 DEF NumbersInv
  <2>9. CASE NumericLiterals # {}
    <3>1. /\ FirstNumericLiteral' = FirstNumericLiteral
          /\ FirstIsNumber' = FirstIsNumber
      BY <1>1, <1>2, <1>6, <2>9, FirstStays DEF NumbersInv
    <3>2. FirstIsNumber => v # NaN
      <4>1. NumberSyntaxes # {}
        BY <2>9 DEF NumericLiterals, NumbersInv, NodesAreGiven, NumberSyntaxes, CodeOf
      <4> QED BY <1>4, <1>10, <2>9, <4>1, NaNFindsSome DEF NumbersInv
    <3>3. FirstIsNumber => \A i \in NumberSyntaxes' : ValueOf(i)' # NaN
      BY <2>4, <2>5, <2>9, <3>2 DEF NumbersInv
    <3>4. \A m \in NumericLiterals : NumberOf(m)' = NumberOf(m) /\ given'[m] = given[m]
      BY <1>1, NodesStay DEF NumericLiterals, NumbersInv
    <3>5. ASSUME NEW m \in NumericLiterals', given'[m].parameters[1] # NaN, FirstIsNumber
          PROVE  NumberOf(m)' = given'[m].parameters[1]
      <4>1. CASE m = n
        BY <2>6, <4>1
      <4>2. CASE m \in NumericLiterals
        BY <3>4, <3>5, <4>2 DEF NumbersInv, NumbersKeepTheirValue, FirstIsNumber
      <4> QED BY <1>8, <3>5, <4>1, <4>2
    <3>6. NumbersKeepTheirValue'
      BY <3>1, <3>5 DEF NumbersKeepTheirValue, FirstIsNumber
    <3> QED BY <1>1, <1>8, <2>7, <3>1, <3>3, <3>6 DEF NumbersInv
  <2> QED BY <2>8, <2>9
<1> QED BY <1>9, <1>10

(* For every program and all its numbers, a number keeps its value although *)
(* the map may be asked for NaN.                                           *)
THEOREM NumbersCorrect == Spec => []NumbersKeepTheirValue
<1>1. Init => NumbersInv
  <2> SUFFICES ASSUME Init PROVE NumbersInv
    OBVIOUS
  <2>1. NodesAreGiven /\ NumberSyntaxes = {} /\ NumericLiterals = {}
    BY InitIsGiven DEF NumberSyntaxes, NumericLiterals
  <2> QED BY <2>1 DEF NumbersInv, NumbersKeepTheirValue
<1>2. ASSUME NumbersInv, [Next]_vars
      PROVE  NumbersInv'
  <2>1. CASE UNCHANGED <<nodes, given, syntaxes, names, last_id>>
    BY <1>2, <2>1 DEF NumbersInv, NodesAreGiven, NumbersKeepTheirValue, NumberSyntaxes,
       ValueOf, FirstIsNumber, FirstNumericLiteral, NumericLiterals, CodeOf, NumberOf
  <2>2. CASE NewName \/ NewYieldStar
    BY <1>2, <2>2, OthersKeepNumbers DEF NewName, NewYieldStar
  <2>3. CASE NewNumericLiteral
    BY <1>2, <2>3, NumberKeepsNumbers DEF NewNumericLiteral
  <2>4. ASSUME NEW code, NEW parameters, NEW arguments, NEW text,
               code \notin {"Name", "NumericLiteral"},
               NewNodeOf(code, parameters, arguments, text)
        PROVE  NumbersInv'
    BY <1>2, <2>4, OthersKeepNumbers
  <2> QED BY <1>2, <2>1, <2>2, <2>3, <2>4, StepMakes
<1>3. NumbersInv => NumbersKeepTheirValue
  BY DEF NumbersInv
<1> QED BY <1>1, <1>2, <1>3, PTL DEF Spec

-----------------------------------------------------------------------------
(* Names. *)

(* A text has one number and a number one text; they were given in order.  *)
IsNameMap(ids, last) ==
  /\ last \in Nat
  /\ \A e \in ids : e = <<e[1], e[2]>> /\ e[2] \in Nat /\ e[2] <= last
  /\ \A e, f \in ids : e[1] = f[1] \/ e[2] = f[2] => e = f

Numbered(ids, start, list) == \A i \in DOMAIN list : <<list[i], start + i>> \in ids

Distinct(list) == \A i, j \in DOMAIN list : list[i] = list[j] => i = j

(* The lists of words, by their lengths: no word stands twice.             *)
LEMMA Words ==
  /\ Len(Keywords) = 47 /\ DOMAIN Keywords = 1 .. 47
  /\ Len(KnownWords) = 29 /\ DOMAIN KnownWords = 1 .. 29
  /\ Len(TagNames) = 41 /\ DOMAIN TagNames = 1 .. 41
BY DEF Keywords, KnownWords, TagNames

LEMMA WordsAreDistinct ==
  Distinct(Keywords) /\ Distinct(KnownWords) /\ Distinct(TagNames)
<1>1. Distinct(Keywords)
  BY DEF Distinct, Keywords
<1>2. Distinct(KnownWords)
  BY DEF Distinct, KnownWords
<1>3. Distinct(TagNames)
  BY DEF Distinct, TagNames
<1> QED BY <1>1, <1>2, <1>3

LEMMA ListsAreDisjoint ==
  /\ \A i \in 1 .. 47, j \in 1 .. 29 : Keywords[i] # KnownWords[j]
  /\ \A i \in 1 .. 47, j \in 1 .. 41 : Keywords[i] # TagNames[j]
  /\ \A i \in 1 .. 29, j \in 1 .. 41 : KnownWords[i] # TagNames[j]
<1>1. \A i \in 1 .. 47, j \in 1 .. 29 : Keywords[i] # KnownWords[j]
  BY DEF Keywords, KnownWords
<1>2. \A i \in 1 .. 47, j \in 1 .. 41 : Keywords[i] # TagNames[j]
  BY DEF Keywords, TagNames
<1>3. \A i \in 1 .. 29, j \in 1 .. 41 : KnownWords[i] # TagNames[j]
  BY DEF KnownWords, TagNames
<1> QED BY <1>1, <1>2, <1>3

LEMMA YieldStarIsNoWord ==
  /\ \A i \in 1 .. 47 : Keywords[i] # "yield*"
  /\ \A i \in 1 .. 29 : KnownWords[i] # "yield*"
  /\ \A i \in 1 .. 41 : TagNames[i] # "yield*"
  /\ Keywords[47] = "yield_star"
<1>1. \A i \in 1 .. 47 : Keywords[i] # "yield*"
  BY DEF Keywords
<1>2. \A i \in 1 .. 29 : KnownWords[i] # "yield*"
  BY DEF KnownWords
<1>3. \A i \in 1 .. 41 : TagNames[i] # "yield*"
  BY DEF TagNames
<1>4. Keywords[47] = "yield_star"
  BY DEF Keywords
<1> QED BY <1>1, <1>2, <1>3, <1>4

(* A list of n new words is numbered from start.                           *)
NumbersFrom(ids, start, list, n, made) ==
  /\ IsNameMap(made.ids, made.last) /\ made.last = start + n
  /\ ids \subseteq made.ids /\ Numbered(made.ids, start, list)
  /\ \A e \in made.ids : e \in ids \/ \E i \in 1 .. n : e[1] = list[i]

LEMMA RegisterListNumbers ==
  ASSUME NEW map, IsNameMap(map.ids, map.last),
         NEW start \in Nat, map.last <= start,
         NEW list, NEW n \in Nat, DOMAIN list = 1 .. n, Distinct(list),
         \A e \in map.ids, i \in 1 .. n : e[1] # list[i]
  PROVE  NumbersFrom(map.ids, start, list, n, RegisterList(map, start, list))
<1>0. PICK ids, last, made : /\ ids = map.ids /\ last = map.last
                             /\ made = RegisterList(map, start, list)
  OBVIOUS
<1>1. PICK new : new = {i \in DOMAIN list : /\ \A e \in map.ids : e[1] # list[i]
                                            /\ \A j \in 1 .. (i - 1) : list[j] # list[i]}
  OBVIOUS
<1>2. new = 1 .. n
  BY <1>1 DEF Distinct
<1>3. ASSUME NEW i \in 0 .. n
      PROVE  Cardinality({j \in new : j <= i}) = i
  <2>1. {j \in new : j <= i} = 1 .. i
    BY <1>2
  <2>2. Cardinality(1 .. i) = i
    BY FS_Interval
  <2> QED BY <2>1, <2>2
<1>4. PICK id : id = [i \in new |-> start + Cardinality({j \in new : j <= i})]
  OBVIOUS
<1>5. \A i \in 1 .. n : id[i] = start + i
  BY <1>2, <1>3, <1>4
<1>6. Cardinality(new) = n
  BY <1>2, FS_Interval
<1>7. made = [ids |-> map.ids \cup {<<list[i], id[i]>> : i \in new},
              last |-> start + Cardinality(new)]
  BY <1>0, <1>1, <1>4 DEF RegisterList
<1>8. made.last = start + n /\ made.ids = ids \cup {<<list[i], id[i]>> : i \in 1 .. n}
  BY <1>0, <1>2, <1>6, <1>7
<1>9. \A e \in made.ids : e \in ids \/ \E i \in 1 .. n : e = <<list[i], start + i>>
  BY <1>5, <1>8
<1>10. \A i \in 1 .. n : <<list[i], start + i>> \in made.ids
  BY <1>5, <1>8
<1>11. ASSUME NEW e \in made.ids
       PROVE  e = <<e[1], e[2]>> /\ e[2] \in Nat /\ e[2] <= made.last
  <2>1. CASE e \in ids
    BY <1>0, <1>8, <2>1 DEF IsNameMap
  <2>2. ASSUME NEW i \in 1 .. n, e = <<list[i], start + i>>
        PROVE  e = <<e[1], e[2]>> /\ e[2] \in Nat /\ e[2] <= made.last
    BY <1>8, <2>2
  <2> QED BY <1>9, <2>1, <2>2
<1>12. ASSUME NEW e \in made.ids, NEW f \in made.ids, e[1] = f[1] \/ e[2] = f[2]
       PROVE  e = f
  <2>1. CASE e \in ids /\ f \in ids
    BY <1>0, <1>12, <2>1 DEF IsNameMap
  <2>2. ASSUME NEW g \in ids, NEW i \in 1 .. n
        PROVE  g[1] # list[i] /\ g[2] # start + i
    BY <1>0 DEF IsNameMap
  <2>3. ASSUME NEW i \in 1 .. n, NEW j \in 1 .. n,
               e = <<list[i], start + i>>, f = <<list[j], start + j>>
        PROVE  e = f
    <3>1. list[i] = list[j] \/ start + i = start + j
      BY <1>12, <2>3
    <3>2. i = j
      BY <3>1 DEF Distinct
    <3> QED BY <2>3, <3>2
  <2>4. ASSUME NEW i \in 1 .. n, e = <<list[i], start + i>>, f \in ids
        PROVE  FALSE
    BY <1>12, <2>2, <2>4
  <2>5. ASSUME NEW i \in 1 .. n, f = <<list[i], start + i>>, e \in ids
        PROVE  FALSE
    BY <1>12, <2>2, <2>5
  <2> QED BY <1>9, <2>1, <2>3, <2>4, <2>5
<1>13. IsNameMap(made.ids, made.last)
  BY <1>0, <1>8, <1>11, <1>12 DEF IsNameMap
<1> QED BY <1>0, <1>8, <1>9, <1>10, <1>13 DEF Numbered, NumbersFrom

(* The words of the three lists have the numbers of their token kinds.     *)
WordsAreNumbered(ids) ==
  /\ Numbered(ids, StartOfKeyword, Keywords)
  /\ Numbered(ids, StartOfKnownWord, KnownWords)
  /\ Numbered(ids, StartOfJsDocTagName, TagNames)

LEMMA PopulateNumbersWords ==
  IsNameMap(Populate.ids, Populate.last) /\ WordsAreNumbered(Populate.ids)
<1>1. StartOfKeyword = 56 /\ StartOfKnownWord = 105 /\ StartOfJsDocTagName = 136
  BY Words DEF StartOfKeyword, StartOfKnownWord, StartOfJsDocTagName, EndOfKeyword,
     EndOfKnownWord, NumberOfPunctuators
<1>2. PICK first : first = RegisterList(NoNames, StartOfKeyword, Keywords)
  OBVIOUS
<1>3. PICK second : second = RegisterList(first, StartOfKnownWord, KnownWords)
  OBVIOUS
<1>4. PICK third : third = RegisterList(second, StartOfJsDocTagName, TagNames)
  OBVIOUS
<1>5. third = Populate
  BY <1>2, <1>3, <1>4 DEF Populate
<1>6. /\ IsNameMap(first.ids, first.last) /\ first.last = 103
      /\ Numbered(first.ids, StartOfKeyword, Keywords)
      /\ \A e \in first.ids : \E i \in 1 .. 47 : e[1] = Keywords[i]
  <2>1. NoNames.ids = {} /\ NoNames.last = 0 /\ IsNameMap({}, 0)
    BY DEF NoNames, IsNameMap
  <2>2. NumbersFrom({}, StartOfKeyword, Keywords, 47, first)
    <3>1. PICK start, list, n : start = StartOfKeyword /\ list = Keywords /\ n = 47
      OBVIOUS
    <3>2. start \in Nat /\ n \in Nat /\ NoNames.last <= start
      BY <1>1, <2>1, <3>1
    <3>3. DOMAIN list = 1 .. n /\ Distinct(list)
      BY <3>1, Words, WordsAreDistinct
    <3>4. \A e \in NoNames.ids, i \in 1 .. n : e[1] # list[i]
      BY <2>1, <3>1
    <3>5. IsNameMap(NoNames.ids, NoNames.last)
      BY <2>1
    <3>6. NumbersFrom(NoNames.ids, start, list, n, RegisterList(NoNames, start, list))
      BY <3>2, <3>3, <3>4, <3>5, RegisterListNumbers
    <3> QED BY <1>2, <2>1, <3>1, <3>6
  <2> QED BY <1>1, <2>2 DEF NumbersFrom
<1>7. /\ IsNameMap(second.ids, second.last) /\ second.last = 134
      /\ first.ids \subseteq second.ids
      /\ Numbered(second.ids, StartOfKnownWord, KnownWords)
      /\ \A e \in second.ids : e \in first.ids \/ \E i \in 1 .. 29 : e[1] = KnownWords[i]
  <2>1. ASSUME NEW e \in first.ids, NEW i \in 1 .. 29
        PROVE  e[1] # KnownWords[i]
    <3>1. PICK k \in 1 .. 47 : e[1] = Keywords[k]
      BY <1>6
    <3> QED BY <3>1, ListsAreDisjoint
  <2>2. NumbersFrom(first.ids, StartOfKnownWord, KnownWords, 29, second)
    <3>1. PICK start, list, n : start = StartOfKnownWord /\ list = KnownWords /\ n = 29
      OBVIOUS
    <3>2. start \in Nat /\ n \in Nat /\ first.last <= start
      BY <1>1, <1>6, <3>1
    <3>3. DOMAIN list = 1 .. n /\ Distinct(list)
      BY <3>1, Words, WordsAreDistinct
    <3>4. \A e \in first.ids, i \in 1 .. n : e[1] # list[i]
      BY <2>1, <3>1
    <3>5. IsNameMap(first.ids, first.last)
      BY <1>6
    <3>6. NumbersFrom(first.ids, start, list, n, RegisterList(first, start, list))
      BY <3>2, <3>3, <3>4, <3>5, RegisterListNumbers
    <3> QED BY <1>3, <2>1, <3>1, <3>6
  <2> QED BY <1>1, <2>2 DEF NumbersFrom
<1>8. /\ IsNameMap(third.ids, third.last)
      /\ second.ids \subseteq third.ids
      /\ Numbered(third.ids, StartOfJsDocTagName, TagNames)
  <2>1. ASSUME NEW e \in second.ids, NEW i \in 1 .. 41
        PROVE  e[1] # TagNames[i]
    <3>1. CASE e \in first.ids
      <4>1. PICK k \in 1 .. 47 : e[1] = Keywords[k]
        BY <1>6, <3>1
      <4> QED BY <4>1, ListsAreDisjoint
    <3>2. CASE e \notin first.ids
      <4>1. PICK k \in 1 .. 29 : e[1] = KnownWords[k]
        BY <1>7, <3>2
      <4> QED BY <4>1, ListsAreDisjoint
    <3> QED BY <3>1, <3>2
  <2>2. NumbersFrom(second.ids, StartOfJsDocTagName, TagNames, 41, third)
    <3>1. PICK start, list, n : start = StartOfJsDocTagName /\ list = TagNames /\ n = 41
      OBVIOUS
    <3>2. start \in Nat /\ n \in Nat /\ second.last <= start
      BY <1>1, <1>7, <3>1
    <3>3. DOMAIN list = 1 .. n /\ Distinct(list)
      BY <3>1, Words, WordsAreDistinct
    <3>4. \A e \in second.ids, i \in 1 .. n : e[1] # list[i]
      BY <2>1, <3>1
    <3>5. IsNameMap(second.ids, second.last)
      BY <1>7
    <3>6. NumbersFrom(second.ids, start, list, n, RegisterList(second, start, list))
      BY <3>2, <3>3, <3>4, <3>5, RegisterListNumbers
    <3> QED BY <1>4, <2>1, <3>1, <3>6
  <2> QED BY <2>2 DEF NumbersFrom
<1> QED BY <1>5, <1>6, <1>7, <1>8 DEF WordsAreNumbered, Numbered

LEMMA RegisterNumbers ==
  ASSUME NEW ids, NEW last, IsNameMap(ids, last), NEW text,
         NEW map, map = Register([ids |-> ids, last |-> last], text)
  PROVE  /\ IsNameMap(map.ids, map.last) /\ ids \subseteq map.ids
         /\ <<text, IdOf(map, text)>> \in map.ids
<1>1. CASE \E e \in ids : e[1] = text
  <2>1. map.ids = ids /\ map.last = last
    BY <1>1 DEF Register
  <2>2. PICK e : e = CHOOSE entry \in ids : entry[1] = text
    OBVIOUS
  <2>3. e \in ids /\ e[1] = text
    BY <1>1, <2>2
  <2>4. IdOf(map, text) = e[2]
    BY <2>1, <2>2 DEF IdOf
  <2> QED BY <2>1, <2>3, <2>4 DEF IsNameMap
<1>2. CASE ~ \E e \in ids : e[1] = text
  <2>1. PICK new : new = <<text, last + 1>>
    OBVIOUS
  <2>2. {entry \in ids : entry[1] # text} = ids
    BY <1>2
  <2>3. map = [ids |-> ids \cup {new}, last |-> last + 1]
    BY <1>2, <2>1, <2>2 DEF Register, RegisterAlways
  <2>4. map.ids = ids \cup {new} /\ map.last = last + 1
    BY <2>3
  <2>5. last \in Nat
    BY DEF IsNameMap
  <2>6. \A e \in ids : e[1] # new[1] /\ e[2] # new[2]
    BY <1>2, <2>1, <2>5 DEF IsNameMap
  <2>7. new = <<new[1], new[2]>> /\ new[2] \in Nat /\ new[2] <= last + 1
    BY <2>1, <2>5
  <2>8. IsNameMap(map.ids, map.last)
    BY <2>4, <2>5, <2>6, <2>7 DEF IsNameMap
  <2>9. PICK e : e = CHOOSE entry \in map.ids : entry[1] = text
    OBVIOUS
  <2>10. e \in map.ids /\ e[1] = text
    BY <2>1, <2>4, <2>9
  <2>11. e = new
    BY <1>2, <2>4, <2>10
  <2>12. IdOf(map, text) = e[2]
    BY <2>9 DEF IdOf
  <2> QED BY <2>1, <2>4, <2>8, <2>11, <2>12
<1> QED BY <1>1, <1>2

(* A name node has the number that the map has for its text; the one that  *)
(* the parser makes of yield and a star has none.                          *)
Named == {n \in DOMAIN nodes : CodeOf(n) = "Name"}

NameIsNumbered(n) ==
  IF given[n].text = "yield*" THEN NumberOf(n) = YieldStar
                              ELSE <<given[n].text, NumberOf(n)>> \in names

NamesInv ==
  /\ NodesAreGiven
  /\ IsNameMap(names, last_id) /\ WordsAreNumbered(names)
  /\ \A n \in Named : NameIsNumbered(n)

LEMMA NodeKeepsNames ==
  ASSUME NamesInv, IsNameMap(names, last_id)', names \subseteq names',
         NEW code, NEW parameters, NEW arguments, NEW text,
         NewNodeOf(code, parameters, arguments, text),
         code = "Name" =>
           IF text = "yield*" THEN parameters[1] = YieldStar
                              ELSE <<text, parameters[1]>> \in names'
  PROVE  NamesInv'
<1>1. NodesAreGiven' /\ NodesKept /\ NewNodeGiven(code, parameters, text)
  BY NodeIsMade DEF NamesInv
<1>2. PICK n : n = Len(nodes) + 1
  OBVIOUS
<1>3. /\ DOMAIN nodes' = DOMAIN nodes \cup {n}
      /\ CodeOf(n)' = code /\ given'[n].text = text
  BY <1>1, <1>2 DEF NewNodeGiven, NodesAreGiven
<1>4. WordsAreNumbered(names)'
  BY DEF NamesInv, WordsAreNumbered, Numbered
<1>5. ASSUME NEW m \in Named', m \in DOMAIN nodes
      PROVE  NameIsNumbered(m)'
  <2>1. CodeOf(m)' = CodeOf(m) /\ NumberOf(m)' = NumberOf(m) /\ given'[m] = given[m]
    BY <1>1, <1>5, NodesStay DEF NamesInv
  <2>2. NameIsNumbered(m)
    BY <1>5, <2>1 DEF NamesInv, Named
  <2> QED BY <2>1, <2>2 DEF NameIsNumbered
<1>6. ASSUME code = "Name"
      PROVE  NameIsNumbered(n)'
  <2>1. Find(code, parameters) = FindExactly(code, parameters)
    BY <1>6 DEF Find
  <2>2. NumberOf(n)' = parameters[1]
    <3>1. CASE Find(code, parameters) # {}
      BY <1>1, <1>2, <2>1, <3>1 DEF NewNodeGiven, FindExactly, NumberOf
    <3>2. CASE Find(code, parameters) = {}
      BY <1>1, <1>2, <3>2 DEF NewNodeGiven, NumberOf
    <3> QED BY <3>1, <3>2
  <2> QED BY <1>3, <1>6, <2>2 DEF NameIsNumbered
<1>7. \A m \in Named' : NameIsNumbered(m)'
  BY <1>3, <1>5, <1>6 DEF Named
<1> QED BY <1>1, <1>4, <1>7 DEF NamesInv

LEMMA NamesInvDecides == NamesInv => NamesAreTokenKinds
<1> SUFFICES ASSUME NamesInv PROVE NamesAreTokenKinds
  OBVIOUS
<1>1. ASSUME NEW n \in Named
      PROVE  /\ \A i \in DOMAIN Keywords :
                  given[n].text = Keywords[i] => NumberOf(n) = KindOfKeyword(i)
             /\ \A i \in DOMAIN KnownWords :
                  given[n].text = KnownWords[i] => NumberOf(n) = KindOfKnownWord(i)
             /\ \A i \in DOMAIN TagNames :
                  given[n].text = TagNames[i] => NumberOf(n) = KindOfTagName(i)
  <2>1. ASSUME NEW word, NEW kind, <<word, kind>> \in names, word # "yield*",
               given[n].text = word
        PROVE  NumberOf(n) = kind
    <3>1. PICK e, f : e = <<word, kind>> /\ f = <<word, NumberOf(n)>>
      OBVIOUS
    <3>2. e \in names /\ f \in names /\ e[1] = f[1] /\ e[2] = kind /\ f[2] = NumberOf(n)
      BY <2>1, <3>1 DEF NamesInv, NameIsNumbered
    <3>3. e = f
      BY <3>2 DEF NamesInv, IsNameMap
    <3> QED BY <3>2, <3>3
  <2>2. /\ \A i \in DOMAIN Keywords : <<Keywords[i], KindOfKeyword(i)>> \in names
        /\ \A i \in DOMAIN KnownWords : <<KnownWords[i], KindOfKnownWord(i)>> \in names
        /\ \A i \in DOMAIN TagNames : <<TagNames[i], KindOfTagName(i)>> \in names
    BY DEF NamesInv, WordsAreNumbered, Numbered, KindOfKeyword, KindOfKnownWord, KindOfTagName
  <2> QED BY <2>1, <2>2, Words, YieldStarIsNoWord
<1>2. <<"yield_star", YieldStar>> \in names
  BY Words, YieldStarIsNoWord
  DEF NamesInv, WordsAreNumbered, Numbered, YieldStar, KindOfKeyword
<1>3. ASSUME NEW n \in Named, NEW m \in Named
      PROVE  NumberOf(n) = NumberOf(m)
               <=> \/ given[n].text = given[m].text
                   \/ {given[n].text, given[m].text} = {"yield*", "yield_star"}
  <2>1. PICK star : star = "yield*"
    OBVIOUS
  <2>2. star # "yield_star"
    BY <2>1
  <2>3. ASSUME NEW s, NEW a, NEW t, NEW b, <<s, a>> \in names, <<t, b>> \in names
        PROVE  a = b <=> s = t
    <3>1. PICK e, f : e = <<s, a>> /\ f = <<t, b>>
      OBVIOUS
    <3>2. e \in names /\ f \in names /\ e[1] = s /\ e[2] = a /\ f[1] = t /\ f[2] = b
      BY <2>3, <3>1
    <3>3. e[1] = f[1] \/ e[2] = f[2] => e = f
      BY <3>2 DEF NamesInv, IsNameMap
    <3> QED BY <3>2, <3>3
  <2>4. NameIsNumbered(n) /\ NameIsNumbered(m)
    BY DEF NamesInv
  <2>5. CASE given[n].text # star /\ given[m].text # star
    BY <2>1, <2>2, <2>3, <2>4, <2>5 DEF NameIsNumbered
  <2>6. CASE given[n].text = star /\ given[m].text = star
    BY <2>1, <2>4, <2>6 DEF NameIsNumbered
  <2>7. CASE given[n].text = star /\ given[m].text # star
    <3>1. NumberOf(n) = NumberOf(m) <=> given[m].text = "yield_star"
      BY <1>2, <2>1, <2>3, <2>4, <2>7 DEF NameIsNumbered
    <3> QED BY <2>1, <2>2, <2>7, <3>1
  <2>8. CASE given[n].text # star /\ given[m].text = star
    <3>1. NumberOf(n) = NumberOf(m) <=> given[n].text = "yield_star"
      BY <1>2, <2>1, <2>3, <2>4, <2>8 DEF NameIsNumbered
    <3> QED BY <2>1, <2>2, <2>8, <3>1
  <2> QED BY <2>5, <2>6, <2>7, <2>8
<1> QED BY <1>1, <1>3 DEF NamesAreTokenKinds, Named

(* For every set of texts, names are told apart by their numbers, and a     *)
(* word has the number of its token kind.                                  *)
THEOREM NamesCorrect == Spec => []NamesAreTokenKinds
<1>1. Init => NamesInv
  <2> SUFFICES ASSUME Init PROVE NamesInv
    OBVIOUS
  <2>1. IsNameMap(names, last_id) /\ WordsAreNumbered(names)
    BY PopulateNumbersWords DEF Init
  <2>2. NodesAreGiven /\ Named = {}
    BY InitIsGiven DEF Named, Init
  <2> QED BY <2>1, <2>2 DEF NamesInv
<1>2. ASSUME NamesInv, [Next]_vars
      PROVE  NamesInv'
  <2>1. CASE UNCHANGED <<nodes, given, syntaxes, names, last_id>>
    BY <1>2, <2>1 DEF NamesInv, NodesAreGiven, Named, NameIsNumbered, CodeOf, NumberOf
  <2>2. ASSUME NEW text \in Texts, NEW map,
               map = Register([ids |-> names, last |-> last_id], text),
               names' = map.ids, last_id' = map.last,
               NewNodeOf("Name", <<IdOf(map, text)>>, NoArguments, text)
        PROVE  NamesInv'
    <3>1. /\ IsNameMap(map.ids, map.last) /\ names \subseteq map.ids
          /\ <<text, IdOf(map, text)>> \in map.ids
      BY <1>2, <2>2, RegisterNumbers DEF NamesInv
    <3>2. text # "yield*"
      BY SyntaxTreeAssumption
    <3> QED BY <1>2, <2>2, <3>1, <3>2, NodeKeepsNames
  <2>3. CASE NewYieldStar
    BY <1>2, <2>3, NodeKeepsNames DEF NewYieldStar, NamesInv
  <2>4. CASE NewNumericLiteral
    BY <1>2, <2>4, NodeKeepsNames DEF NewNumericLiteral, NamesInv
  <2>5. ASSUME NEW code, NEW parameters, NEW arguments, NEW text,
               UNCHANGED <<names, last_id>>, code \notin {"Name", "NumericLiteral"},
               NewNodeOf(code, parameters, arguments, text)
        PROVE  NamesInv'
    BY <1>2, <2>5, NodeKeepsNames DEF NamesInv
  <2> QED BY <1>2, <2>1, <2>2, <2>3, <2>4, <2>5, StepMakes DEF NewName
<1> QED BY <1>1, <1>2, NamesInvDecides, PTL DEF Spec

-----------------------------------------------------------------------------
(* Sequences put together. *)

AreSequences(S, seqs, n) == \A i \in 1 .. n : seqs[i] \in Seq(S)

Flattens(S, seqs, n, flat) ==
  /\ flat[1] = seqs[1]
  /\ \A i \in 2 .. n : flat[i] = flat[i - 1] \o seqs[i]
  /\ \A i \in 1 .. n : flat[i] \in Seq(S)

LEMMA FlattenSeqFlattens ==
  ASSUME NEW S, NEW seqs, NEW n \in Nat, n # 0, Len(seqs) = n, AreSequences(S, seqs, n)
  PROVE  \E flat : Flattens(S, seqs, n, flat) /\ FlattenSeq(seqs) = flat[n]
<1> DEFINE Flat(f) == f = [i \in 1 .. Len(seqs) |->
                             IF i = 1 THEN seqs[i] ELSE f[i - 1] \o seqs[i]]
<1>1. PICK L : L = Seq(S)
  OBVIOUS
<1>2. \A s \in L, t \in L : s \o t \in L
  BY <1>1, ConcatProperties
<1>3. <<>> \in L /\ \A s \in L : <<>> \o s = s
  BY <1>1, ConcatEmptySeq
<1>4. \A i \in 1 .. n : seqs[i] \in L
  BY <1>1 DEF AreSequences
<1>5. PICK step : step = [i \in 1 .. n |-> [s \in L |-> s \o seqs[i]]]
  OBVIOUS
<1>6. step \in [1 .. n -> [L -> L]]
  BY <1>2, <1>4, <1>5
<1>7. PICK h : Loops(L, <<>>, step, n, h)
  BY <1>3, <1>6, LoopExists
<1>8. PICK f : f = [i \in 1 .. n |-> h[i]]
  OBVIOUS
<1>9. \A i \in 0 .. n : h[i] \in L
  BY <1>7 DEF Loops
<1>10. ASSUME NEW i \in 1 .. n
       PROVE  h[i] = h[i - 1] \o seqs[i]
  <2>1. i - 1 \in 0 .. n /\ i \in 0 .. n /\ i # 0
    OBVIOUS
  <2>2. h[i] = step[i][h[i - 1]]
    BY <1>7, <2>1 DEF Loops
  <2> QED BY <1>5, <1>9, <2>1, <2>2
<1>11. h[0] = <<>>
  BY <1>7 DEF Loops
<1>12. h[1] = seqs[1]
  <2>1. 1 \in 1 .. n /\ 1 - 1 = 0
    OBVIOUS
  <2>2. h[1] = h[0] \o seqs[1]
    BY <1>10, <2>1
  <2> QED BY <1>3, <1>4, <1>11, <2>1, <2>2
<1>13. Flat(f)
  <2>1. ASSUME NEW i \in 1 .. n
        PROVE  h[i] = IF i = 1 THEN seqs[i] ELSE f[i - 1] \o seqs[i]
    <3>1. CASE i = 1
      BY <1>12, <3>1
    <3>2. CASE i # 1
      <4>1. i - 1 \in 1 .. n
        BY <3>2
      <4> QED BY <1>8, <1>10, <3>2, <4>1
    <3> QED BY <3>1, <3>2
  <2> QED BY <1>8, <2>1
<1>14. PICK g : g = CHOOSE e : Flat(e)
  OBVIOUS
<1>15. Flat(g)
  BY <1>13, <1>14
<1>16. g[1] = seqs[1] /\ \A i \in 2 .. n : g[i] = g[i - 1] \o seqs[i]
  <2>1. \A i \in 1 .. n : g[i] = IF i = 1 THEN seqs[i] ELSE g[i - 1] \o seqs[i]
    BY <1>15
  <2>2. 1 \in 1 .. n /\ \A i \in 2 .. n : i \in 1 .. n /\ i # 1
    OBVIOUS
  <2> QED BY <2>1, <2>2
<1>17. FlattenSeq(seqs) = g[n]
  BY <1>14 DEF FlattenSeq
<1> HIDE DEF Flat
<1>18. ASSUME NEW i \in Nat, i + 1 <= n => g[i + 1] \in L
       PROVE  (i + 1) + 1 <= n => g[(i + 1) + 1] \in L
  <2> SUFFICES ASSUME (i + 1) + 1 <= n PROVE g[(i + 1) + 1] \in L
    OBVIOUS
  <2>1. PICK j : j = (i + 1) + 1
    OBVIOUS
  <2>2. j \in 2 .. n /\ j \in 1 .. n /\ j - 1 = i + 1 /\ i + 1 <= n
    BY <2>1
  <2>3. g[j] = g[i + 1] \o seqs[j]
    BY <1>16, <2>2
  <2> QED BY <1>2, <1>4, <1>18, <2>1, <2>2, <2>3
<1>19. \A i \in Nat : i + 1 <= n => g[i + 1] \in L
  <2>1. PICK T : T = {i \in Nat : i + 1 <= n => g[i + 1] \in L}
    OBVIOUS
  <2>2. 0 \in T
    BY <1>4, <1>16, <2>1
  <2>3. \A i \in Nat : i \in T => i + 1 \in T
    BY <1>18, <2>1
  <2>4. \A i \in Nat : i \in T
    BY <2>2, <2>3, SetInduction
  <2> QED BY <2>1, <2>4
<1>20. ASSUME NEW i \in 1 .. n
       PROVE  g[i] \in L
  <2>1. i - 1 \in Nat /\ (i - 1) + 1 = i /\ i <= n
    OBVIOUS
  <2> QED BY <1>19, <2>1
<1>21. Flattens(S, seqs, n, g)
  BY <1>1, <1>16, <1>20 DEF Flattens
<1> QED BY <1>17, <1>21

(* The first k of the sequences, one after the other.                      *)
Joined(seqs, k) == FlattenSeq([i \in 1 .. k |-> seqs[i]])

LEMMA JoinedSame ==
  ASSUME NEW a, NEW b, NEW k, \A i \in 1 .. k : a[i] = b[i]
  PROVE  Joined(a, k) = Joined(b, k)
<1>1. [i \in 1 .. k |-> a[i]] = [i \in 1 .. k |-> b[i]]
  OBVIOUS
<1> QED BY <1>1 DEF Joined

LEMMA JoinedNone ==
  ASSUME NEW seqs
  PROVE  Joined(seqs, 0) = <<>>
<1>1. [i \in 1 .. 0 |-> seqs[i]] = <<>>
  OBVIOUS
<1> QED BY <1>1 DEF Joined, FlattenSeq

LEMMA JoinedNext ==
  ASSUME NEW S, NEW n \in Nat, NEW seqs, AreSequences(S, seqs, n), NEW k \in 1 .. n
  PROVE  /\ Joined(seqs, k) \in Seq(S) /\ Joined(seqs, k - 1) \in Seq(S)
         /\ Joined(seqs, k) = Joined(seqs, k - 1) \o seqs[k]
<1>1. PICK a : a = [i \in 1 .. k |-> seqs[i]]
  OBVIOUS
<1>2. Len(a) = k /\ AreSequences(S, a, k) /\ k \in Nat /\ k # 0
  <2>1. a \in Seq({seqs[i] : i \in 1 .. k})
    BY <1>1
  <2>2. \A i \in 1 .. k : a[i] = seqs[i] /\ i \in 1 .. n
    BY <1>1
  <2> QED BY <1>1, <2>1, <2>2 DEF AreSequences
<1>3. PICK f : Flattens(S, a, k, f) /\ FlattenSeq(a) = f[k]
  BY <1>2, FlattenSeqFlattens
<1>4. Joined(seqs, k) = f[k]
  BY <1>1, <1>3 DEF Joined
<1>5. f[k] \in Seq(S)
  BY <1>2, <1>3 DEF Flattens
<1>6. CASE k = 1
  <2>1. f[k] = seqs[k]
    BY <1>1, <1>2, <1>3, <1>6 DEF Flattens
  <2>2. Joined(seqs, k - 1) = <<>>
    BY <1>6, JoinedNone
  <2>3. <<>> \in Seq(S) /\ <<>> \o seqs[k] = seqs[k]
    BY <1>5, <2>1, ConcatEmptySeq
  <2> QED BY <1>4, <1>5, <2>1, <2>2, <2>3
<1>7. CASE k # 1
  <2>1. PICK m : m = k - 1
    OBVIOUS
  <2>2. m \in Nat /\ m # 0 /\ m + 1 = k /\ m \in 1 .. n
    BY <1>7, <2>1
  <2>3. PICK b : b = [i \in 1 .. m |-> seqs[i]]
    OBVIOUS
  <2>4. Len(b) = m /\ AreSequences(S, b, m)
    <3>1. b \in Seq({seqs[i] : i \in 1 .. m})
      BY <2>2, <2>3
    <3>2. \A i \in 1 .. m : b[i] = seqs[i] /\ i \in 1 .. n
      BY <2>2, <2>3
    <3> QED BY <2>2, <2>3, <3>1, <3>2 DEF AreSequences
  <2>5. PICK g : Flattens(S, b, m, g) /\ FlattenSeq(b) = g[m]
    BY <2>2, <2>4, FlattenSeqFlattens
  <2>6. Joined(seqs, m) = g[m] /\ g[m] \in Seq(S)
    BY <2>2, <2>3, <2>5 DEF Joined, Flattens
  <2>7. ASSUME NEW i \in Nat, i + 1 <= m => f[i + 1] = g[i + 1]
        PROVE  (i + 1) + 1 <= m => f[(i + 1) + 1] = g[(i + 1) + 1]
    <3> SUFFICES ASSUME (i + 1) + 1 <= m PROVE f[(i + 1) + 1] = g[(i + 1) + 1]
      OBVIOUS
    <3>1. PICK j : j = (i + 1) + 1
      OBVIOUS
    <3>2. j \in 2 .. m /\ j \in 2 .. k /\ j \in 1 .. m /\ j \in 1 .. k /\ j - 1 = i + 1
          /\ i + 1 <= m
      BY <2>2, <3>1
    <3>3. f[j] = f[i + 1] \o a[j] /\ g[j] = g[i + 1] \o b[j]
      BY <1>3, <2>5, <3>2 DEF Flattens
    <3>4. a[j] = b[j]
      BY <1>1, <2>3, <3>2
    <3> QED BY <2>7, <3>1, <3>2, <3>3, <3>4
  <2>8. \A i \in Nat : i + 1 <= m => f[i + 1] = g[i + 1]
    <3>1. PICK T : T = {i \in Nat : i + 1 <= m => f[i + 1] = g[i + 1]}
      OBVIOUS
    <3>2. 0 \in T
      <4>1. f[1] = a[1] /\ g[1] = b[1]
        BY <1>3, <2>5 DEF Flattens
      <4>2. 1 \in 1 .. m /\ 1 \in 1 .. k
        BY <2>2
      <4>3. f[1] = g[1]
        BY <1>1, <2>3, <4>1, <4>2
      <4> QED BY <3>1, <4>3
    <3>3. \A i \in Nat : i \in T => i + 1 \in T
      BY <2>7, <3>1
    <3>4. \A i \in Nat : i \in T
      BY <3>2, <3>3, SetInduction
    <3> QED BY <3>1, <3>4
  <2>9. f[m] = g[m]
    <3>1. m - 1 \in Nat /\ (m - 1) + 1 = m
      BY <2>2
    <3> QED BY <2>8, <3>1
  <2>10. f[k] = f[m] \o seqs[k]
    <3>1. k \in 2 .. k /\ k \in 1 .. k
      BY <2>2
    <3> QED BY <1>1, <1>3, <2>1, <3>1 DEF Flattens
  <2> QED BY <1>4, <1>5, <2>1, <2>6, <2>9, <2>10
<1> QED BY <1>6, <1>7

LEMMA JoinedTyped ==
  ASSUME NEW S, NEW n \in Nat, NEW seqs, AreSequences(S, seqs, n), NEW k \in 0 .. n
  PROVE  Joined(seqs, k) \in Seq(S)
<1>1. CASE k = 0
  BY <1>1, JoinedNone, EmptySeq
<1>2. CASE k # 0
  <2>1. k \in 1 .. n
    BY <1>2
  <2> QED BY <2>1, JoinedNext
<1> QED BY <1>1, <1>2

(* The second sequence begins with the first.                              *)
Continues(S, s, t) == \E rest \in Seq(S) : t = s \o rest

(* All of them are the first k and some more.                              *)
LEMMA JoinedSplits ==
  ASSUME NEW S, NEW n \in Nat, NEW seqs, AreSequences(S, seqs, n), NEW k \in 0 .. n
  PROVE  Continues(S, Joined(seqs, k), Joined(seqs, n))
<1>1. PICK start : start = Joined(seqs, k)
  OBVIOUS
<1>2. PICK L : L = Seq(S)
  OBVIOUS
<1>3. start \in L
  BY <1>1, <1>2, JoinedTyped
<1>4. PICK T : T = {j \in Nat : k + j <= n => \E r \in L : Joined(seqs, k + j) = start \o r}
  OBVIOUS
<1>5. 0 \in T
  <2>1. k + 0 = k
    OBVIOUS
  <2>2. <<>> \in L /\ start \o <<>> = start
    BY <1>2, <1>3, EmptySeq, ConcatEmptySeq
  <2> QED BY <1>1, <1>4, <2>1, <2>2
<1>6. ASSUME NEW j \in Nat, j \in T
      PROVE  j + 1 \in T
  <2> SUFFICES ASSUME k + (j + 1) <= n
               PROVE  \E r \in L : Joined(seqs, k + (j + 1)) = start \o r
    BY <1>4
  <2>1. PICK m : m = k + (j + 1)
    OBVIOUS
  <2>2. m \in 1 .. n /\ m - 1 = k + j /\ k + j <= n
    BY <2>1
  <2>3. PICK r \in L : Joined(seqs, k + j) = start \o r
    BY <1>4, <1>6, <2>2
  <2>4. Joined(seqs, m) = (start \o r) \o seqs[m]
    BY <2>2, <2>3, JoinedNext
  <2>5. seqs[m] \in L
    BY <1>2, <2>2 DEF AreSequences
  <2>6. r \o seqs[m] \in L
    BY <1>2, <2>5, ConcatProperties
  <2>7. (start \o r) \o seqs[m] = start \o (r \o seqs[m])
    <3>1. PICK t : t = seqs[m]
      OBVIOUS
    <3>2. start \in Seq(S) /\ r \in Seq(S) /\ t \in Seq(S)
      BY <1>2, <1>3, <2>5, <3>1
    <3>3. (start \o r) \o t = start \o (r \o t)
      BY <3>2, ConcatAssociative
    <3> QED BY <3>1, <3>3
  <2> QED BY <2>1, <2>4, <2>6, <2>7
<1>7. \A j \in Nat : j \in T
  BY <1>5, <1>6, SetInduction
<1>8. PICK j : j = n - k
  OBVIOUS
<1>9. j \in Nat /\ k + j = n /\ k + j <= n
  BY <1>8
<1>10. \E r \in L : Joined(seqs, k + j) = start \o r
  BY <1>4, <1>7, <1>9
<1> QED BY <1>1, <1>2, <1>9, <1>10 DEF Continues

-----------------------------------------------------------------------------
(* Trees and their preorder. *)

Arity(ns, n) == Len(ns[n].children)
Kid(ns, n, i) == ns[n].children[i]

(* A node has children that were made before it.                           *)
IsTree(ns) ==
  /\ Len(ns) \in Nat /\ DOMAIN ns = 1 .. Len(ns)
  /\ \A n \in DOMAIN ns :
       /\ Arity(ns, n) \in Nat
       /\ \A i \in 1 .. Arity(ns, n) : Kid(ns, n, i) \in 1 .. n - 1

OrdersBelow(ns, f, n) == [i \in 1 .. Arity(ns, n) |-> f[Kid(ns, n, i)]]
Order(ns, f, n) == <<n>> \o Joined(OrdersBelow(ns, f, n), Arity(ns, n))

IsPreOrder(ns, f) == f = [n \in DOMAIN ns |-> Order(ns, f, n)]

LEMMA OrdersTyped ==
  ASSUME NEW ns, IsTree(ns), NEW f, NEW n \in DOMAIN ns,
         \A m \in 1 .. n - 1 : f[m] \in Seq(DOMAIN ns)
  PROVE  /\ AreSequences(DOMAIN ns, OrdersBelow(ns, f, n), Arity(ns, n))
         /\ Arity(ns, n) \in Nat
         /\ Order(ns, f, n) \in Seq(DOMAIN ns)
<1>1. PICK D : D = DOMAIN ns
  OBVIOUS
<1>2. Arity(ns, n) \in Nat
  BY DEF IsTree
<1>3. AreSequences(D, OrdersBelow(ns, f, n), Arity(ns, n))
  BY <1>1 DEF AreSequences, OrdersBelow, IsTree
<1>4. Joined(OrdersBelow(ns, f, n), Arity(ns, n)) \in Seq(D)
  <2>1. PICK k : k = Arity(ns, n)
    OBVIOUS
  <2>2. k \in 0 .. k /\ k \in Nat
    BY <1>2, <2>1
  <2> QED BY <1>3, <2>1, <2>2, JoinedTyped
<1>5. <<n>> \in Seq(D)
  BY <1>1
<1>6. Order(ns, f, n) \in Seq(D)
  BY <1>4, <1>5, ConcatProperties DEF Order
<1> QED BY <1>1, <1>2, <1>3, <1>6

(* The order of a node depends on the orders of older nodes only.          *)
LEMMA OrderOfOlder ==
  ASSUME NEW ns, IsTree(ns), NEW f, NEW g, NEW n \in DOMAIN ns,
         \A m \in 1 .. n - 1 : f[m] = g[m]
  PROVE  Order(ns, f, n) = Order(ns, g, n)
<1>1. \A i \in 1 .. Arity(ns, n) :
        OrdersBelow(ns, f, n)[i] = OrdersBelow(ns, g, n)[i]
  BY DEF OrdersBelow, IsTree
<1> QED BY <1>1, JoinedSame DEF Order

(* Every tree has a preorder: it settles from the oldest node upwards.     *)
LEMMA PreOrderExists ==
  ASSUME NEW ns, IsTree(ns)
  PROVE  \E f \in [DOMAIN ns -> Seq(DOMAIN ns)] : IsPreOrder(ns, f)
<1>1. PICK D, L : D = DOMAIN ns /\ L = Seq(D)
  OBVIOUS
<1>2. PICK S : S = [D -> L]
  OBVIOUS
<1>3. PICK turn : turn = [f \in S |-> [n \in D |-> Order(ns, f, n)]]
  OBVIOUS
<1>4. turn \in [S -> S]
  <2>1. ASSUME NEW f \in S, NEW n \in D
        PROVE  Order(ns, f, n) \in L
    <3>1. \A m \in 1 .. n - 1 : f[m] \in Seq(DOMAIN ns)
      BY <1>1, <1>2 DEF IsTree
    <3> QED BY <1>1, <3>1, OrdersTyped
  <2> QED BY <1>2, <1>3, <2>1
<1>5. PICK base : base = [n \in D |-> <<>>]
  OBVIOUS
<1>6. base \in S
  BY <1>1, <1>2, <1>5, EmptySeq
<1>7. PICK step : step = [k \in Nat |-> turn]
  OBVIOUS
<1>8. PICK F : Repeats(S, base, step, F)
  <2>1. step \in [Nat -> [S -> S]]
    BY <1>4, <1>7
  <2> QED BY <1>6, <2>1, Iteration
<1>9. \A k \in Nat : F[k] \in S /\ F[k + 1] = [n \in D |-> Order(ns, F[k], n)]
  BY <1>3, <1>7, <1>8 DEF Repeats
<1>10. PICK T : T = {k \in Nat : \A n \in D : n <= k => F[k + 1][n] = F[k][n]}
  OBVIOUS
<1>11. 0 \in T
  BY <1>1, <1>10 DEF IsTree
<1>12. ASSUME NEW k \in Nat, k \in T
       PROVE  k + 1 \in T
  <2>1. ASSUME NEW n \in D, n <= k + 1
        PROVE  F[(k + 1) + 1][n] = F[k + 1][n]
    <3>1. PICK f, g : f = F[k] /\ g = F[k + 1]
      OBVIOUS
    <3>2. \A m \in 1 .. n - 1 : m \in D /\ m <= k
      BY <1>1, <2>1 DEF IsTree
    <3>3. \A m \in 1 .. n - 1 : g[m] = f[m]
      BY <1>10, <1>12, <3>1, <3>2
    <3>4. Order(ns, g, n) = Order(ns, f, n)
      BY <1>1, <3>3, OrderOfOlder
    <3>5. k + 1 \in Nat
      OBVIOUS
    <3>6. F[(k + 1) + 1][n] = Order(ns, F[k + 1], n)
      BY <1>9, <3>5
    <3>7. F[k + 1][n] = Order(ns, F[k], n)
      BY <1>9
    <3> QED BY <3>1, <3>4, <3>6, <3>7
  <2> QED BY <1>10, <2>1
<1>13. \A k \in Nat : k \in T
  BY <1>11, <1>12, SetInduction
<1>14. PICK N : N = Len(ns)
  OBVIOUS
<1>15. N \in Nat /\ \A n \in D : n <= N
  BY <1>1, <1>14 DEF IsTree
<1>16. PICK f, g : f = F[N] /\ g = F[N + 1]
  OBVIOUS
<1>17. \A n \in D : g[n] = f[n]
  BY <1>10, <1>13, <1>15, <1>16
<1>18. f \in S /\ g \in S
  <2>1. N + 1 \in Nat
    BY <1>15
  <2> QED BY <1>9, <1>15, <1>16, <2>1
<1>19. f = g
  BY <1>2, <1>17, <1>18
<1>20. g = [n \in D |-> Order(ns, f, n)]
  BY <1>9, <1>15, <1>16
<1>21. IsPreOrder(ns, f)
  BY <1>1, <1>19, <1>20 DEF IsPreOrder
<1> QED BY <1>1, <1>2, <1>18, <1>21

PreOrderOf(ns) == CHOOSE f : IsPreOrder(ns, f)

LEMMA PreOrderEquals ==
  ASSUME NEW ns, IsTree(ns)
  PROVE  IsPreOrder(ns, PreOrderOf(ns))
<1>1. \E f : IsPreOrder(ns, f)
  BY PreOrderExists
<1> QED BY <1>1 DEF PreOrderOf

LEMMA PreOrderTyped ==
  ASSUME NEW ns, IsTree(ns), NEW f, IsPreOrder(ns, f)
  PROVE  \A n \in DOMAIN ns : f[n] \in Seq(DOMAIN ns) /\ f[n] = Order(ns, f, n)
<1>1. PICK L : L = Seq(DOMAIN ns)
  OBVIOUS
<1>2. \A n \in DOMAIN ns : f[n] = Order(ns, f, n)
  BY DEF IsPreOrder
<1>3. PICK T : T = {k \in Nat : \A n \in DOMAIN ns : n <= k => f[n] \in L}
  OBVIOUS
<1>4. 0 \in T
  BY <1>3 DEF IsTree
<1>5. ASSUME NEW k \in Nat, k \in T
      PROVE  k + 1 \in T
  <2>1. ASSUME NEW n \in DOMAIN ns, n <= k + 1
        PROVE  f[n] \in L
    <3>1. \A m \in 1 .. n - 1 : m \in DOMAIN ns /\ m <= k
      BY <2>1 DEF IsTree
    <3>2. \A m \in 1 .. n - 1 : f[m] \in Seq(DOMAIN ns)
      BY <1>1, <1>3, <1>5, <3>1
    <3> QED BY <1>1, <1>2, <3>2, OrdersTyped
  <2> QED BY <1>3, <2>1
<1>6. \A k \in Nat : k \in T
  BY <1>4, <1>5, SetInduction
<1>7. ASSUME NEW n \in DOMAIN ns
      PROVE  f[n] \in L
  <2>1. n \in Nat /\ n <= n
    BY DEF IsTree
  <2> QED BY <1>3, <1>6, <2>1
<1> QED BY <1>1, <1>2, <1>7

-----------------------------------------------------------------------------
(* What a walk has visited when it is somewhere in the tree. *)

Cat(s, t) == s \o t

LEMMA CatAssociates ==
  ASSUME NEW S, NEW s \in Seq(S), NEW t \in Seq(S), NEW u \in Seq(S)
  PROVE  Cat(s, t) \in Seq(S) /\ Cat(Cat(s, t), u) = Cat(s, Cat(t, u))
BY ConcatAssociative, ConcatProperties DEF Cat

(* A node and what is under its first children.                            *)
Before(ns, f, n, p) == <<n>> \o Joined(OrdersBelow(ns, f, n), p)

LEMMA BeforeFirst ==
  ASSUME NEW ns, NEW f, NEW n
  PROVE  Before(ns, f, n, 0) = <<n>>
<1>1. <<n>> \o <<>> = <<n>>
  <2>1. <<n>> \in Seq({n})
    OBVIOUS
  <2> QED BY <2>1, ConcatEmptySeq
<1> QED BY <1>1, JoinedNone DEF Before

LEMMA BeforeGrows ==
  ASSUME NEW ns, IsTree(ns), NEW f, IsPreOrder(ns, f), NEW n \in DOMAIN ns
  PROVE  /\ Arity(ns, n) \in Nat
         /\ \A p \in 0 .. Arity(ns, n) : Before(ns, f, n, p) \in Seq(DOMAIN ns)
         /\ Before(ns, f, n, Arity(ns, n)) = f[n]
         /\ \A p \in Nat : p < Arity(ns, n) =>
              Before(ns, f, n, p + 1) = Cat(Before(ns, f, n, p), f[Kid(ns, n, p + 1)])
         /\ \A p \in 0 .. Arity(ns, n) : Continues(DOMAIN ns, Before(ns, f, n, p), f[n])
<1>1. PICK D, k, seqs : D = DOMAIN ns /\ k = Arity(ns, n) /\ seqs = OrdersBelow(ns, f, n)
  OBVIOUS
<1>2. \A m \in 1 .. n - 1 : f[m] \in Seq(D)
  <2>1. \A m \in 1 .. n - 1 : m \in D
    BY <1>1 DEF IsTree
  <2> QED BY <1>1, <2>1, PreOrderTyped
<1>3. AreSequences(D, seqs, k) /\ k \in Nat
  BY <1>1, <1>2, OrdersTyped
<1>4. PICK one : one = <<n>>
  OBVIOUS
<1>5. one \in Seq(D)
  BY <1>1, <1>4
<1>6. \A p : Before(ns, f, n, p) = one \o Joined(seqs, p)
  BY <1>1, <1>4 DEF Before
<1>7. \A p \in 0 .. k : Joined(seqs, p) \in Seq(D)
  BY <1>3, JoinedTyped
<1>8. \A p \in 0 .. k : Before(ns, f, n, p) \in Seq(D)
  BY <1>5, <1>6, <1>7, ConcatProperties
<1>9. Before(ns, f, n, k) = f[n]
  <2>1. f[n] = Order(ns, f, n)
    BY PreOrderTyped
  <2> QED BY <1>1, <1>4, <1>6, <2>1 DEF Order
<1>10. ASSUME NEW p \in Nat, p < k
       PROVE  Before(ns, f, n, p + 1) = Cat(Before(ns, f, n, p), f[Kid(ns, n, p + 1)])
  <2>1. PICK q, a, b : q = p + 1 /\ a = Joined(seqs, p) /\ b = seqs[p + 1]
    OBVIOUS
  <2>2. q \in 1 .. k /\ q - 1 = p /\ p \in 0 .. k
    BY <1>3, <1>10, <2>1
  <2>3. b \in Seq(D) /\ a \in Seq(D)
    BY <1>3, <1>7, <2>1, <2>2 DEF AreSequences
  <2>4. Joined(seqs, q) = a \o b
    BY <1>3, <2>1, <2>2, JoinedNext
  <2>5. b = f[Kid(ns, n, q)]
    BY <1>1, <2>1, <2>2 DEF OrdersBelow
  <2>6. (one \o a) \o b = one \o (a \o b)
    BY <1>5, <2>3, ConcatAssociative
  <2> QED BY <1>6, <2>1, <2>4, <2>5, <2>6 DEF Cat
<1>11. ASSUME NEW p \in 0 .. k
       PROVE  Continues(D, Before(ns, f, n, p), f[n])
  <2>1. Continues(D, Joined(seqs, p), Joined(seqs, k))
    BY <1>3, <1>11, JoinedSplits
  <2>2. PICK a : a = Joined(seqs, p)
    OBVIOUS
  <2>3. PICK rest \in Seq(D) : Joined(seqs, k) = a \o rest
    BY <2>1, <2>2 DEF Continues
  <2>4. a \in Seq(D)
    BY <1>7, <1>11, <2>2
  <2>5. (one \o a) \o rest = one \o (a \o rest)
    BY <1>5, <2>3, <2>4, CatAssociates DEF Cat
  <2>6. f[n] = Before(ns, f, n, p) \o rest
    BY <1>6, <1>9, <2>2, <2>3, <2>5
  <2> QED BY <2>3, <2>6 DEF Continues
<1> QED BY <1>1, <1>3, <1>8, <1>9, <1>10, <1>11

(* A stack of containers and positions is a path: it begins at the last    *)
(* node, and each container is the child at the position below it.         *)
NodeAt(ns, stack, i) ==
  IF i = 0 THEN Len(ns) ELSE Kid(ns, stack[i][1], stack[i][2] + 1)

IsPath(ns, stack) ==
  /\ IsSequence(stack) /\ Len(stack) # 0
  /\ \A i \in 1 .. Len(stack) :
       /\ stack[i][1] \in DOMAIN ns /\ stack[i][1] = NodeAt(ns, stack, i - 1)
       /\ stack[i][2] \in Nat /\ stack[i][2] < Arity(ns, stack[i][1])

Levels(ns, f, stack) ==
  [i \in 1 .. Len(stack) |-> Before(ns, f, stack[i][1], stack[i][2])]
VisitedOn(ns, f, stack) == Joined(Levels(ns, f, stack), Len(stack))

LEMMA LevelsTyped ==
  ASSUME NEW ns, IsTree(ns), NEW f, IsPreOrder(ns, f), NEW stack, IsPath(ns, stack)
  PROVE  /\ AreSequences(DOMAIN ns, Levels(ns, f, stack), Len(stack))
         /\ Len(stack) \in Nat
<1>1. Len(stack) \in Nat
  BY DEF IsPath, IsSequence
<1>2. ASSUME NEW i \in 1 .. Len(stack)
      PROVE  Levels(ns, f, stack)[i] \in Seq(DOMAIN ns)
  <2>1. PICK n, p : n = stack[i][1] /\ p = stack[i][2]
    OBVIOUS
  <2>2. n \in DOMAIN ns /\ p \in Nat /\ p < Arity(ns, n)
    BY <2>1 DEF IsPath
  <2>3. p \in 0 .. Arity(ns, n)
    BY <2>2 DEF IsTree
  <2>4. Before(ns, f, n, p) \in Seq(DOMAIN ns)
    BY <2>2, <2>3, BeforeGrows
  <2> QED BY <2>1, <2>4 DEF Levels
<1> QED BY <1>1, <1>2 DEF AreSequences

LEMMA NodeOnPath ==
  ASSUME NEW ns, IsTree(ns), Len(ns) # 0, NEW stack, IsPath(ns, stack),
         NEW i \in 0 .. Len(stack)
  PROVE  NodeAt(ns, stack, i) \in DOMAIN ns
<1>1. CASE i = 0
  BY <1>1 DEF NodeAt, IsTree
<1>2. CASE i # 0
  <2>1. PICK n, q : n = stack[i][1] /\ q = stack[i][2] + 1
    OBVIOUS
  <2>2. i \in 1 .. Len(stack)
    BY <1>2 DEF IsPath, IsSequence
  <2>3. n \in DOMAIN ns /\ q \in 1 .. Arity(ns, n)
    BY <2>1, <2>2 DEF IsPath, IsTree
  <2>4. Kid(ns, n, q) \in 1 .. n - 1
    BY <2>3 DEF IsTree
  <2>5. Kid(ns, n, q) \in DOMAIN ns
    BY <2>3, <2>4 DEF IsTree
  <2> QED BY <1>2, <2>1, <2>5 DEF NodeAt
<1> QED BY <1>1, <1>2

(* One level: the container n and its position p, what was visited before  *)
(* the level (a), at it (b), and the order c of the present child.         *)
AtLevel(ns, f, stack, i, n, p, a, b, c) ==
  LET D == DOMAIN ns IN
  /\ n = stack[i][1] /\ p = stack[i][2]
  /\ n \in D /\ p \in Nat /\ p < Arity(ns, n)
  /\ p \in 0 .. Arity(ns, n) /\ p + 1 \in 0 .. Arity(ns, n)
  /\ n = NodeAt(ns, stack, i - 1) /\ Kid(ns, n, p + 1) = NodeAt(ns, stack, i)
  /\ a = Joined(Levels(ns, f, stack), i - 1) /\ a \in Seq(D)
  /\ b = Before(ns, f, n, p) /\ b \in Seq(D)
  /\ c = f[Kid(ns, n, p + 1)] /\ c \in Seq(D)
  /\ Joined(Levels(ns, f, stack), i) = Cat(a, b)
  /\ Before(ns, f, n, p + 1) = Cat(b, c) /\ Cat(b, c) \in Seq(D)

LEMMA LevelNext ==
  ASSUME NEW ns, IsTree(ns), NEW f, IsPreOrder(ns, f), NEW stack, IsPath(ns, stack),
         NEW i \in 1 .. Len(stack)
  PROVE  \E n, p, a, b, c : AtLevel(ns, f, stack, i, n, p, a, b, c)
<1>1. PICK D, n, p, levels, k : /\ D = DOMAIN ns /\ n = stack[i][1] /\ p = stack[i][2]
                                /\ levels = Levels(ns, f, stack) /\ k = Len(stack)
  OBVIOUS
<1>2. AreSequences(D, levels, k) /\ k \in Nat
  BY <1>1, LevelsTyped
<1>3. i \in 1 .. k
  BY <1>1
<1>4. Joined(levels, i) = Cat(Joined(levels, i - 1), levels[i]) /\ Joined(levels, i - 1) \in Seq(D)
  BY <1>2, <1>3, JoinedNext DEF Cat
<1>5. levels[i] = Before(ns, f, n, p)
  BY <1>1 DEF Levels
<1>6. /\ n \in D /\ n = NodeAt(ns, stack, i - 1) /\ p \in Nat /\ p < Arity(ns, n)
      /\ Kid(ns, n, p + 1) = NodeAt(ns, stack, i)
  BY <1>1 DEF IsPath, IsSequence, NodeAt
<1>7. p \in 0 .. Arity(ns, n) /\ p + 1 \in 0 .. Arity(ns, n) /\ p + 1 \in 1 .. Arity(ns, n)
  BY <1>1, <1>6 DEF IsTree
<1>8. Before(ns, f, n, p) \in Seq(D) /\ Before(ns, f, n, p + 1) \in Seq(D)
  BY <1>1, <1>6, <1>7, BeforeGrows
<1>9. Before(ns, f, n, p + 1) = Cat(Before(ns, f, n, p), f[Kid(ns, n, p + 1)])
  BY <1>1, <1>6, BeforeGrows
<1>10. f[Kid(ns, n, p + 1)] \in Seq(D)
  <2>1. Kid(ns, n, p + 1) \in 1 .. n - 1
    BY <1>1, <1>6, <1>7 DEF IsTree
  <2>2. Kid(ns, n, p + 1) \in D
    BY <1>1, <1>6, <2>1 DEF IsTree
  <2> QED BY <1>1, <2>2, PreOrderTyped
<1>11. PICK a, b, c : /\ a = Joined(levels, i - 1) /\ b = Before(ns, f, n, p)
                      /\ c = f[Kid(ns, n, p + 1)]
  OBVIOUS
<1>12. AtLevel(ns, f, stack, i, n, p, a, b, c)
  BY <1>1, <1>4, <1>5, <1>6, <1>7, <1>8, <1>9, <1>10, <1>11 DEF AtLevel
<1> QED BY <1>12

(* The preorder of the whole tree continues what is visited down to a      *)
(* level and the tree that is visited there.                               *)
LEMMA WholeContinues ==
  ASSUME NEW ns, IsTree(ns), Len(ns) # 0, NEW f, IsPreOrder(ns, f),
         NEW stack, IsPath(ns, stack)
  PROVE  \A i \in 0 .. Len(stack) :
           Continues(DOMAIN ns,
                     Joined(Levels(ns, f, stack), i) \o f[NodeAt(ns, stack, i)],
                     f[Len(ns)])
<1>1. PICK D, levels, whole, T :
        /\ D = DOMAIN ns /\ levels = Levels(ns, f, stack) /\ whole = f[Len(ns)]
        /\ T = {i \in Nat : i <= Len(stack) =>
                  Continues(D, Joined(levels, i) \o f[NodeAt(ns, stack, i)], whole)}
  OBVIOUS
<1>2. whole \in Seq(D)
  BY <1>1, PreOrderTyped DEF IsTree
<1>3. 0 \in T
  <2>1. <<>> \o whole = whole /\ whole \o <<>> = whole /\ <<>> \in Seq(D)
    BY <1>2, ConcatEmptySeq, EmptySeq
  <2>2. Joined(levels, 0) = <<>> /\ NodeAt(ns, stack, 0) = Len(ns)
    BY JoinedNone DEF NodeAt
  <2> QED BY <1>1, <2>1, <2>2 DEF Continues
<1>4. ASSUME NEW i \in Nat, i \in T
      PROVE  i + 1 \in T
  <2> SUFFICES ASSUME i + 1 <= Len(stack)
               PROVE  Continues(D, Joined(levels, i + 1) \o f[NodeAt(ns, stack, i + 1)], whole)
    BY <1>1
  <2>1. PICK j : j = i + 1
    OBVIOUS
  <2>2. j \in 1 .. Len(stack) /\ j - 1 = i /\ i <= Len(stack)
    BY <2>1 DEF IsPath, IsSequence
  <2>3. PICK n, p, a, b, c : AtLevel(ns, f, stack, j, n, p, a, b, c)
    BY <2>2, LevelNext
  <2>4. /\ Joined(levels, j) = Cat(a, b) /\ a = Joined(levels, i)
        /\ n \in D /\ p + 1 \in 0 .. Arity(ns, n)
        /\ n = NodeAt(ns, stack, i) /\ c = f[NodeAt(ns, stack, j)]
        /\ a \in Seq(D) /\ b \in Seq(D) /\ c \in Seq(D)
        /\ Before(ns, f, n, p + 1) = Cat(b, c)
    BY <1>1, <2>2, <2>3 DEF AtLevel
  <2>5. PICK e \in Seq(D) : whole = Cat(Cat(a, f[n]), e)
    BY <1>1, <1>4, <2>2, <2>4 DEF Continues, Cat
  <2>6. Continues(D, Before(ns, f, n, p + 1), f[n])
    BY <1>1, <2>4, BeforeGrows
  <2>7. PICK d \in Seq(D) : f[n] = Cat(Before(ns, f, n, p + 1), d)
    BY <2>6 DEF Continues, Cat
  <2>8. PICK L : L = Seq(D)
    OBVIOUS
  <2>9. a \in L /\ b \in L /\ c \in L /\ d \in L /\ e \in L
    BY <2>4, <2>5, <2>7, <2>8
  <2>10. \A x \in L, y \in L : Cat(x, y) \in L
    BY <2>8, CatAssociates
  <2>11. \A x \in L, y \in L, z \in L : Cat(Cat(x, y), z) = Cat(x, Cat(y, z))
    BY <2>8, CatAssociates
  <2>12. whole = Cat(Cat(a, Cat(Cat(b, c), d)), e)
    BY <2>4, <2>5, <2>7
  <2>13. whole = Cat(a, Cat(Cat(b, c), Cat(d, e)))
    BY <2>9, <2>10, <2>11, <2>12
  <2>14. whole = Cat(Cat(Cat(a, b), c), Cat(d, e)) /\ Cat(d, e) \in L
    BY <2>9, <2>10, <2>11, <2>13
  <2>15. whole = Cat(Cat(Joined(levels, j), f[NodeAt(ns, stack, j)]), Cat(d, e))
    BY <2>4, <2>14
  <2> QED BY <2>1, <2>8, <2>14, <2>15 DEF Continues, Cat
<1>5. \A i \in Nat : i \in T
  BY <1>3, <1>4, SetInduction
<1>6. ASSUME NEW i \in 0 .. Len(stack)
      PROVE  Continues(D, Joined(levels, i) \o f[NodeAt(ns, stack, i)], whole)
  <2>1. i \in Nat /\ i <= Len(stack)
    BY DEF IsPath, IsSequence
  <2> QED BY <1>1, <1>5, <2>1
<1> QED BY <1>1, <1>6

IsDone(ns, stack, i) == stack[i][2] + 1 = Arity(ns, stack[i][1])

(* When the last child of every level above the i-th is visited, the tree  *)
(* at the i-th level is.                                                   *)
LEMMA LevelsClose ==
  ASSUME NEW ns, IsTree(ns), Len(ns) # 0, NEW f, IsPreOrder(ns, f),
         NEW stack, IsPath(ns, stack)
  PROVE  \A i \in 0 .. Len(stack) :
           (\A j \in i + 1 .. Len(stack) : IsDone(ns, stack, j)) =>
             Joined(Levels(ns, f, stack), Len(stack)) \o f[NodeAt(ns, stack, Len(stack))]
               = Joined(Levels(ns, f, stack), i) \o f[NodeAt(ns, stack, i)]
<1>1. PICK D, levels, k : D = DOMAIN ns /\ levels = Levels(ns, f, stack) /\ k = Len(stack)
  OBVIOUS
<1>2. PICK upto : upto = [i \in Nat |-> Joined(levels, i) \o f[NodeAt(ns, stack, i)]]
  OBVIOUS
<1>3. k \in Nat
  BY <1>1 DEF IsPath, IsSequence
<1>4. ASSUME NEW i \in 1 .. k, IsDone(ns, stack, i)
      PROVE  upto[i] = upto[i - 1]
  <2>1. i \in 1 .. Len(stack)
    BY <1>1
  <2>2. PICK n, p, a, b, c : AtLevel(ns, f, stack, i, n, p, a, b, c)
    BY <2>1, LevelNext
  <2>3. /\ Joined(levels, i) = Cat(a, b) /\ a = Joined(levels, i - 1)
        /\ n \in D /\ n = NodeAt(ns, stack, i - 1) /\ c = f[NodeAt(ns, stack, i)]
        /\ Before(ns, f, n, p + 1) = Cat(b, c)
    BY <1>1, <2>2 DEF AtLevel
  <2>4. a \in Seq(D) /\ b \in Seq(D) /\ c \in Seq(D)
    BY <1>1, <2>2 DEF AtLevel
  <2>5. f[n] = Cat(b, c)
    <3>1. p + 1 = Arity(ns, n)
      BY <1>4, <2>2 DEF IsDone, AtLevel
    <3>2. Before(ns, f, n, Arity(ns, n)) = f[n]
      BY <1>1, <2>3, BeforeGrows
    <3> QED BY <2>3, <3>1, <3>2
  <2>6. Cat(Cat(a, b), c) = Cat(a, Cat(b, c))
    BY <2>4, CatAssociates
  <2>7. i \in Nat /\ i - 1 \in Nat
    OBVIOUS
  <2>8. upto[i] = Cat(Joined(levels, i), f[NodeAt(ns, stack, i)])
    BY <1>2, <2>7 DEF Cat
  <2>9. upto[i - 1] = Cat(Joined(levels, i - 1), f[NodeAt(ns, stack, i - 1)])
    BY <1>2, <2>7 DEF Cat
  <2> QED BY <2>3, <2>5, <2>6, <2>8, <2>9
<1>5. PICK T : T = {m \in Nat : m <= k =>
                      ((\A j \in (k - m) + 1 .. k : IsDone(ns, stack, j)) => upto[k] = upto[k - m])}
  OBVIOUS
<1>6. 0 \in T
  BY <1>3, <1>5
<1>7. ASSUME NEW m \in Nat, m \in T
      PROVE  m + 1 \in T
  <2> SUFFICES ASSUME m + 1 <= k, \A j \in (k - (m + 1)) + 1 .. k : IsDone(ns, stack, j)
               PROVE  upto[k] = upto[k - (m + 1)]
    BY <1>5
  <2>1. PICK i : i = k - m
    OBVIOUS
  <2>2. i \in 1 .. k /\ i - 1 = k - (m + 1) /\ m <= k /\ i \in (k - (m + 1)) + 1 .. k
    BY <1>3, <2>1
  <2>3. \A j \in (k - m) + 1 .. k : j \in (k - (m + 1)) + 1 .. k
    BY <1>3
  <2>4. upto[k] = upto[i]
    BY <1>5, <1>7, <2>1, <2>2, <2>3
  <2> QED BY <1>4, <2>2, <2>4
<1>8. \A m \in Nat : m \in T
  BY <1>6, <1>7, SetInduction
<1>9. ASSUME NEW i \in 0 .. k, \A j \in i + 1 .. k : IsDone(ns, stack, j)
      PROVE  upto[k] = upto[i]
  <2>1. PICK m : m = k - i
    OBVIOUS
  <2>2. m \in Nat /\ k - m = i /\ m <= k
    BY <1>3, <2>1
  <2> QED BY <1>5, <1>8, <1>9, <2>2
<1>10. \A i \in 0 .. k : upto[i] = Joined(levels, i) \o f[NodeAt(ns, stack, i)]
  BY <1>2
<1>11. k \in 0 .. k
  BY <1>3
<1> QED BY <1>1, <1>9, <1>10, <1>11

(* A path that is cut at a level and goes on at one of the children there. *)
GoesOn(stack, m, n, p, next) ==
  /\ IsSequence(next) /\ Len(next) = m + 1 /\ next[m + 1] = <<n, p>>
  /\ \A i \in 1 .. m : next[i] = stack[i]

LEMMA PathExtends ==
  ASSUME NEW ns, IsTree(ns), NEW f, IsPreOrder(ns, f), NEW stack, IsPath(ns, stack),
         NEW m \in 0 .. Len(stack), NEW n \in DOMAIN ns, n = NodeAt(ns, stack, m),
         NEW p \in Nat, p < Arity(ns, n),
         NEW next, GoesOn(stack, m, n, p, next)
  PROVE  /\ IsPath(ns, next)
         /\ VisitedOn(ns, f, next) = Cat(Joined(Levels(ns, f, stack), m), Before(ns, f, n, p))
<1>0. /\ IsSequence(next) /\ Len(next) = m + 1 /\ next[m + 1] = <<n, p>>
      /\ \A i \in 1 .. m : next[i] = stack[i]
  BY DEF GoesOn
<1>1. PICK k : k = m + 1
  OBVIOUS
<1>2. /\ k \in Nat /\ k # 0 /\ Len(next) = k /\ k \in 1 .. k /\ k - 1 = m /\ m \in Nat
      /\ next[k][1] = n /\ next[k][2] = p
  BY <1>0, <1>1 DEF IsPath, IsSequence
<1>3. ASSUME NEW i \in 1 .. k
      PROVE  NodeAt(ns, next, i - 1) = NodeAt(ns, stack, i - 1)
  <2>1. CASE i = 1
    BY <2>1 DEF NodeAt
  <2>2. CASE i # 1
    <3>1. i - 1 \in 1 .. m
      BY <1>2, <2>2
    <3> QED BY <1>0, <3>1 DEF NodeAt
  <2> QED BY <2>1, <2>2
<1>4. ASSUME NEW i \in 1 .. k
      PROVE  /\ next[i][1] \in DOMAIN ns /\ next[i][1] = NodeAt(ns, next, i - 1)
             /\ next[i][2] \in Nat /\ next[i][2] < Arity(ns, next[i][1])
  <2>1. CASE i = k
    BY <1>2, <1>3, <2>1
  <2>2. CASE i # k
    <3>1. i \in 1 .. m /\ i \in 1 .. Len(stack)
      BY <1>2, <2>2 DEF IsPath, IsSequence
    <3> QED BY <1>0, <1>3, <3>1 DEF IsPath
  <2> QED BY <2>1, <2>2
<1>5. IsPath(ns, next)
  BY <1>0, <1>2, <1>4 DEF IsPath
<1>6. PICK D, old, new : /\ D = DOMAIN ns /\ old = Levels(ns, f, stack)
                         /\ new = Levels(ns, f, next)
  OBVIOUS
<1>7. AreSequences(D, new, k)
  BY <1>2, <1>5, <1>6, LevelsTyped
<1>8. Joined(new, k) = Joined(new, m) \o new[k]
  <2>1. k \in Nat /\ k \in 1 .. k
    BY <1>2
  <2>2. Joined(new, k) = Joined(new, k - 1) \o new[k]
    BY <1>7, <2>1, JoinedNext
  <2> QED BY <1>2, <2>2
<1>9. new[k] = Before(ns, f, n, p)
  BY <1>2, <1>6 DEF Levels
<1>10. Joined(new, m) = Joined(old, m)
  <2>1. ASSUME NEW i \in 1 .. m
        PROVE  new[i] = old[i]
    <3>1. i \in 1 .. Len(next) /\ i \in 1 .. Len(stack)
      BY <1>2 DEF IsPath, IsSequence
    <3> QED BY <1>0, <1>6, <3>1 DEF Levels
  <2> QED BY <2>1, JoinedSame
<1> QED BY <1>2, <1>5, <1>6, <1>8, <1>9, <1>10 DEF VisitedOn, Cat

(* The iterator's operators, in the words used here.                       *)
LEMMA OnPath ==
  ASSUME IsTree(nodes), NEW stack, IsPath(nodes, stack)
  PROVE  /\ ~ AtStart(stack)
         /\ Current(stack) = NodeAt(nodes, stack, Len(stack))
         /\ Advance(stack) = AdvanceWithin(stack)
<1>1. Len(stack) \in 1 .. Len(stack) /\ Len(stack) # 0
  BY DEF IsPath, IsSequence
<1>2. stack[Len(stack)][1] \in DOMAIN nodes
  BY <1>1 DEF IsPath
<1>3. ~ AtStart(stack)
  BY <1>2 DEF AtStart, Last, IsTree
<1>4. Current(stack) = NodeAt(nodes, stack, Len(stack))
  BY <1>1, <1>3 DEF Current, ChildAt, Last, NodeAt, Kid
<1> QED BY <1>3, <1>4 DEF Advance

LEMMA SiblingKeeps ==
  ASSUME IsTree(nodes), Len(nodes) # 0, NEW f, IsPreOrder(nodes, f),
         NEW stack, IsPath(nodes, stack)
  PROVE  LET next == NextSibling(stack)
             full == VisitedOn(nodes, f, stack) \o f[NodeAt(nodes, stack, Len(stack))]
         IN  \/ next = <<>> /\ full = f[Len(nodes)]
             \/ IsPath(nodes, next) /\ full = VisitedOn(nodes, f, next)
<1>1. PICK D, levels, k, full, next :
        /\ D = DOMAIN nodes /\ levels = Levels(nodes, f, stack) /\ k = Len(stack)
        /\ full = VisitedOn(nodes, f, stack) \o f[NodeAt(nodes, stack, Len(stack))]
        /\ next = NextSibling(stack)
  OBVIOUS
<1>2. k \in Nat /\ DOMAIN stack = 1 .. k
  BY <1>1 DEF IsPath, IsSequence
<1>3. PICK open : open = {i \in 1 .. k : stack[i][2] + 1 < Arity(nodes, stack[i][1])}
  OBVIOUS
<1>4. open = {i \in DOMAIN stack : stack[i][2] + 1 < ArityOf(stack[i][1])}
  BY <1>2, <1>3 DEF ArityOf, Arity
<1>5. ASSUME NEW i \in 1 .. k, i \notin open
      PROVE  IsDone(nodes, stack, i)
  <2>1. PICK p, q : p = stack[i][2] /\ q = Arity(nodes, stack[i][1])
    OBVIOUS
  <2>2. p \in Nat /\ p < q /\ ~ (p + 1 < q) /\ stack[i][1] \in DOMAIN nodes
    BY <1>1, <1>3, <1>5, <2>1 DEF IsPath
  <2>3. q \in Nat
    BY <2>1, <2>2 DEF IsTree
  <2> QED BY <2>1, <2>2, <2>3 DEF IsDone
<1>6. ASSUME NEW i \in 0 .. k, \A j \in i + 1 .. k : IsDone(nodes, stack, j)
      PROVE  full = Cat(Joined(levels, i), f[NodeAt(nodes, stack, i)])
  BY <1>1, <1>6, LevelsClose DEF VisitedOn, Cat
<1>7. CASE open = {}
  <2>1. next = <<>>
    BY <1>1, <1>4, <1>7 DEF NextSibling
  <2>2. 0 \in 0 .. k /\ \A j \in 0 + 1 .. k : IsDone(nodes, stack, j)
    BY <1>2, <1>5, <1>7
  <2>3. full = Cat(Joined(levels, 0), f[NodeAt(nodes, stack, 0)])
    BY <1>6, <2>2
  <2>4. Joined(levels, 0) = <<>> /\ NodeAt(nodes, stack, 0) = Len(nodes)
    BY JoinedNone DEF NodeAt
  <2>5. f[Len(nodes)] \in Seq(D)
    <3>1. Len(nodes) \in DOMAIN nodes
      BY DEF IsTree
    <3> QED BY <1>1, <3>1, PreOrderTyped
  <2>6. <<>> \o f[Len(nodes)] = f[Len(nodes)]
    BY <2>5, ConcatEmptySeq
  <2>7. full = f[Len(nodes)]
    BY <2>3, <2>4, <2>6 DEF Cat
  <2> QED BY <1>1, <2>1, <2>7
<1>8. CASE open # {}
  <2>1. \E i \in open : \A j \in open : i >= j
    <3>1. PICK T : T = {m \in Nat : k - m \in open}
      OBVIOUS
    <3>2. T \subseteq Nat /\ T # {}
      <4>1. PICK i \in open : TRUE
        BY <1>8
      <4>2. PICK m : m = k - i
        OBVIOUS
      <4>3. m \in Nat /\ k - m = i
        BY <1>2, <1>3, <4>1, <4>2
      <4> QED BY <3>1, <4>1, <4>3
    <3>3. PICK m \in T : \A x \in T : m <= x
      BY <3>2, SmallestOf
    <3>4. ASSUME NEW j \in open
          PROVE  k - m >= j
      <4>1. PICK x : x = k - j
        OBVIOUS
      <4>2. j \in 1 .. k
        BY <1>3
      <4>3. x \in Nat /\ k - x = j
        BY <1>2, <4>1, <4>2
      <4>4. m <= x /\ m \in Nat
        BY <3>1, <3>3, <4>3
      <4> QED BY <1>2, <4>2, <4>3, <4>4
    <3> QED BY <3>1, <3>3, <3>4
  <2>2. PICK i : i = Max(open)
    OBVIOUS
  <2>3. i \in open /\ \A j \in open : i >= j
    BY <2>1, <2>2 DEF Max
  <2>4. i \in 1 .. k /\ i \in 0 .. k /\ i \in Nat
    BY <1>2, <1>3, <2>3
  <2>5. \A j \in i + 1 .. k : IsDone(nodes, stack, j)
    <3>1. ASSUME NEW j \in i + 1 .. k
          PROVE  IsDone(nodes, stack, j)
      <4>1. j \in 1 .. k /\ ~ (i >= j)
        BY <1>2, <2>4
      <4> QED BY <1>5, <2>3, <4>1
    <3> QED BY <3>1
  <2>6. full = Cat(Joined(levels, i), f[NodeAt(nodes, stack, i)])
    BY <1>6, <2>4, <2>5
  <2>7. i \in 1 .. Len(stack)
    BY <1>1, <2>4
  <2>8. PICK n, p, a, b, c : AtLevel(nodes, f, stack, i, n, p, a, b, c)
    BY <2>7, LevelNext
  <2>9. /\ Joined(levels, i) = Cat(a, b) /\ a = Joined(levels, i - 1)
        /\ n \in D /\ n = NodeAt(nodes, stack, i - 1) /\ c = f[NodeAt(nodes, stack, i)]
        /\ n = stack[i][1] /\ p = stack[i][2] /\ p \in Nat
        /\ Before(nodes, f, n, p + 1) = Cat(b, c)
    BY <1>1, <2>8 DEF AtLevel
  <2>10. a \in Seq(D) /\ b \in Seq(D) /\ c \in Seq(D)
    BY <1>1, <2>8 DEF AtLevel
  <2>11. Cat(Cat(a, b), c) = Cat(a, Cat(b, c))
    BY <2>10, CatAssociates
  <2>12. full = Cat(Joined(levels, i - 1), Before(nodes, f, n, p + 1))
    BY <2>6, <2>9, <2>11
  <2>13. PICK cut, m, q : cut = SubSeq(stack, 1, i - 1) /\ m = i - 1 /\ q = p + 1
    OBVIOUS
  <2>14. next = Append(cut, <<n, q>>)
    BY <1>1, <1>4, <1>8, <2>2, <2>9, <2>13 DEF NextSibling
  <2>15. m \in Nat /\ m \in 0 .. Len(stack) /\ q \in Nat /\ q < Arity(nodes, n)
    BY <1>1, <1>3, <2>3, <2>4, <2>9, <2>13
  <2>16. IsSequence(cut) /\ Len(cut) = m /\ \A j \in 1 .. m : cut[j] = stack[j]
    <3>1. PICK S : S = {stack[j] : j \in 1 .. k}
      OBVIOUS
    <3>2. \A j \in 1 .. i - 1 : stack[j] \in S
      BY <1>2, <2>4, <3>1
    <3>3. 1 \in Int /\ i - 1 \in Int
      BY <2>4
    <3>4. /\ SubSeq(stack, 1, i - 1) \in Seq(S)
          /\ Len(SubSeq(stack, 1, i - 1)) = IF 1 <= i - 1 THEN (i - 1) - 1 + 1 ELSE 0
          /\ \A j \in 1 .. (i - 1) - 1 + 1 : SubSeq(stack, 1, i - 1)[j] = stack[1 + j - 1]
      BY <3>2, <3>3, SubSeqProperties
    <3>5. cut \in Seq(S)
      BY <2>13, <3>4
    <3>6. Len(cut) = m
      BY <2>4, <2>13, <3>4
    <3>7. \A j \in 1 .. m : cut[j] = stack[j]
      <4>1. ASSUME NEW j \in 1 .. m
            PROVE  cut[j] = stack[j]
        <5>1. j \in 1 .. (i - 1) - 1 + 1 /\ 1 + j - 1 = j
          BY <2>4, <2>13
        <5> QED BY <2>13, <3>4, <5>1
      <4> QED BY <4>1
    <3>8. IsSequence(cut)
      BY <3>5, LenProperties DEF IsSequence
    <3> QED BY <3>6, <3>7, <3>8
  <2>17. /\ IsSequence(next) /\ Len(next) = m + 1 /\ next[m + 1] = <<n, q>>
         /\ \A j \in 1 .. m : next[j] = stack[j]
    <3>1. PICK e : e = <<n, q>>
      OBVIOUS
    <3>2. next = Append(cut, e)
      BY <2>14, <3>1
    <3>3. DOMAIN cut = 1 .. m
      BY <2>16 DEF IsSequence
    <3>4. /\ IsSequence(next) /\ Len(next) = m + 1 /\ next[m + 1] = e
          /\ \A j \in DOMAIN cut : next[j] = cut[j]
      BY <2>16, <3>2, AppendToSequence
    <3> QED BY <2>16, <3>1, <3>3, <3>4
  <2>18. n \in DOMAIN nodes /\ n = NodeAt(nodes, stack, m) /\ IsPath(nodes, stack)
    BY <1>1, <2>9, <2>13
  <2>19. /\ IsPath(nodes, next)
         /\ VisitedOn(nodes, f, next) = Cat(Joined(Levels(nodes, f, stack), m), Before(nodes, f, n, q))
    <3>1. GoesOn(stack, m, n, q, next)
      BY <2>17 DEF GoesOn
    <3> QED BY <2>15, <2>18, <3>1, PathExtends
  <2>20. full = VisitedOn(nodes, f, next)
    BY <1>1, <2>12, <2>13, <2>19
  <2> QED BY <1>1, <2>19, <2>20
<1> QED BY <1>7, <1>8

-----------------------------------------------------------------------------
(* What a walk has visited at any moment. *)

LEMMA RootPath ==
  ASSUME NEW ns, IsTree(ns), NEW f, IsPreOrder(ns, f), Len(ns) # 0, Arity(ns, Len(ns)) > 0
  PROVE  /\ IsPath(ns, <<<<Len(ns), 0>>>>)
         /\ VisitedOn(ns, f, <<<<Len(ns), 0>>>>) = <<Len(ns)>>
<1>1. PICK n, level, stack : n = Len(ns) /\ level = <<n, 0>> /\ stack = <<level>>
  OBVIOUS
<1>2. /\ Len(stack) = 1 /\ stack[1] = level /\ level[1] = n /\ level[2] = 0
      /\ IsSequence(stack)
  BY <1>1 DEF IsSequence
<1>3. n \in DOMAIN ns /\ n = NodeAt(ns, stack, 0)
  BY <1>1 DEF NodeAt, IsTree
<1>4. IsPath(ns, stack)
  BY <1>1, <1>2, <1>3 DEF IsPath
<1>5. PICK D, levels : D = DOMAIN ns /\ levels = Levels(ns, f, stack)
  OBVIOUS
<1>6. levels[1] = <<n>>
  BY <1>2, <1>5, BeforeFirst DEF Levels
<1>7. Joined(levels, 1) = Joined(levels, 0) \o levels[1]
  <2>1. AreSequences(D, levels, 1)
    BY <1>2, <1>4, <1>5, LevelsTyped
  <2>2. 1 \in 1 .. 1 /\ 1 \in Nat
    OBVIOUS
  <2>3. Joined(levels, 1) = Joined(levels, 1 - 1) \o levels[1]
    BY <2>1, <2>2, JoinedNext
  <2> QED BY <2>3
<1>8. <<>> \o <<n>> = <<n>>
  <2>1. <<n>> \in Seq({n})
    OBVIOUS
  <2> QED BY <2>1, ConcatEmptySeq
<1> QED BY <1>1, <1>2, <1>4, <1>5, <1>6, <1>7, <1>8, JoinedNone DEF VisitedOn

(* A turn of the iterator on a path.                                       *)
LEMMA AdvanceKeeps ==
  ASSUME IsTree(nodes), Len(nodes) # 0, NEW f, IsPreOrder(nodes, f),
         NEW stack, IsPath(nodes, stack)
  PROVE  LET next == Advance(stack)
             full == Cat(VisitedOn(nodes, f, stack), <<Current(stack)>>)
         IN  /\ Current(stack) \in DOMAIN nodes
             /\ VisitedOn(nodes, f, stack) \in Seq(DOMAIN nodes)
             /\ \/ next = <<>> /\ full = f[Len(nodes)]
                \/ IsPath(nodes, next) /\ full = VisitedOn(nodes, f, next)
<1>1. PICK D, k, x, next, visited :
        /\ D = DOMAIN nodes /\ k = Len(stack) /\ x = Current(stack) /\ next = Advance(stack)
        /\ visited = VisitedOn(nodes, f, stack)
  OBVIOUS
<1>2. k \in Nat /\ k \in 0 .. k /\ k \in 0 .. Len(stack)
  BY <1>1 DEF IsPath, IsSequence
<1>3. x = NodeAt(nodes, stack, k) /\ next = AdvanceWithin(stack)
  BY <1>1, OnPath
<1>4. x \in D
  BY <1>1, <1>2, <1>3, NodeOnPath
<1>5. visited \in Seq(D)
  <2>1. PICK levels : levels = Levels(nodes, f, stack)
    OBVIOUS
  <2>2. AreSequences(D, levels, k)
    BY <1>1, <2>1, LevelsTyped
  <2>3. Joined(levels, k) \in Seq(D)
    BY <1>2, <2>2, JoinedTyped
  <2> QED BY <1>1, <2>1, <2>3 DEF VisitedOn
<1>6. ArityOf(x) = Arity(nodes, x) /\ Arity(nodes, x) \in Nat
  BY <1>1, <1>4 DEF ArityOf, Arity, IsTree
<1>7. CASE Arity(nodes, x) > 0
  <2>1. PICK level : level = <<x, 0>>
    OBVIOUS
  <2>2. next = Append(stack, level)
    BY <1>1, <1>3, <1>6, <1>7, <2>1 DEF AdvanceWithin
  <2>3. /\ IsSequence(next) /\ Len(next) = k + 1 /\ next[k + 1] = level
        /\ \A i \in DOMAIN stack : next[i] = stack[i]
    BY <1>1, <2>2, AppendToSequence DEF IsPath
  <2>4. GoesOn(stack, k, x, 0, next)
    <3>1. DOMAIN stack = 1 .. k
      BY <1>1 DEF IsPath, IsSequence
    <3> QED BY <2>1, <2>3, <3>1 DEF GoesOn
  <2>5. x \in DOMAIN nodes /\ 0 \in Nat /\ 0 < Arity(nodes, x)
    BY <1>1, <1>4, <1>6, <1>7
  <2>6. /\ IsPath(nodes, next)
        /\ VisitedOn(nodes, f, next) = Cat(Joined(Levels(nodes, f, stack), k), Before(nodes, f, x, 0))
    BY <1>2, <1>3, <2>4, <2>5, PathExtends
  <2>7. VisitedOn(nodes, f, next) = Cat(visited, <<x>>)
    BY <1>1, <2>6, BeforeFirst DEF VisitedOn
  <2> QED BY <1>1, <1>4, <1>5, <2>6, <2>7
<1>8. CASE ~ (Arity(nodes, x) > 0)
  <2>1. next = NextSibling(stack)
    BY <1>1, <1>3, <1>6, <1>8 DEF AdvanceWithin
  <2>2. f[x] = <<x>>
    <3>1. Arity(nodes, x) = 0
      BY <1>6, <1>8
    <3>2. Before(nodes, f, x, Arity(nodes, x)) = f[x]
      BY <1>1, <1>4, BeforeGrows
    <3> QED BY <3>1, <3>2, BeforeFirst
  <2>3. PICK full : full = VisitedOn(nodes, f, stack) \o f[NodeAt(nodes, stack, Len(stack))]
    OBVIOUS
  <2>4. \/ next = <<>> /\ full = f[Len(nodes)]
        \/ IsPath(nodes, next) /\ full = VisitedOn(nodes, f, next)
    BY <2>1, <2>3, SiblingKeeps
  <2>5. full = Cat(visited, <<x>>)
    BY <1>1, <1>3, <2>2, <2>3 DEF Cat
  <2> QED BY <1>1, <1>4, <1>5, <2>4, <2>5
<1> QED BY <1>7, <1>8

(* Before the first turn of an inclusive walk, on a path, and at the end.  *)
(* The walk over the descendants begins below the node itself.             *)
FullOf(ns, phase, visited) ==
  IF phase = "inclusive" THEN visited ELSE Cat(<<Len(ns)>>, visited)

WalkedTo(ns, f, phase, stack, visited) ==
  /\ visited \in Seq(DOMAIN ns)
  /\ \/ phase = "inclusive" /\ stack = <<<<0, 0>>>> /\ visited = <<>>
     \/ IsPath(ns, stack) /\ FullOf(ns, phase, visited) = VisitedOn(ns, f, stack)
     \/ stack = <<>> /\ FullOf(ns, phase, visited) = f[Len(ns)]

LEMMA VisitKeeps ==
  ASSUME IsTree(nodes), Len(nodes) # 0, NEW f, IsPreOrder(nodes, f), NEW phase,
         NEW stack, stack # <<>>, NEW visited, WalkedTo(nodes, f, phase, stack, visited)
  PROVE  WalkedTo(nodes, f, phase, Advance(stack), Append(visited, Current(stack)))
<1>1. PICK D, x, next, then :
        /\ D = DOMAIN nodes /\ x = Current(stack) /\ next = Advance(stack)
        /\ then = Append(visited, x)
  OBVIOUS
<1>2. visited \in Seq(D)
  BY <1>1 DEF WalkedTo
<1>3. CASE phase = "inclusive" /\ stack = <<<<0, 0>>>> /\ visited = <<>>
  <2>1. PICK n : n = Len(nodes)
    OBVIOUS
  <2>2. n \in D
    BY <1>1, <2>1 DEF IsTree
  <2>3. AtStart(stack)
    <3>1. PICK level : level = <<0, 0>> /\ stack = <<level>>
      BY <1>3
    <3>2. Last(stack) = level /\ level[1] = 0
      BY <3>1 DEF Last
    <3> QED BY <3>2 DEF AtStart
  <2>4. x = n
    BY <1>1, <2>1, <2>3 DEF Current, Root
  <2>5. then = <<n>>
    BY <1>1, <1>3, <2>4
  <2>6. then \in Seq(D) /\ FullOf(nodes, phase, then) = <<n>>
    BY <1>3, <2>2, <2>5 DEF FullOf
  <2>7. ArityOf(Root) = Arity(nodes, n) /\ Arity(nodes, n) \in Nat
    BY <1>1, <2>1, <2>2 DEF ArityOf, Arity, Root, IsTree
  <2>8. CASE Arity(nodes, n) = 0
    <3>1. next = <<>>
      BY <1>1, <2>3, <2>7, <2>8 DEF Advance
    <3>2. Before(nodes, f, n, Arity(nodes, n)) = f[n]
      BY <1>1, <2>2, BeforeGrows
    <3>3. f[n] = <<n>>
      BY <2>8, <3>2, BeforeFirst
    <3> QED BY <1>1, <2>1, <2>6, <3>1, <3>3 DEF WalkedTo
  <2>9. CASE Arity(nodes, n) # 0
    <3>1. Arity(nodes, n) > 0
      BY <2>7, <2>9
    <3>2. next = <<<<n, 0>>>>
      BY <1>1, <2>1, <2>3, <2>7, <3>1 DEF Advance, Root
    <3>3. IsPath(nodes, next) /\ VisitedOn(nodes, f, next) = <<n>>
      BY <2>1, <3>1, <3>2, RootPath
    <3> QED BY <1>1, <2>6, <3>3 DEF WalkedTo
  <2> QED BY <2>8, <2>9
<1>4. CASE IsPath(nodes, stack) /\ FullOf(nodes, phase, visited) = VisitedOn(nodes, f, stack)
  <2>1. PICK full : full = FullOf(nodes, phase, visited)
    OBVIOUS
  <2>2. /\ x \in D
        /\ \/ next = <<>> /\ Cat(full, <<x>>) = f[Len(nodes)]
           \/ IsPath(nodes, next) /\ Cat(full, <<x>>) = VisitedOn(nodes, f, next)
    BY <1>1, <1>4, <2>1, AdvanceKeeps
  <2>3. then \in Seq(D) /\ then = Cat(visited, <<x>>)
    BY <1>1, <1>2, <2>2, AppendProperties, AppendIsConcat DEF Cat
  <2>4. FullOf(nodes, phase, then) = Cat(full, <<x>>)
    <3>1. CASE phase = "inclusive"
      BY <2>1, <2>3, <3>1 DEF FullOf
    <3>2. CASE phase # "inclusive"
      <4>1. PICK one, last : one = <<Len(nodes)>> /\ last = <<x>>
        OBVIOUS
      <4>2. Len(nodes) \in D
        BY <1>1 DEF IsTree
      <4>3. one \in Seq(D) /\ last \in Seq(D)
        BY <2>2, <4>1, <4>2
      <4>4. Cat(Cat(one, visited), last) = Cat(one, Cat(visited, last))
        BY <1>2, <4>3, CatAssociates
      <4> QED BY <2>1, <2>3, <3>2, <4>1, <4>4 DEF FullOf
    <3> QED BY <3>1, <3>2
  <2> QED BY <1>1, <2>2, <2>3, <2>4 DEF WalkedTo
<1> QED BY <1>3, <1>4 DEF WalkedTo

(* What is visited is the beginning of the preorder.                       *)
LEMMA BeginningIsPrefix ==
  ASSUME NEW S, NEW s \in Seq(S), NEW t \in Seq(S), t # <<>>
  PROVE  IsStrictPrefix(s, Cat(s, t))
<1>1. PICK st : st = s \o t
  OBVIOUS
<1>2. /\ st \in Seq(S) /\ Len(st) = Len(s) + Len(t)
      /\ \A i \in 1 .. Len(s) + Len(t) : st[i] = IF i <= Len(s) THEN s[i] ELSE t[i - Len(s)]
  BY <1>1, ConcatProperties
<1>3. Len(s) \in Nat /\ Len(t) \in Nat /\ Len(t) # 0
  BY EmptySeq, LenProperties
<1>4. st # s
  BY <1>2, <1>3
<1>5. SubSeq(s, 1, Len(s)) = SubSeq(st, 1, Len(s))
  <2>1. CASE Len(s) = 0
    BY <2>1, SubSeqEmpty
  <2>2. CASE Len(s) # 0
    <3>1. PICK n : n = Len(s)
      OBVIOUS
    <3>2. 1 \in 1 .. Len(s) /\ n \in 1 .. Len(s)
      BY <1>3, <2>2, <3>1
    <3>3. SubSeq(s \o t, 1, n) = SubSeq(s, 1, n)
      BY <3>2, SubSeqOfConcat1
    <3> QED BY <1>1, <3>1, <3>3
  <2> QED BY <2>1, <2>2
<1>6. IsPrefix(s, st)
  BY <1>2, <1>3, <1>5 DEF IsPrefix
<1> QED BY <1>1, <1>4, <1>6 DEF IsStrictPrefix, Cat

LEMMA TailOfCat ==
  ASSUME NEW S, NEW n \in S, NEW s \in Seq(S)
  PROVE  Tail(Cat(<<n>>, s)) = s
<1>1. PICK one, t : one = <<n>> /\ t = one \o s
  OBVIOUS
<1>2. one \in Seq(S) /\ Len(one) = 1
  BY <1>1
<1>3. /\ t \in Seq(S) /\ Len(t) = Len(one) + Len(s)
      /\ \A i \in 1 .. Len(one) + Len(s) :
           t[i] = IF i <= Len(one) THEN one[i] ELSE s[i - Len(one)]
  BY <1>1, <1>2, ConcatProperties
<1>4. Len(s) \in Nat
  BY LenProperties
<1>5. t # <<>>
  BY <1>2, <1>3, <1>4, EmptySeq
<1>6. /\ Tail(t) \in Seq(S) /\ Len(Tail(t)) = Len(t) - 1
      /\ \A i \in 1 .. Len(Tail(t)) : Tail(t)[i] = t[i + 1]
  BY <1>3, <1>5, HeadTailProperties
<1>7. PICK u : u = Tail(t)
  OBVIOUS
<1>8. u \in Seq(S) /\ Len(u) = Len(s)
  BY <1>2, <1>3, <1>4, <1>6, <1>7
<1>9. ASSUME NEW i \in 1 .. Len(u)
      PROVE  u[i] = s[i]
  <2>1. u[i] = t[i + 1]
    BY <1>6, <1>7
  <2>2. i + 1 \in 1 .. Len(one) + Len(s) /\ ~ (i + 1 <= Len(one)) /\ (i + 1) - Len(one) = i
    BY <1>2, <1>4, <1>8
  <2> QED BY <1>3, <2>1, <2>2
<1>10. u = s
  BY <1>8, <1>9, SeqEqual
<1> QED BY <1>1, <1>7, <1>10 DEF Cat

(* The nodes that the walk is to visit.                                    *)
ToVisit(ns, f, phase) == IF phase = "inclusive" THEN f[Len(ns)] ELSE Tail(f[Len(ns)])

LEMMA WalkedDecides ==
  ASSUME NEW ns, IsTree(ns), Len(ns) # 0, NEW f, IsPreOrder(ns, f), NEW phase,
         NEW stack, NEW visited, WalkedTo(ns, f, phase, stack, visited)
  PROVE  IF stack = <<>> THEN visited = ToVisit(ns, f, phase)
                         ELSE IsStrictPrefix(visited, ToVisit(ns, f, phase))
<1>1. PICK D, n, whole, full : /\ D = DOMAIN ns /\ n = Len(ns) /\ whole = f[n]
                               /\ full = FullOf(ns, phase, visited)
  OBVIOUS
<1>2. n \in D /\ whole \in Seq(D) /\ visited \in Seq(D)
  <2>1. n \in DOMAIN ns
    BY <1>1 DEF IsTree
  <2> QED BY <1>1, <2>1, PreOrderTyped DEF WalkedTo
<1>3. \A x \in D : f[x] # <<>> /\ f[x] \in Seq(D)
  <2>1. ASSUME NEW x \in D
        PROVE  f[x] # <<>> /\ f[x] \in Seq(D)
    <3>1. f[x] \in Seq(D)
      BY <1>1, PreOrderTyped
    <3>2. PICK rest \in Seq(D) : f[x] = <<x>> \o rest
      <4>1. Continues(D, Before(ns, f, x, 0), f[x])
        <5>1. 0 \in 0 .. Arity(ns, x)
          BY <1>1, BeforeGrows
        <5> QED BY <1>1, <5>1, BeforeGrows
      <4> QED BY <4>1, BeforeFirst DEF Continues
    <3>3. PICK one : one = <<x>>
      OBVIOUS
    <3>4. one \in Seq(D) /\ one # <<>>
      BY <3>3
    <3>5. one \o rest # <<>>
      BY <3>4, ConcatEqualIffEmpty
    <3> QED BY <3>1, <3>2, <3>3, <3>5
  <2> QED BY <2>1
<1>4. ASSUME NEW t \in Seq(D), whole = Cat(full, t)
      PROVE  ToVisit(ns, f, phase) = Cat(visited, t)
  <2>1. CASE phase = "inclusive"
    BY <1>1, <1>4, <2>1 DEF ToVisit, FullOf
  <2>2. CASE phase # "inclusive"
    <3>1. PICK one, rest : one = <<n>> /\ rest = Cat(visited, t)
      OBVIOUS
    <3>2. one \in Seq(D)
      BY <1>2, <3>1
    <3>3. Cat(Cat(one, visited), t) = Cat(one, Cat(visited, t))
      BY <1>2, <1>4, <3>2, CatAssociates
    <3>4. rest \in Seq(D)
      BY <1>2, <1>4, <3>1, CatAssociates
    <3>5. whole = Cat(<<n>>, rest)
      BY <1>1, <1>4, <2>2, <3>1, <3>3 DEF FullOf
    <3>6. Tail(whole) = rest
      BY <1>2, <3>4, <3>5, TailOfCat
    <3> QED BY <1>1, <2>2, <3>1, <3>6 DEF ToVisit
  <2> QED BY <2>1, <2>2
<1>5. CASE phase = "inclusive" /\ stack = <<<<0, 0>>>> /\ visited = <<>>
  <2>1. whole = Cat(visited, whole) /\ ToVisit(ns, f, phase) = whole
    BY <1>1, <1>2, <1>5, ConcatEmptySeq DEF Cat, ToVisit
  <2>2. IsStrictPrefix(visited, Cat(visited, whole))
    BY <1>1, <1>2, <1>3, BeginningIsPrefix
  <2>3. stack # <<>>
    BY <1>5
  <2> QED BY <2>1, <2>2, <2>3
<1>6. CASE IsPath(ns, stack) /\ full = VisitedOn(ns, f, stack)
  <2>1. PICK k, x : k = Len(stack) /\ x = NodeAt(ns, stack, Len(stack))
    OBVIOUS
  <2>2. k \in 0 .. Len(stack) /\ k # 0
    BY <1>6, <2>1 DEF IsPath, IsSequence
  <2>3. Continues(D, Joined(Levels(ns, f, stack), k) \o f[x], whole)
    BY <1>1, <1>6, <2>1, <2>2, WholeContinues
  <2>4. PICK r \in Seq(D) : whole = Cat(Cat(full, f[x]), r)
    BY <1>6, <2>1, <2>3 DEF Continues, Cat, VisitedOn
  <2>5. x \in D
    BY <1>1, <1>6, <2>1, <2>2, NodeOnPath
  <2>6. full \in Seq(D)
    <3>1. CASE phase = "inclusive"
      BY <1>1, <1>2, <3>1 DEF FullOf
    <3>2. CASE phase # "inclusive"
      <4>1. PICK one : one = <<n>>
        OBVIOUS
      <4>2. one \in Seq(D)
        BY <1>2, <4>1
      <4>3. Cat(one, visited) \in Seq(D)
        BY <1>2, <4>2, CatAssociates
      <4> QED BY <1>1, <3>2, <4>1, <4>3 DEF FullOf
    <3> QED BY <3>1, <3>2
  <2>7. PICK order, t : order = f[x] /\ t = Cat(order, r)
    OBVIOUS
  <2>8. order \in Seq(D) /\ order # <<>>
    BY <1>3, <2>5, <2>7
  <2>9. Cat(Cat(full, order), r) = Cat(full, t)
    BY <2>4, <2>6, <2>7, <2>8, CatAssociates
  <2>10. t \in Seq(D)
    BY <2>4, <2>7, <2>8, CatAssociates
  <2>11. t # <<>>
    <3>1. order \o r # <<>>
      BY <2>4, <2>8, ConcatEqualIffEmpty
    <3> QED BY <2>7, <3>1 DEF Cat
  <2>12. ToVisit(ns, f, phase) = Cat(visited, t)
    BY <1>4, <2>4, <2>7, <2>9, <2>10
  <2>13. IsStrictPrefix(visited, Cat(visited, t))
    BY <1>2, <2>10, <2>11, BeginningIsPrefix
  <2>14. stack # <<>>
    BY <2>1, <2>2
  <2> QED BY <2>12, <2>13, <2>14
<1>7. CASE stack = <<>> /\ full = whole
  <2>1. CASE phase = "inclusive"
    BY <1>1, <1>7, <2>1 DEF ToVisit, FullOf
  <2>2. CASE phase # "inclusive"
    <3>1. Tail(Cat(<<n>>, visited)) = visited
      BY <1>2, TailOfCat
    <3>2. whole = Cat(<<n>>, visited)
      BY <1>1, <1>7, <2>2 DEF FullOf
    <3> QED BY <1>1, <1>7, <2>2, <3>1, <3>2 DEF ToVisit
  <2> QED BY <2>1, <2>2
<1> QED BY <1>1, <1>5, <1>6, <1>7 DEF WalkedTo

-----------------------------------------------------------------------------
(* The nodes of a program are a tree. *)

LEMMA TuplesAreSequences ==
  /\ IsSequence(<<>>)
  /\ \A a : IsSequence(<<a>>)
  /\ \A a, b : IsSequence(<<a, b>>)
  /\ \A a, b, c : IsSequence(<<a, b, c>>)
  /\ \A a, b, c, d : IsSequence(<<a, b, c, d>>)
  /\ \A a, b, c, d, e : IsSequence(<<a, b, c, d, e>>)
BY DEF IsSequence

HasOperands(factory) == IsSequence(factory.operands)

LEMMA MembersHaveOperands ==
  /\ HasOperands(NewLeaf)
  /\ \A list : HasOperands(NewList(list))
  /\ \A a, list : HasOperands(NewVariadicNode(<<a>>, list))
  /\ \A a : HasOperands(NewNode(<<a>>))
  /\ \A a, b : HasOperands(NewNode(<<a, b>>))
  /\ \A a, b, c : HasOperands(NewNode(<<a, b, c>>))
  /\ \A a, b, c, d : HasOperands(NewNode(<<a, b, c, d>>))
  /\ \A a, b, c, d, e : HasOperands(NewNode(<<a, b, c, d, e>>))
BY TuplesAreSequences DEF HasOperands, NewNode, NewVariadicNode, NewList, NewLeaf

(* Every member of the factory stores a sequence of operands.              *)
LEMMA FactoriesHaveOperands ==
  ASSUME NEW code \in Codes
  PROVE  HasOperands(FactoryOf(code))
<1>1. \A c \in DOMAIN BindingFactories : HasOperands(BindingFactories[c])
  BY MembersHaveOperands DEF BindingFactories
<1>2. \A c \in DOMAIN CompilationUnitFactories : HasOperands(CompilationUnitFactories[c])
  BY MembersHaveOperands DEF CompilationUnitFactories
<1>3. \A c \in DOMAIN TokenFactories : HasOperands(TokenFactories[c])
  BY MembersHaveOperands DEF TokenFactories
<1>4. \A c \in DOMAIN DeclarationFactories : HasOperands(DeclarationFactories[c])
  BY MembersHaveOperands DEF DeclarationFactories
<1>5. \A c \in DOMAIN ExpressionFactories : HasOperands(ExpressionFactories[c])
  BY MembersHaveOperands DEF ExpressionFactories
<1>6. \A c \in DOMAIN JsDocFactories : HasOperands(JsDocFactories[c])
  BY MembersHaveOperands DEF JsDocFactories
<1>7. \A c \in DOMAIN LiteralFactories : HasOperands(LiteralFactories[c])
  BY MembersHaveOperands DEF LiteralFactories
<1>8. \A c \in DOMAIN RegExpFactories : HasOperands(RegExpFactories[c])
  BY MembersHaveOperands DEF RegExpFactories
<1>9. \A c \in DOMAIN FirstStatementFactories : HasOperands(FirstStatementFactories[c])
  BY MembersHaveOperands DEF FirstStatementFactories
<1>10. \A c \in DOMAIN LastStatementFactories : HasOperands(LastStatementFactories[c])
  <2>1. HasOperands([NewNode(<<"Statement">>) EXCEPT !.dropped = {"Label"}])
    BY TuplesAreSequences DEF HasOperands, NewNode
  <2> QED BY <2>1, MembersHaveOperands DEF LastStatementFactories
<1>11. \A c \in DOMAIN TypeFactories : HasOperands(TypeFactories[c])
  BY MembersHaveOperands DEF TypeFactories
<1>12. \A group \in AllFactories : \A c \in DOMAIN group : HasOperands(group[c])
  BY <1>1, <1>2, <1>3, <1>4, <1>5, <1>6, <1>7, <1>8, <1>9, <1>10, <1>11 DEF AllFactories
<1>13. PICK group : group = CHOOSE g \in AllFactories : code \in DOMAIN g
  OBVIOUS
<1>14. \E g \in AllFactories : code \in DOMAIN g
  BY DEF Codes
<1>15. group \in AllFactories /\ code \in DOMAIN group
  BY <1>13, <1>14
<1>16. FactoryOf(code) = group[code]
  BY <1>13 DEF FactoryOf
<1> QED BY <1>12, <1>15, <1>16

LEMMA ChildrenAreNodes ==
  ASSUME NEW S, NEW factory, HasOperands(factory),
         NEW operand, NEW list, list \in Seq(S),
         \A i \in DOMAIN factory.operands : operand[factory.operands[i]] \in S
  PROVE  ChildrenOf(factory, [operand |-> operand, list |-> list]) \in Seq(S)
<1>1. PICK k, arguments : /\ k = Len(factory.operands)
                          /\ arguments = [operand |-> operand, list |-> list]
  OBVIOUS
<1>2. k \in Nat /\ DOMAIN factory.operands = 1 .. k
  BY <1>1 DEF HasOperands, IsSequence
<1>3. PICK stored : stored = StoreOperands(factory.operands, arguments)
  OBVIOUS
<1>4. arguments.operand = operand /\ arguments.list = list
  BY <1>1
<1>5. stored = [i \in 1 .. k |-> operand[factory.operands[i]]]
  BY <1>2, <1>3, <1>4 DEF StoreOperands
<1>6. stored \in Seq(S)
  <2>1. \A i \in 1 .. k : operand[factory.operands[i]] \in S
    BY <1>2
  <2>2. stored \in [1 .. k -> S]
    BY <1>5, <2>1
  <2> QED BY <1>2, <2>2, SeqDef
<1>7. ChildrenOf(factory, arguments) = Cat(stored, list)
  BY <1>3, <1>4 DEF ChildrenOf, Cat
<1> QED BY <1>1, <1>6, <1>7, CatAssociates

LEMMA TreeGrows ==
  ASSUME IsSequence(nodes), IsTree(nodes), NEW code \in Codes, NEW parameters,
         NEW operand, NEW list, NEW text,
         NewNodeOf(code, parameters, [operand |-> operand, list |-> list], text),
         list \in Seq(DOMAIN nodes),
         \A name \in Range(FactoryOf(code).operands) : operand[name] \in DOMAIN nodes
  PROVE  IsSequence(nodes') /\ IsTree(nodes') /\ Len(nodes') # 0
<1>1. PICK D, factory : D = DOMAIN nodes /\ factory = FactoryOf(code)
  OBVIOUS
<1>2. PICK arguments : arguments = [operand |-> operand, list |-> list]
  OBVIOUS
<1>3. PICK children : children = ChildrenOf(factory, arguments)
  OBVIOUS
<1>4. children \in Seq(D)
  <2>1. HasOperands(factory)
    BY <1>1, FactoriesHaveOperands
  <2>2. \A i \in DOMAIN factory.operands : operand[factory.operands[i]] \in D
    BY <1>1 DEF Range
  <2> QED BY <1>1, <1>2, <1>3, <2>1, <2>2, ChildrenAreNodes
<1>5. PICK new : new = nodes'[Len(nodes) + 1]
  OBVIOUS
<1>6. nodes' = Append(nodes, new) /\ new.children = children
  <2>1. PICK syntax : nodes' = Append(nodes, [syntax |-> syntax, children |-> children])
    BY <1>1, <1>2, <1>3 DEF NewNodeOf
  <2>2. PICK e : e = [syntax |-> syntax, children |-> children]
    OBVIOUS
  <2>3. nodes' = Append(nodes, e) /\ e.children = children
    BY <2>1, <2>2
  <2>4. new = e
    BY <1>5, <2>3, AppendToSequence
  <2> QED BY <2>3, <2>4
<1>7. /\ IsSequence(nodes') /\ Len(nodes') = Len(nodes) + 1
      /\ DOMAIN nodes' = DOMAIN nodes \cup {Len(nodes) + 1}
      /\ \A n \in DOMAIN nodes : nodes'[n] = nodes[n]
  BY <1>6, AppendToSequence
<1>8. Len(nodes) \in Nat /\ D = 1 .. Len(nodes)
  BY <1>1 DEF IsSequence
<1>9. ASSUME NEW n \in DOMAIN nodes'
      PROVE  /\ Arity(nodes', n) \in Nat
             /\ \A i \in 1 .. Arity(nodes', n) : Kid(nodes', n, i) \in 1 .. n - 1
  <2>1. CASE n \in D
    BY <1>1, <1>7, <2>1 DEF IsTree, Arity, Kid
  <2>2. CASE n \notin D
    <3>1. n = Len(nodes) + 1 /\ nodes'[n] = new
      BY <1>1, <1>5, <1>7, <2>2
    <3>2. Arity(nodes', n) = Len(children) /\ \A i : Kid(nodes', n, i) = children[i]
      BY <1>6, <3>1 DEF Arity, Kid
    <3>3. Len(children) \in Nat /\ \A i \in 1 .. Len(children) : children[i] \in D
      BY <1>4, LenProperties
    <3>4. D = 1 .. n - 1
      BY <1>8, <3>1
    <3> QED BY <3>2, <3>3, <3>4
  <2> QED BY <2>1, <2>2
<1>10. IsTree(nodes')
  <2>1. Len(nodes') \in Nat /\ DOMAIN nodes' = 1 .. Len(nodes')
    BY <1>7 DEF IsSequence
  <2> QED BY <1>9, <2>1 DEF IsTree
<1> QED BY <1>7, <1>8, <1>10

(* Only members of the factory are called, nodes are made of older nodes,  *)
(* and once there is nothing more to make the walk is under way.           *)
TreeInv ==
  /\ script \in Seq(Codes \cup {"YieldStar"})
  /\ IsSequence(nodes) /\ IsTree(nodes)
  /\ script = <<>> => Len(nodes) # 0

WalkInv ==
  /\ TreeInv
  /\ walk = [phase |-> walk.phase, stack |-> walk.stack, visited |-> walk.visited]
  /\ walk.phase = "none" => walk.stack = <<>>
  /\ walk.phase # "none" =>
       /\ script = <<>>
       /\ WalkedTo(nodes, PreOrderOf(nodes), walk.phase, walk.stack, walk.visited)

LEMMA PreOrderIsThat == PreOrder = PreOrderOf(nodes)
BY DEF PreOrder, PreOrderOf, IsPreOrder, Order, OrdersBelow, Joined, Arity, Kid, ArityOf

LEMMA LeavesHaveNone ==
  ASSUME NEW code \in {"Name", "Punctuator", "NumericLiteral"}
  PROVE  code \in Codes /\ FactoryOf(code).operands = <<>>
<1> DEFINE IsLeafIn(factories) == code \in DOMAIN factories => factories[code] = NewLeaf
<1>1. IsLeafIn(BindingFactories)
  BY DEF BindingFactories
<1>2. IsLeafIn(CompilationUnitFactories)
  BY DEF CompilationUnitFactories
<1>3. IsLeafIn(TokenFactories)
  BY DEF TokenFactories
<1>4. IsLeafIn(DeclarationFactories)
  BY DEF DeclarationFactories
<1>5. IsLeafIn(ExpressionFactories)
  BY DEF ExpressionFactories
<1>6. IsLeafIn(JsDocFactories)
  BY DEF JsDocFactories
<1>7. IsLeafIn(LiteralFactories)
  BY DEF LiteralFactories
<1>8. IsLeafIn(RegExpFactories)
  BY DEF RegExpFactories
<1>9. IsLeafIn(FirstStatementFactories)
  BY DEF FirstStatementFactories
<1>10. IsLeafIn(LastStatementFactories)
  BY DEF LastStatementFactories
<1>11. IsLeafIn(TypeFactories)
  BY DEF TypeFactories
<1>12. code \in DOMAIN TokenFactories \/ code \in DOMAIN LiteralFactories
  BY DEF TokenFactories, LiteralFactories
<1> HIDE DEF IsLeafIn
<1>13. \A group \in AllFactories : IsLeafIn(group)
  BY <1>1, <1>2, <1>3, <1>4, <1>5, <1>6, <1>7, <1>8, <1>9, <1>10, <1>11 DEF AllFactories
<1>14. \E g \in AllFactories : code \in DOMAIN g
  BY <1>12 DEF AllFactories
<1>15. PICK group : group = CHOOSE g \in AllFactories : code \in DOMAIN g
  OBVIOUS
<1>16. group \in AllFactories /\ code \in DOMAIN group
  BY <1>14, <1>15
<1>17. FactoryOf(code) = group[code]
  BY <1>15 DEF FactoryOf
<1>18. FactoryOf(code) = NewLeaf
  BY <1>13, <1>16, <1>17 DEF IsLeafIn
<1>19. code \in Codes
  BY <1>14 DEF Codes
<1>20. NewLeaf.operands = <<>>
  BY DEF NewLeaf, NewNode
<1> QED BY <1>18, <1>19, <1>20

LEMMA LengthsOfLists == \A n \in 0 .. MaxList : n \in Nat
<1>1. MaxList \in Nat
  BY SyntaxTreeAssumption
<1> QED BY <1>1

LEMMA MakeKeepsTree ==
  ASSUME TreeInv, MakeNode
  PROVE  TreeInv' /\ UNCHANGED walk /\ script # <<>>
<1>1. PICK kinds : kinds = Codes \cup {"YieldStar"}
  OBVIOUS
<1>2. script \in Seq(kinds) /\ IsSequence(nodes) /\ IsTree(nodes)
  BY <1>1 DEF TreeInv
<1>3. ASSUME NEW code, NextInScript(code)
      PROVE  /\ script # <<>> /\ code \in kinds /\ code = Head(script)
             /\ script' \in Seq(kinds) /\ UNCHANGED walk
  BY <1>2, <1>3, HeadTailProperties DEF NextInScript
<1>4. ASSUME NEW code \in {"Name", "Punctuator", "NumericLiteral"}, NEW parameters, NEW text,
             NewNodeOf(code, parameters, NoArguments, text)
      PROVE  IsSequence(nodes') /\ IsTree(nodes') /\ Len(nodes') # 0
  <2>1. code \in Codes /\ FactoryOf(code).operands = <<>>
    BY LeavesHaveNone
  <2>2. Range(FactoryOf(code).operands) = {}
    BY <2>1 DEF Range
  <2>3. PICK none : none = <<>>
    OBVIOUS
  <2>4. none \in Seq(DOMAIN nodes)
    BY <2>3
  <2>5. NewNodeOf(code, parameters, [operand |-> none, list |-> none], text)
    BY <1>4, <2>3 DEF NoArguments
  <2> QED BY <1>2, <2>1, <2>2, <2>4, <2>5, TreeGrows
<1>5. CASE NewName
  <2>1. NextInScript("Name") /\ \E parameters, text :
          NewNodeOf("Name", parameters, NoArguments, text)
    BY <1>5 DEF NewName
  <2> QED BY <1>1, <1>3, <1>4, <2>1 DEF TreeInv
<1>6. CASE NewYieldStar
  <2>1. NextInScript("YieldStar") /\ \E parameters, text :
          NewNodeOf("Name", parameters, NoArguments, text)
    BY <1>6 DEF NewYieldStar
  <2> QED BY <1>1, <1>3, <1>4, <2>1 DEF TreeInv
<1>7. CASE NewPunctuator
  <2>1. NextInScript("Punctuator") /\ \E parameters, text :
          NewNodeOf("Punctuator", parameters, NoArguments, text)
    BY <1>7 DEF NewPunctuator
  <2> QED BY <1>1, <1>3, <1>4, <2>1 DEF TreeInv
<1>8. CASE NewNumericLiteral
  <2>1. NextInScript("NumericLiteral") /\ \E parameters, text :
          NewNodeOf("NumericLiteral", parameters, NoArguments, text)
    BY <1>8 DEF NewNumericLiteral
  <2> QED BY <1>1, <1>3, <1>4, <2>1 DEF TreeInv
<1>9. ASSUME NEW code, code = Head(script), code # "YieldStar", NewOther(code)
      PROVE  TreeInv' /\ UNCHANGED walk /\ script # <<>>
  <2>1. PICK factory, names_, D :
          /\ factory = FactoryOf(code) /\ D = DOMAIN nodes
          /\ names_ = Range(factory.operands) \cup factory.dropped
    OBVIOUS
  <2>2. PICK operand \in [names_ -> D],
             list \in IF factory.list = "" THEN {<<>>}
                      ELSE UNION {[1..n -> D] : n \in 0..MaxList} :
          /\ NextInScript(code)
          /\ \E parameters : NewNodeOf(code, parameters, [operand |-> operand, list |-> list], "")
    BY <1>9, <2>1 DEF NewOther
  <2>3. list \in Seq(D)
    <3>1. CASE factory.list = ""
      BY <2>2, <3>1, EmptySeq
    <3>2. CASE factory.list # ""
      <4>1. PICK n \in 0 .. MaxList : list \in [1 .. n -> D]
        BY <2>2, <3>2
      <4> QED BY <4>1, LengthsOfLists, SeqDef
    <3> QED BY <3>1, <3>2
  <2>4. code \in Codes
    BY <1>1, <1>3, <1>9, <2>2
  <2>5. \A name \in Range(FactoryOf(code).operands) : operand[name] \in DOMAIN nodes
    BY <2>1, <2>2
  <2>6. PICK parameters : NewNodeOf(code, parameters, [operand |-> operand, list |-> list], "")
    BY <2>2
  <2>7. PICK text : text = ""
    OBVIOUS
  <2>8. IsSequence(nodes') /\ IsTree(nodes') /\ Len(nodes') # 0
    BY <1>2, <2>1, <2>3, <2>4, <2>5, <2>6, TreeGrows
  <2> QED BY <1>1, <1>3, <2>2, <2>8 DEF TreeInv
<1> QED BY <1>5, <1>6, <1>7, <1>8, <1>9 DEF MakeNode

LEMMA WalkInvInitially == Init => WalkInv
<1> SUFFICES ASSUME Init PROVE WalkInv
  OBVIOUS
<1>1. script \in Seq(Codes \cup {"YieldStar"}) /\ script # <<>>
  BY SyntaxTreeAssumption DEF Init
<1>2. nodes = <<>> /\ IsSequence(nodes)
  BY TuplesAreSequences DEF Init
<1>3. IsTree(nodes)
  BY <1>2 DEF IsTree
<1>4. walk = [phase |-> "none", stack |-> <<>>, visited |-> <<>>]
  BY DEF Init
<1> QED BY <1>1, <1>2, <1>3, <1>4 DEF WalkInv, TreeInv

LEMMA WalkBegins ==
  ASSUME WalkInv, BeginWalk
  PROVE  WalkInv'
<1>1. TreeInv /\ TreeInv' /\ UNCHANGED <<script, nodes>> /\ script = <<>>
  BY DEF WalkInv, TreeInv, BeginWalk
<1>2. IsTree(nodes) /\ Len(nodes) # 0 /\ Len(nodes) \in DOMAIN nodes
  BY <1>1 DEF TreeInv, IsTree
<1>3. PICK inclusive \in BOOLEAN :
        /\ inclusive \/ ArityOf(Root) > 0
        /\ walk' = [phase |-> IF inclusive THEN "inclusive" ELSE "descendants",
                    stack |-> Begin(inclusive), visited |-> <<>>]
  BY DEF BeginWalk
<1>4. PICK f, phase, stack : /\ f = PreOrderOf(nodes) /\ stack = Begin(inclusive)
                             /\ phase = IF inclusive THEN "inclusive" ELSE "descendants"
  OBVIOUS
<1>5. walk' = [phase |-> phase, stack |-> stack, visited |-> <<>>] /\ phase # "none"
  BY <1>3, <1>4
<1>6. IsPreOrder(nodes, f)
  BY <1>2, <1>4, PreOrderEquals
<1>7. WalkedTo(nodes, f, phase, stack, <<>>)
  <2>1. CASE inclusive
    BY <1>4, <2>1 DEF WalkedTo, Begin
  <2>2. CASE ~ inclusive
    <3>1. stack = <<<<Len(nodes), 0>>>> /\ phase # "inclusive"
      BY <1>4, <2>2 DEF Begin, Root
    <3>2. Arity(nodes, Len(nodes)) > 0
      BY <1>3, <2>2 DEF ArityOf, Arity, Root
    <3>3. IsPath(nodes, stack) /\ VisitedOn(nodes, f, stack) = <<Len(nodes)>>
      BY <1>2, <1>6, <3>1, <3>2, RootPath
    <3>4. Cat(<<Len(nodes)>>, <<>>) = <<Len(nodes)>>
      <4>1. <<Len(nodes)>> \in Seq(DOMAIN nodes)
        BY <1>2
      <4> QED BY <4>1, ConcatEmptySeq DEF Cat
    <3> QED BY <3>1, <3>3, <3>4 DEF WalkedTo, FullOf
  <2> QED BY <2>1, <2>2
<1>8. /\ walk'.phase = phase /\ walk'.stack = stack /\ walk'.visited = <<>>
      /\ walk' = [phase |-> walk'.phase, stack |-> walk'.stack, visited |-> walk'.visited]
  BY <1>5
<1>9. WalkedTo(nodes', PreOrderOf(nodes'), walk'.phase, walk'.stack, walk'.visited)
  BY <1>1, <1>4, <1>7, <1>8
<1> QED BY <1>1, <1>5, <1>8, <1>9 DEF WalkInv

LEMMA WalkGoesOn ==
  ASSUME WalkInv, Visit
  PROVE  WalkInv'
<1>1. TreeInv' /\ UNCHANGED <<script, nodes>>
  BY DEF WalkInv, TreeInv, Visit
<1>2. PICK f, phase, stack, visited :
        /\ f = PreOrderOf(nodes) /\ phase = walk.phase
        /\ stack = walk.stack /\ visited = walk.visited
  OBVIOUS
<1>3. /\ stack # <<>> /\ phase # "none" /\ script = <<>>
      /\ WalkedTo(nodes, f, phase, stack, visited)
      /\ IsTree(nodes) /\ Len(nodes) # 0
  BY <1>2 DEF WalkInv, TreeInv, Visit
<1>4. walk = [phase |-> phase, stack |-> stack, visited |-> visited]
  BY <1>2 DEF WalkInv
<1>5. IsPreOrder(nodes, f)
  BY <1>2, <1>3, PreOrderEquals
<1>6. WalkedTo(nodes, f, phase, Advance(stack), Append(visited, Current(stack)))
  BY <1>3, <1>5, VisitKeeps
<1>7. PICK next, then : next = Advance(stack) /\ then = Append(visited, Current(stack))
  OBVIOUS
<1>8. walk' = [phase |-> phase, stack |-> next, visited |-> then]
  BY <1>2, <1>4, <1>7 DEF Visit
<1>9. /\ walk'.phase = phase /\ walk'.stack = next /\ walk'.visited = then
      /\ walk' = [phase |-> walk'.phase, stack |-> walk'.stack, visited |-> walk'.visited]
  BY <1>8
<1>10. WalkedTo(nodes', PreOrderOf(nodes'), walk'.phase, walk'.stack, walk'.visited)
  BY <1>1, <1>2, <1>6, <1>7, <1>9
<1> QED BY <1>1, <1>3, <1>9, <1>10 DEF WalkInv

LEMMA WalkInvDecides == WalkInv => WalkIsPreOrder
<1> SUFFICES ASSUME WalkInv, walk.phase # "none"
             PROVE  LET order == IF walk.phase = "inclusive" THEN PreOrder[Root]
                                                             ELSE Tail(PreOrder[Root])
                    IN  IF walk.stack = <<>> THEN walk.visited = order
                                             ELSE IsStrictPrefix(walk.visited, order)
  BY DEF WalkIsPreOrder
<1>1. PICK f, phase, stack, visited :
        /\ f = PreOrderOf(nodes) /\ phase = walk.phase
        /\ stack = walk.stack /\ visited = walk.visited
  OBVIOUS
<1>2. WalkedTo(nodes, f, phase, stack, visited) /\ IsTree(nodes) /\ Len(nodes) # 0
  BY <1>1 DEF WalkInv, TreeInv
<1>3. IsPreOrder(nodes, f)
  BY <1>1, <1>2, PreOrderEquals
<1>4. IF stack = <<>> THEN visited = ToVisit(nodes, f, phase)
                      ELSE IsStrictPrefix(visited, ToVisit(nodes, f, phase))
  BY <1>2, <1>3, WalkedDecides
<1>5. ToVisit(nodes, f, phase) = IF phase = "inclusive" THEN PreOrder[Root]
                                                       ELSE Tail(PreOrder[Root])
  BY <1>1, PreOrderIsThat DEF ToVisit, Root
<1> QED BY <1>1, <1>4, <1>5

(* For every tree, however deep and wide, the iterator visits the nodes in *)
(* preorder, each once for each place it has, and then stops.              *)
THEOREM WalkCorrect == Spec => []WalkIsPreOrder
<1>1. ASSUME WalkInv, [Next]_vars
      PROVE  WalkInv'
  <2>1. CASE MakeNode
    <3>1. TreeInv' /\ UNCHANGED walk /\ script # <<>>
      BY <1>1, <2>1, MakeKeepsTree DEF WalkInv
    <3>2. walk.phase = "none"
      BY <1>1, <3>1 DEF WalkInv
    <3> QED BY <1>1, <3>1, <3>2 DEF WalkInv
  <2>2. CASE BeginWalk
    BY <1>1, <2>2, WalkBegins
  <2>3. CASE Visit
    BY <1>1, <2>3, WalkGoesOn
  <2>4. CASE UNCHANGED vars
    BY <1>1, <2>4 DEF vars, WalkInv, TreeInv
  <2> QED BY <1>1, <2>1, <2>2, <2>3, <2>4 DEF Next
<1> QED BY <1>1, WalkInvInitially, WalkInvDecides, PTL DEF Spec

-----------------------------------------------------------------------------
(* What the members of the factory store is what the syntaxes read.        *)

(* A member stores its operands where the accessors of its syntax read     *)
(* them, the list behind them, and no list where none is expected.         *)
Fits(factory, syntax) ==
  /\ HasOperands(factory)
  /\ syntax.arity = Len(factory.operands)
  /\ syntax.variadic \/ factory.list = ""
  /\ \A name \in DOMAIN syntax.child :
       \E i \in DOMAIN factory.operands :
         syntax.child[name] = i - 1 /\ factory.operands[i] = name
  /\ \A name \in DOMAIN syntax.list : syntax.list[name] = Len(factory.operands)

LEMMA NoneReads == DOMAIN None = {}
BY DEF None

(* Parameters have nothing to do with children.                            *)
LEMMA ParametersApart ==
  ASSUME NEW arity, NEW child, NEW n
  PROVE  /\ Fixed(arity, child).parameters = 0
         /\ WithParameters(n, Fixed(arity, child)).parameters = n
         /\ \A factory : Fits(factory, Fixed(arity, child))
              => Fits(factory, WithParameters(n, Fixed(arity, child)))
<1>1. PICK s, t : s = Fixed(arity, child) /\ t = WithParameters(n, s)
  OBVIOUS
<1>2. s = [arity |-> arity, variadic |-> FALSE, parameters |-> 0,
           child |-> child, list |-> None]
  BY <1>1 DEF Fixed
<1>3. t = [s EXCEPT !.parameters = n]
  BY <1>1 DEF WithParameters
<1>4. /\ s.parameters = 0 /\ t.parameters = n /\ t.arity = s.arity
      /\ t.variadic = s.variadic /\ t.child = s.child /\ t.list = s.list
  BY <1>2, <1>3
<1> QED BY <1>1, <1>4 DEF Fits

LEMMA LeavesFit ==
  /\ Fits(NewLeaf, Leaf) /\ Leaf.parameters = 0
  /\ \A n : Fits(NewLeaf, WithParameters(n, Leaf)) /\ WithParameters(n, Leaf).parameters = n
<1>1. Fits(NewLeaf, Leaf)
  BY MembersHaveOperands, NoneReads DEF Fits, NewLeaf, NewNode, Leaf, Fixed
<1> QED BY <1>1, ParametersApart DEF Leaf

LEMMA ListsFit ==
  /\ \A list : Fits(NewList(list), List)
  /\ List.parameters = 0
BY MembersHaveOperands, NoneReads DEF Fits, NewList, NewVariadicNode, List, Variadic

LEMMA ChildrenFit ==
  /\ \A a : Fits(NewNode(<<a>>), Children(1))
  /\ \A a, b : Fits(NewNode(<<a, b>>), Children(2))
  /\ \A a, b, c : Fits(NewNode(<<a, b, c>>), Children(3))
  /\ \A n : Children(n).parameters = 0
<1>1. \A a : Fits(NewNode(<<a>>), Children(1))
  BY MembersHaveOperands, NoneReads DEF Fits, NewNode, Children, Fixed
<1>2. \A a, b : Fits(NewNode(<<a, b>>), Children(2))
  BY MembersHaveOperands, NoneReads DEF Fits, NewNode, Children, Fixed
<1>3. \A a, b, c : Fits(NewNode(<<a, b, c>>), Children(3))
  BY MembersHaveOperands, NoneReads DEF Fits, NewNode, Children, Fixed
<1> QED BY <1>1, <1>2, <1>3, ParametersApart DEF Children

(* Operands that are read by name, each where it is stored.                *)
LEMMA FitsOne ==
  ASSUME NEW a, NEW child, DOMAIN child = {a},
         child[a] = 0
  PROVE  Fits(NewNode(<<a>>), Fixed(1, child))
<1>1. PICK items : items = <<a>>
  OBVIOUS
<1>2. PICK factory, syntax : factory = NewNode(items) /\ syntax = Fixed(1, child)
  OBVIOUS
<1>3. /\ factory.operands = items /\ factory.list = ""
      /\ syntax.arity = 1 /\ syntax.child = child /\ syntax.list = None
  BY <1>2 DEF NewNode, Fixed
<1>4. /\ Len(items) = 1 /\ DOMAIN items = 1 .. 1
      /\ items[1] = a
  BY <1>1
<1>5. HasOperands(factory)
  BY <1>1, <1>2, MembersHaveOperands
<1>6. \A name \in DOMAIN child :
        \E i \in DOMAIN items : child[name] = i - 1 /\ items[i] = name
  <2>1. 1 \in DOMAIN items /\ child[a] = 1 - 1 /\ items[1] = a
    BY <1>4
  <2> QED BY <2>1
<1>7. Fits(factory, syntax)
  BY <1>3, <1>4, <1>5, <1>6, NoneReads DEF Fits
<1> QED BY <1>1, <1>2, <1>7, Zenon

LEMMA FitsTwo ==
  ASSUME NEW a, NEW b, NEW child, DOMAIN child = {a, b},
         child[a] = 0, child[b] = 1
  PROVE  Fits(NewNode(<<a, b>>), Fixed(2, child))
<1>1. PICK items : items = <<a, b>>
  OBVIOUS
<1>2. PICK factory, syntax : factory = NewNode(items) /\ syntax = Fixed(2, child)
  OBVIOUS
<1>3. /\ factory.operands = items /\ factory.list = ""
      /\ syntax.arity = 2 /\ syntax.child = child /\ syntax.list = None
  BY <1>2 DEF NewNode, Fixed
<1>4. /\ Len(items) = 2 /\ DOMAIN items = 1 .. 2
      /\ items[1] = a
      /\ items[2] = b
  BY <1>1
<1>5. HasOperands(factory)
  BY <1>1, <1>2, MembersHaveOperands
<1>6. \A name \in DOMAIN child :
        \E i \in DOMAIN items : child[name] = i - 1 /\ items[i] = name
  <2>1. 1 \in DOMAIN items /\ child[a] = 1 - 1 /\ items[1] = a
    BY <1>4
  <2>2. 2 \in DOMAIN items /\ child[b] = 2 - 1 /\ items[2] = b
    BY <1>4
  <2> QED BY <2>1, <2>2
<1>7. Fits(factory, syntax)
  BY <1>3, <1>4, <1>5, <1>6, NoneReads DEF Fits
<1> QED BY <1>1, <1>2, <1>7, Zenon

LEMMA FitsThree ==
  ASSUME NEW a, NEW b, NEW c, NEW child, DOMAIN child = {a, b, c},
         child[a] = 0, child[b] = 1, child[c] = 2
  PROVE  Fits(NewNode(<<a, b, c>>), Fixed(3, child))
<1>1. PICK items : items = <<a, b, c>>
  OBVIOUS
<1>2. PICK factory, syntax : factory = NewNode(items) /\ syntax = Fixed(3, child)
  OBVIOUS
<1>3. /\ factory.operands = items /\ factory.list = ""
      /\ syntax.arity = 3 /\ syntax.child = child /\ syntax.list = None
  BY <1>2 DEF NewNode, Fixed
<1>4. /\ Len(items) = 3 /\ DOMAIN items = 1 .. 3
      /\ items[1] = a
      /\ items[2] = b
      /\ items[3] = c
  BY <1>1
<1>5. HasOperands(factory)
  BY <1>1, <1>2, MembersHaveOperands
<1>6. \A name \in DOMAIN child :
        \E i \in DOMAIN items : child[name] = i - 1 /\ items[i] = name
  <2>1. 1 \in DOMAIN items /\ child[a] = 1 - 1 /\ items[1] = a
    BY <1>4
  <2>2. 2 \in DOMAIN items /\ child[b] = 2 - 1 /\ items[2] = b
    BY <1>4
  <2>3. 3 \in DOMAIN items /\ child[c] = 3 - 1 /\ items[3] = c
    BY <1>4
  <2> QED BY <2>1, <2>2, <2>3
<1>7. Fits(factory, syntax)
  BY <1>3, <1>4, <1>5, <1>6, NoneReads DEF Fits
<1> QED BY <1>1, <1>2, <1>7, Zenon

LEMMA FitsFour ==
  ASSUME NEW a, NEW b, NEW c, NEW d, NEW child, DOMAIN child = {a, b, c, d},
         child[a] = 0, child[b] = 1, child[c] = 2, child[d] = 3
  PROVE  Fits(NewNode(<<a, b, c, d>>), Fixed(4, child))
<1>1. PICK items : items = <<a, b, c, d>>
  OBVIOUS
<1>2. PICK factory, syntax : factory = NewNode(items) /\ syntax = Fixed(4, child)
  OBVIOUS
<1>3. /\ factory.operands = items /\ factory.list = ""
      /\ syntax.arity = 4 /\ syntax.child = child /\ syntax.list = None
  BY <1>2 DEF NewNode, Fixed
<1>4. /\ Len(items) = 4 /\ DOMAIN items = 1 .. 4
      /\ items[1] = a
      /\ items[2] = b
      /\ items[3] = c
      /\ items[4] = d
  BY <1>1
<1>5. HasOperands(factory)
  BY <1>1, <1>2, MembersHaveOperands
<1>6. \A name \in DOMAIN child :
        \E i \in DOMAIN items : child[name] = i - 1 /\ items[i] = name
  <2>1. 1 \in DOMAIN items /\ child[a] = 1 - 1 /\ items[1] = a
    BY <1>4
  <2>2. 2 \in DOMAIN items /\ child[b] = 2 - 1 /\ items[2] = b
    BY <1>4
  <2>3. 3 \in DOMAIN items /\ child[c] = 3 - 1 /\ items[3] = c
    BY <1>4
  <2>4. 4 \in DOMAIN items /\ child[d] = 4 - 1 /\ items[4] = d
    BY <1>4
  <2> QED BY <2>1, <2>2, <2>3, <2>4
<1>7. Fits(factory, syntax)
  BY <1>3, <1>4, <1>5, <1>6, NoneReads DEF Fits
<1> QED BY <1>1, <1>2, <1>7, Zenon

LEMMA FitsFive ==
  ASSUME NEW a, NEW b, NEW c, NEW d, NEW e, NEW child, DOMAIN child = {a, b, c, d, e},
         child[a] = 0, child[b] = 1, child[c] = 2, child[d] = 3, child[e] = 4
  PROVE  Fits(NewNode(<<a, b, c, d, e>>), Fixed(5, child))
<1>1. PICK items : items = <<a, b, c, d, e>>
  OBVIOUS
<1>2. PICK factory, syntax : factory = NewNode(items) /\ syntax = Fixed(5, child)
  OBVIOUS
<1>3. /\ factory.operands = items /\ factory.list = ""
      /\ syntax.arity = 5 /\ syntax.child = child /\ syntax.list = None
  BY <1>2 DEF NewNode, Fixed
<1>4. /\ Len(items) = 5 /\ DOMAIN items = 1 .. 5
      /\ items[1] = a
      /\ items[2] = b
      /\ items[3] = c
      /\ items[4] = d
      /\ items[5] = e
  BY <1>1
<1>5. HasOperands(factory)
  BY <1>1, <1>2, MembersHaveOperands
<1>6. \A name \in DOMAIN child :
        \E i \in DOMAIN items : child[name] = i - 1 /\ items[i] = name
  <2>1. 1 \in DOMAIN items /\ child[a] = 1 - 1 /\ items[1] = a
    BY <1>4
  <2>2. 2 \in DOMAIN items /\ child[b] = 2 - 1 /\ items[2] = b
    BY <1>4
  <2>3. 3 \in DOMAIN items /\ child[c] = 3 - 1 /\ items[3] = c
    BY <1>4
  <2>4. 4 \in DOMAIN items /\ child[d] = 4 - 1 /\ items[4] = d
    BY <1>4
  <2>5. 5 \in DOMAIN items /\ child[e] = 5 - 1 /\ items[5] = e
    BY <1>4
  <2> QED BY <2>1, <2>2, <2>3, <2>4, <2>5
<1>7. Fits(factory, syntax)
  BY <1>3, <1>4, <1>5, <1>6, NoneReads DEF Fits
<1> QED BY <1>1, <1>2, <1>7, Zenon

LEMMA FitsList ==
  ASSUME NEW a, NEW b, NEW child, NEW list, DOMAIN child = {a}, child[a] = 0,
         DOMAIN list = {b}, list[b] = 1
  PROVE  /\ Fits(NewVariadicNode(<<a>>, b), Variadic(1, child, list))
         /\ Variadic(1, child, list).parameters = 0
<1>1. PICK items : items = <<a>>
  OBVIOUS
<1>2. PICK factory, syntax :
        factory = NewVariadicNode(items, b) /\ syntax = Variadic(1, child, list)
  OBVIOUS
<1>3. /\ factory.operands = items /\ syntax.variadic /\ syntax.parameters = 0
      /\ syntax.arity = 1 /\ syntax.child = child /\ syntax.list = list
  BY <1>2 DEF NewVariadicNode, Variadic
<1>4. Len(items) = 1 /\ DOMAIN items = {1} /\ items[1] = a
  BY <1>1
<1>5. HasOperands(factory)
  BY <1>1, <1>2, MembersHaveOperands
<1>6. child[a] = 1 - 1
  OBVIOUS
<1>7. \A name \in DOMAIN child :
        \E i \in DOMAIN items : child[name] = i - 1 /\ items[i] = name
  BY <1>4, <1>6
<1>8. Fits(factory, syntax)
  BY <1>3, <1>4, <1>5, <1>7 DEF Fits
<1> QED BY <1>1, <1>2, <1>3, <1>8, Zenon

(* A member and a syntax with so many parameters that fit.                 *)
Agree(factory, syntax, parameters) ==
  Fits(factory, syntax) /\ syntax.parameters = parameters

LEMMA AgreeOn ==
  ASSUME NEW factory, NEW arity, NEW child, Fits(factory, Fixed(arity, child))
  PROVE  /\ Agree(factory, Fixed(arity, child), 0)
         /\ \A n : Agree(factory, WithParameters(n, Fixed(arity, child)), n)
BY ParametersApart DEF Agree

(* The members whose operands are read, and their syntaxes.                *)
LEMMA OneAgree ==
  /\ Agree(NewNode(<<"Expression">>), Fixed(1, [Expression |-> 0]), 0)
  /\ Agree(NewNode(<<"Name">>), Fixed(1, [Name |-> 0]), 0)
  /\ Agree(NewNode(<<"Type">>), Fixed(1, [Type |-> 0]), 0)
BY FitsOne, AgreeOn

LEMMA TwoAgree ==
  /\ Agree(NewNode(<<"Container", "Expression">>),
           Fixed(2, [Container |-> 0, Expression |-> 1]), 0)
  /\ Agree(NewNode(<<"Container", "Name">>),
           Fixed(2, [Container |-> 0, Name |-> 1]), 0)
  /\ Agree(NewNode(<<"Document", "Annotated">>),
           Fixed(2, [Document |-> 0, Annotated |-> 1]), 0)
  /\ Agree(NewNode(<<"Expression", "Initializer">>),
           Fixed(2, [Expression |-> 0, Initializer |-> 1]), 0)
  /\ Agree(NewNode(<<"Member", "Name">>),
           Fixed(2, [Member |-> 0, Name |-> 1]), 0)
  /\ Agree(NewNode(<<"Name", "Arguments">>),
           Fixed(2, [Name |-> 0, Arguments |-> 1]), 0)
  /\ Agree(NewNode(<<"Name", "Initializer">>),
           Fixed(2, [Name |-> 0, Initializer |-> 1]), 0)
  /\ Agree(NewNode(<<"Name", "Value">>), Fixed(2, [Name |-> 0, Value |-> 1]), 0)
  /\ Agree(NewNode(<<"Operator", "Expression">>),
           WithParameters(1, Fixed(2, [Operator |-> 0, Expression |-> 1])), 1)
  /\ Agree(NewNode(<<"Parameter", "Statement">>),
           Fixed(2, [Parameter |-> 0, Statement |-> 1]), 0)
  /\ Agree(NewNode(<<"ParameterTypes", "ReturnType">>),
           WithParameters(1, Fixed(2, [ParameterTypes |-> 0, ReturnType |-> 1])), 1)
  /\ Agree(NewNode(<<"Parameters", "Body">>),
           WithParameters(1, Fixed(2, [Parameters |-> 0, Body |-> 1])), 1)
  /\ Agree(NewNode(<<"RegExp", "Flags">>),
           Fixed(2, [RegExp |-> 0, Flags |-> 1]), 0)
BY FitsTwo, AgreeOn

LEMMA ThreeAgree ==
  /\ Agree(NewNode(<<"Condition", "TrueExpression", "FalseExpression">>),
           Fixed(3,
                 [Condition |-> 0, TrueExpression |-> 1, FalseExpression |-> 2]), 0)
  /\ Agree(NewNode(<<"LeftHandSide", "Operator", "RightHandSide">>),
           Operation, 1)
  /\ Agree(NewNode(<<"Name", "Heritage", "Body">>),
           Fixed(3, [Name |-> 0, Heritage |-> 1, Body |-> 2]), 0)
  /\ Agree(NewNode(<<"Name", "Parameters", "Body">>),
           WithParameters(1, Fixed(3,
                 [Name |-> 0, Parameters |-> 1, Body |-> 2])), 1)
  /\ Agree(NewNode(<<"Name", "Parameters", "Body">>),
           WithParameters(2, Fixed(3,
                 [Name |-> 0, Parameters |-> 1, Body |-> 2])), 2)
BY FitsThree, AgreeOn DEF Operation

LEMMA FourAgree ==
  Agree(NewNode(<<"Keyword", "Binding", "Expression", "Statement">>),
        ForEach, 0)
BY FitsFour, AgreeOn DEF ForEach

LEMMA FiveAgree ==
  Agree(NewNode(<<"Keyword", "Initialize", "Condition", "Step", "Statement">>),
        Fixed(5,
              [Keyword |-> 0, Initialize |-> 1, Condition |-> 2, Step |-> 3,
               Statement |-> 4]), 0)
BY FitsFive, AgreeOn

LEMMA ListAgrees ==
  /\ Agree(NewVariadicNode(<<"Expression">>, "Arguments"), Application, 0)
  /\ Agree(NewVariadicNode(<<"Expression">>, "Clauses"),
           Variadic(1, [Expression |-> 0], [Clauses |-> 1]), 0)
  /\ Agree(NewVariadicNode(<<"Initializer">>, "Elements"),
           Variadic(1, [Initializer |-> 0], [Elements |-> 1]), 0)
  /\ Agree(NewVariadicNode(<<"Name">>, "Operands"),
           Variadic(1, [Name |-> 0], [Operands |-> 1]), 0)
<1>1. Agree(NewVariadicNode(<<"Expression">>, "Arguments"), Application, 0)
  BY FitsList DEF Agree, Application
<1>2. Agree(NewVariadicNode(<<"Expression">>, "Clauses"),
            Variadic(1, [Expression |-> 0], [Clauses |-> 1]), 0)
  BY FitsList DEF Agree
<1>3. Agree(NewVariadicNode(<<"Initializer">>, "Elements"),
            Variadic(1, [Initializer |-> 0], [Elements |-> 1]), 0)
  BY FitsList DEF Agree
<1>4. Agree(NewVariadicNode(<<"Name">>, "Operands"),
            Variadic(1, [Name |-> 0], [Operands |-> 1]), 0)
  BY FitsList DEF Agree
<1> QED BY <1>1, <1>2, <1>3, <1>4

(* The other members: leaves, lists, and operands no accessor reads.       *)
LEMMA OthersAgree ==
  /\ Agree(NewLeaf, Leaf, 0)
  /\ \A n : Agree(NewLeaf, WithParameters(n, Leaf), n)
  /\ \A list : Agree(NewList(list), List, 0)
  /\ \A a : Agree(NewNode(<<a>>), Children(1), 0)
  /\ \A a, b : Agree(NewNode(<<a, b>>), Children(2), 0)
  /\ \A a, b, c : Agree(NewNode(<<a, b, c>>), Children(3), 0)
  /\ Agree([NewNode(<<"Statement">>) EXCEPT !.dropped = {"Label"}], Children(1), 0)
<1>1. Agree([NewNode(<<"Statement">>) EXCEPT !.dropped = {"Label"}], Children(1), 0)
  <2>1. PICK node, factory, dropped :
          /\ dropped = {"Label"} /\ node = NewNode(<<"Statement">>)
          /\ factory = [node EXCEPT !.dropped = dropped]
    OBVIOUS
  <2>2. PICK items : items = <<"Statement">>
    OBVIOUS
  <2>3. node = [operands |-> items, list |-> "", dropped |-> {}]
    BY <2>1, <2>2 DEF NewNode
  <2>4. factory.operands = node.operands /\ factory.list = node.list
    BY <2>1, <2>3
  <2>5. Fits(node, Children(1)) /\ Children(1).parameters = 0
    BY <2>1, ChildrenFit
  <2>6. Fits(factory, Children(1))
    BY <2>4, <2>5 DEF Fits, HasOperands
  <2> QED BY <2>1, <2>5, <2>6 DEF Agree
<1> QED BY <1>1, LeavesFit, ListsFit, ChildrenFit DEF Agree

ParameterCount(code) ==
  CASE code = "Method" -> 2
    [] code = "RegExpRepeat" -> 3
    [] code \in {"Name", "Punctuator", "NumericLiteral", "AssignmentExpression",
                 "BinaryExpression", "UnaryExpression", "ArrowFunction", "Function",
                 "FunctionType", "AssertionRegExp", "Invalid", "BooleanLiteral"} -> 1
    [] OTHER -> 0

LEMMA CodesOfSyntaxes ==
  /\ DOMAIN Bindings =
       {"BindingCommaElement", "BindingInvalidElement", "BindingProperty",
        "BindingRestElement", "ArrayBindingPattern", "BindingNameElement",
        "ObjectBindingPattern"}
  /\ DOMAIN CompilationUnits =
       {"Externs", "Module", "Script"}
  /\ DOMAIN Declarations =
       {"Annotation", "ArrowFunction", "Class", "Declaration", "Function",
        "Method"}
  /\ DOMAIN FirstExpressions =
       {"ArrayInitializer", "AssignmentExpression", "BinaryExpression",
        "CallExpression", "CommaExpression", "ComputedMemberExpression",
        "ConditionalExpression"}
  /\ DOMAIN MiddleExpressions =
       {"DelimiterExpression", "ElisionExpression", "GroupExpression",
        "MemberExpression", "NewExpression"}
  /\ DOMAIN LastExpressions =
       {"ObjectInitializer", "ParameterList", "Property",
        "ReferenceExpression", "RegExpLiteralExpression", "Tuple",
        "UnaryExpression"}
  /\ DOMAIN JsDocSyntaxes =
       {"JsDocDocument", "JsDocTag", "JsDocText"}
  /\ DOMAIN Literals =
       {"BooleanLiteral", "NullLiteral", "NumericLiteral", "StringLiteral",
        "UndefinedLiteral"}
  /\ DOMAIN RegExps =
       {"AnyCharRegExp", "AssertionRegExp", "CaptureRegExp", "CharSetRegExp",
        "ComplementCharSetRegExp", "EmptyRegExp", "InvalidRegExp",
        "LiteralRegExp", "LookAheadRegExp", "LookAheadNotRegExp",
        "RepeatRegExp", "OrRegExp", "RegExpRepeat", "SequenceRegExp"}
  /\ DOMAIN FirstStatements =
       {"BreakStatement", "CaseClause", "ContinueStatement", "DoStatement",
        "EmptyStatement", "IfElseStatement", "IfStatement",
        "InvalidStatement", "LabeledStatement", "ReturnStatement",
        "ThrowStatement", "TryCatchStatement", "TryCatchFinallyStatement",
        "TryFinallyStatement", "WhileStatement", "WithStatement",
        "BlockStatement", "CatchClause", "ConstStatement",
        "ExpressionStatement", "ForStatement"}
  /\ DOMAIN LastStatements =
       {"ForInStatement", "ForOfStatement", "LetStatement",
        "SwitchStatement", "VarStatement"}
  /\ DOMAIN Tokens =
       {"Comment", "Empty", "Invalid", "Name", "Punctuator", "RegExpSource"}
  /\ DOMAIN FirstTypes =
       {"AnyType", "FunctionType", "InvalidType", "MemberType",
        "NullableType", "NonNullableType", "OptionalType", "PrimitiveType"}
  /\ DOMAIN LastTypes =
       {"RecordType", "RestType", "TupleType", "TypeApplication",
        "TypeGroup", "TypeName", "UnionType", "UnknownType", "VoidType"}
BY DEF Bindings, CompilationUnits, Declarations, FirstExpressions,
      MiddleExpressions, LastExpressions, JsDocSyntaxes, Literals, RegExps,
      FirstStatements, LastStatements, Tokens, FirstTypes, LastTypes

LEMMA CodesOfFactories ==
  /\ DOMAIN BindingFactories =
       {"ArrayBindingPattern", "BindingCommaElement",
        "BindingInvalidElement", "BindingNameElement", "BindingProperty",
        "BindingRestElement", "ObjectBindingPattern"}
  /\ DOMAIN CompilationUnitFactories =
       {"Tuple", "Externs", "Module", "Script"}
  /\ DOMAIN TokenFactories =
       {"Comment", "Empty", "Invalid", "Name", "Punctuator", "RegExpSource"}
  /\ DOMAIN DeclarationFactories =
       {"Annotation", "ArrowFunction", "Class", "Declaration", "Function",
        "Method"}
  /\ DOMAIN ExpressionFactories =
       {"ArrayInitializer", "AssignmentExpression", "BinaryExpression",
        "CallExpression", "CommaExpression", "ComputedMemberExpression",
        "ConditionalExpression", "DelimiterExpression", "ElisionExpression",
        "GroupExpression", "MemberExpression", "NewExpression",
        "ObjectInitializer", "ParameterList", "Property",
        "ReferenceExpression", "RegExpLiteralExpression", "UnaryExpression"}
  /\ DOMAIN JsDocFactories =
       {"JsDocDocument", "JsDocTag", "JsDocText"}
  /\ DOMAIN LiteralFactories =
       {"BooleanLiteral", "NullLiteral", "NumericLiteral", "StringLiteral",
        "UndefinedLiteral"}
  /\ DOMAIN RegExpFactories =
       {"AnyCharRegExp", "AssertionRegExp", "CaptureRegExp", "CharSetRegExp",
        "ComplementCharSetRegExp", "EmptyRegExp", "InvalidRegExp",
        "LiteralRegExp", "LookAheadRegExp", "LookAheadNotRegExp", "OrRegExp",
        "RegExpRepeat", "RepeatRegExp", "SequenceRegExp"}
  /\ DOMAIN FirstStatementFactories =
       {"BlockStatement", "BreakStatement", "CaseClause", "CatchClause",
        "ConstStatement", "ContinueStatement", "DoStatement",
        "EmptyStatement", "ExpressionStatement", "ForStatement",
        "ForInStatement", "ForOfStatement"}
  /\ DOMAIN LastStatementFactories =
       {"IfElseStatement", "IfStatement", "InvalidStatement",
        "LabeledStatement", "LetStatement", "ReturnStatement",
        "SwitchStatement", "ThrowStatement", "TryCatchFinallyStatement",
        "TryCatchStatement", "TryFinallyStatement", "VarStatement",
        "WhileStatement", "WithStatement"}
  /\ DOMAIN TypeFactories =
       {"AnyType", "FunctionType", "InvalidType", "MemberType",
        "NullableType", "NonNullableType", "OptionalType", "PrimitiveType",
        "RecordType", "RestType", "TupleType", "TypeApplication",
        "TypeGroup", "TypeName", "UnionType", "UnknownType", "VoidType"}
BY DEF BindingFactories, CompilationUnitFactories, TokenFactories,
      DeclarationFactories, ExpressionFactories, JsDocFactories, LiteralFactories,
      RegExpFactories, FirstStatementFactories, LastStatementFactories,
      TypeFactories

(* A member agrees with the syntax of its name in every group.             *)
GroupAgrees(group) ==
  \A code \in DOMAIN group :
    /\ \E other \in AllSyntaxes : code \in DOMAIN other
    /\ \A other \in AllSyntaxes :
         code \in DOMAIN other => Agree(group[code], other[code], ParameterCount(code))

LEMMA BindingFactoriesAgree == GroupAgrees(BindingFactories)
<1> SUFFICES ASSUME NEW code \in DOMAIN BindingFactories
             PROVE  /\ \E other \in AllSyntaxes : code \in DOMAIN other
                    /\ \A other \in AllSyntaxes : code \in DOMAIN other =>
                         Agree(BindingFactories[code], other[code], ParameterCount(code))
  BY DEF GroupAgrees
<1>1. code \in DOMAIN Bindings =>
        Agree(BindingFactories[code], Bindings[code], ParameterCount(code))
  BY OneAgree, TwoAgree, ThreeAgree, FourAgree, FiveAgree, ListAgrees,
     OthersAgree DEF ParameterCount,
       BindingFactories, Bindings
<1>2. code \in DOMAIN Bindings
  BY CodesOfFactories, CodesOfSyntaxes
<1>3. /\ code \notin DOMAIN CompilationUnits
      /\ code \notin DOMAIN Declarations
      /\ code \notin DOMAIN FirstExpressions
      /\ code \notin DOMAIN MiddleExpressions
      /\ code \notin DOMAIN LastExpressions
      /\ code \notin DOMAIN JsDocSyntaxes
      /\ code \notin DOMAIN Literals
      /\ code \notin DOMAIN RegExps
      /\ code \notin DOMAIN FirstStatements
      /\ code \notin DOMAIN LastStatements
      /\ code \notin DOMAIN Tokens
      /\ code \notin DOMAIN FirstTypes
      /\ code \notin DOMAIN LastTypes
  BY CodesOfFactories, CodesOfSyntaxes
<1> QED BY <1>1, <1>2, <1>3 DEF AllSyntaxes

LEMMA CompilationUnitFactoriesAgree == GroupAgrees(CompilationUnitFactories)
<1> SUFFICES ASSUME NEW code \in DOMAIN CompilationUnitFactories
             PROVE  /\ \E other \in AllSyntaxes : code \in DOMAIN other
                    /\ \A other \in AllSyntaxes : code \in DOMAIN other =>
                         Agree(CompilationUnitFactories[code], other[code], ParameterCount(code))
  BY DEF GroupAgrees
<1>1. code \in DOMAIN LastExpressions =>
        Agree(CompilationUnitFactories[code], LastExpressions[code], ParameterCount(code))
  BY OneAgree, TwoAgree, ThreeAgree, FourAgree, FiveAgree, ListAgrees,
     OthersAgree DEF ParameterCount,
       CompilationUnitFactories, LastExpressions
<1>2. code \in DOMAIN CompilationUnits =>
        Agree(CompilationUnitFactories[code], CompilationUnits[code], ParameterCount(code))
  BY OneAgree, TwoAgree, ThreeAgree, FourAgree, FiveAgree, ListAgrees,
     OthersAgree DEF ParameterCount,
       CompilationUnitFactories, CompilationUnits
<1>3. code \in DOMAIN LastExpressions \/ code \in DOMAIN CompilationUnits
  BY CodesOfFactories, CodesOfSyntaxes
<1>4. /\ code \notin DOMAIN Bindings
      /\ code \notin DOMAIN Declarations
      /\ code \notin DOMAIN FirstExpressions
      /\ code \notin DOMAIN MiddleExpressions
      /\ code \notin DOMAIN JsDocSyntaxes
      /\ code \notin DOMAIN Literals
      /\ code \notin DOMAIN RegExps
      /\ code \notin DOMAIN FirstStatements
      /\ code \notin DOMAIN LastStatements
      /\ code \notin DOMAIN Tokens
      /\ code \notin DOMAIN FirstTypes
      /\ code \notin DOMAIN LastTypes
  BY CodesOfFactories, CodesOfSyntaxes
<1> QED BY <1>1, <1>2, <1>3, <1>4 DEF AllSyntaxes

LEMMA TokenFactoriesAgree == GroupAgrees(TokenFactories)
<1> SUFFICES ASSUME NEW code \in DOMAIN TokenFactories
             PROVE  /\ \E other \in AllSyntaxes : code \in DOMAIN other
                    /\ \A other \in AllSyntaxes : code \in DOMAIN other =>
                         Agree(TokenFactories[code], other[code], ParameterCount(code))
  BY DEF GroupAgrees
<1>1. code \in DOMAIN Tokens =>
        Agree(TokenFactories[code], Tokens[code], ParameterCount(code))
  BY OneAgree, TwoAgree, ThreeAgree, FourAgree, FiveAgree, ListAgrees,
     OthersAgree DEF ParameterCount,
       TokenFactories, Tokens
<1>2. code \in DOMAIN Tokens
  BY CodesOfFactories, CodesOfSyntaxes
<1>3. /\ code \notin DOMAIN Bindings
      /\ code \notin DOMAIN CompilationUnits
      /\ code \notin DOMAIN Declarations
      /\ code \notin DOMAIN FirstExpressions
      /\ code \notin DOMAIN MiddleExpressions
      /\ code \notin DOMAIN LastExpressions
      /\ code \notin DOMAIN JsDocSyntaxes
      /\ code \notin DOMAIN Literals
      /\ code \notin DOMAIN RegExps
      /\ code \notin DOMAIN FirstStatements
      /\ code \notin DOMAIN LastStatements
      /\ code \notin DOMAIN FirstTypes
      /\ code \notin DOMAIN LastTypes
  BY CodesOfFactories, CodesOfSyntaxes
<1> QED BY <1>1, <1>2, <1>3 DEF AllSyntaxes

LEMMA DeclarationFactoriesAgree == GroupAgrees(DeclarationFactories)
<1> SUFFICES ASSUME NEW code \in DOMAIN DeclarationFactories
             PROVE  /\ \E other \in AllSyntaxes : code \in DOMAIN other
                    /\ \A other \in AllSyntaxes : code \in DOMAIN other =>
                         Agree(DeclarationFactories[code], other[code], ParameterCount(code))
  BY DEF GroupAgrees
<1>1. code \in DOMAIN Declarations =>
        Agree(DeclarationFactories[code], Declarations[code], ParameterCount(code))
  BY OneAgree, TwoAgree, ThreeAgree, FourAgree, FiveAgree, ListAgrees,
     OthersAgree DEF ParameterCount,
       DeclarationFactories, Declarations
<1>2. code \in DOMAIN Declarations
  BY CodesOfFactories, CodesOfSyntaxes
<1>3. /\ code \notin DOMAIN Bindings
      /\ code \notin DOMAIN CompilationUnits
      /\ code \notin DOMAIN FirstExpressions
      /\ code \notin DOMAIN MiddleExpressions
      /\ code \notin DOMAIN LastExpressions
      /\ code \notin DOMAIN JsDocSyntaxes
      /\ code \notin DOMAIN Literals
      /\ code \notin DOMAIN RegExps
      /\ code \notin DOMAIN FirstStatements
      /\ code \notin DOMAIN LastStatements
      /\ code \notin DOMAIN Tokens
      /\ code \notin DOMAIN FirstTypes
      /\ code \notin DOMAIN LastTypes
  BY CodesOfFactories, CodesOfSyntaxes
<1> QED BY <1>1, <1>2, <1>3 DEF AllSyntaxes

LEMMA ExpressionFactoriesAgree == GroupAgrees(ExpressionFactories)
<1> SUFFICES ASSUME NEW code \in DOMAIN ExpressionFactories
             PROVE  /\ \E other \in AllSyntaxes : code \in DOMAIN other
                    /\ \A other \in AllSyntaxes : code \in DOMAIN other =>
                         Agree(ExpressionFactories[code], other[code], ParameterCount(code))
  BY DEF GroupAgrees
<1>1. code \in DOMAIN FirstExpressions =>
        Agree(ExpressionFactories[code], FirstExpressions[code], ParameterCount(code))
  BY OneAgree, TwoAgree, ThreeAgree, FourAgree, FiveAgree, ListAgrees,
     OthersAgree DEF ParameterCount,
       ExpressionFactories, FirstExpressions
<1>2. code \in DOMAIN MiddleExpressions =>
        Agree(ExpressionFactories[code], MiddleExpressions[code], ParameterCount(code))
  BY OneAgree, TwoAgree, ThreeAgree, FourAgree, FiveAgree, ListAgrees,
     OthersAgree DEF ParameterCount,
       ExpressionFactories, MiddleExpressions
<1>3. code \in DOMAIN LastExpressions =>
        Agree(ExpressionFactories[code], LastExpressions[code], ParameterCount(code))
  BY OneAgree, TwoAgree, ThreeAgree, FourAgree, FiveAgree, ListAgrees,
     OthersAgree DEF ParameterCount,
       ExpressionFactories, LastExpressions
<1>4. code \in DOMAIN FirstExpressions \/ code \in DOMAIN MiddleExpressions \/
          code \in DOMAIN LastExpressions
  BY CodesOfFactories, CodesOfSyntaxes
<1>5. /\ code \notin DOMAIN Bindings
      /\ code \notin DOMAIN CompilationUnits
      /\ code \notin DOMAIN Declarations
      /\ code \notin DOMAIN JsDocSyntaxes
      /\ code \notin DOMAIN Literals
      /\ code \notin DOMAIN RegExps
      /\ code \notin DOMAIN FirstStatements
      /\ code \notin DOMAIN LastStatements
      /\ code \notin DOMAIN Tokens
      /\ code \notin DOMAIN FirstTypes
      /\ code \notin DOMAIN LastTypes
  BY CodesOfFactories, CodesOfSyntaxes
<1> QED BY <1>1, <1>2, <1>3, <1>4, <1>5 DEF AllSyntaxes

LEMMA JsDocFactoriesAgree == GroupAgrees(JsDocFactories)
<1> SUFFICES ASSUME NEW code \in DOMAIN JsDocFactories
             PROVE  /\ \E other \in AllSyntaxes : code \in DOMAIN other
                    /\ \A other \in AllSyntaxes : code \in DOMAIN other =>
                         Agree(JsDocFactories[code], other[code], ParameterCount(code))
  BY DEF GroupAgrees
<1>1. code \in DOMAIN JsDocSyntaxes =>
        Agree(JsDocFactories[code], JsDocSyntaxes[code], ParameterCount(code))
  BY OneAgree, TwoAgree, ThreeAgree, FourAgree, FiveAgree, ListAgrees,
     OthersAgree DEF ParameterCount,
       JsDocFactories, JsDocSyntaxes
<1>2. code \in DOMAIN JsDocSyntaxes
  BY CodesOfFactories, CodesOfSyntaxes
<1>3. /\ code \notin DOMAIN Bindings
      /\ code \notin DOMAIN CompilationUnits
      /\ code \notin DOMAIN Declarations
      /\ code \notin DOMAIN FirstExpressions
      /\ code \notin DOMAIN MiddleExpressions
      /\ code \notin DOMAIN LastExpressions
      /\ code \notin DOMAIN Literals
      /\ code \notin DOMAIN RegExps
      /\ code \notin DOMAIN FirstStatements
      /\ code \notin DOMAIN LastStatements
      /\ code \notin DOMAIN Tokens
      /\ code \notin DOMAIN FirstTypes
      /\ code \notin DOMAIN LastTypes
  BY CodesOfFactories, CodesOfSyntaxes
<1> QED BY <1>1, <1>2, <1>3 DEF AllSyntaxes

LEMMA LiteralFactoriesAgree == GroupAgrees(LiteralFactories)
<1> SUFFICES ASSUME NEW code \in DOMAIN LiteralFactories
             PROVE  /\ \E other \in AllSyntaxes : code \in DOMAIN other
                    /\ \A other \in AllSyntaxes : code \in DOMAIN other =>
                         Agree(LiteralFactories[code], other[code], ParameterCount(code))
  BY DEF GroupAgrees
<1>1. code \in DOMAIN Literals =>
        Agree(LiteralFactories[code], Literals[code], ParameterCount(code))
  BY OneAgree, TwoAgree, ThreeAgree, FourAgree, FiveAgree, ListAgrees,
     OthersAgree DEF ParameterCount,
       LiteralFactories, Literals
<1>2. code \in DOMAIN Literals
  BY CodesOfFactories, CodesOfSyntaxes
<1>3. /\ code \notin DOMAIN Bindings
      /\ code \notin DOMAIN CompilationUnits
      /\ code \notin DOMAIN Declarations
      /\ code \notin DOMAIN FirstExpressions
      /\ code \notin DOMAIN MiddleExpressions
      /\ code \notin DOMAIN LastExpressions
      /\ code \notin DOMAIN JsDocSyntaxes
      /\ code \notin DOMAIN RegExps
      /\ code \notin DOMAIN FirstStatements
      /\ code \notin DOMAIN LastStatements
      /\ code \notin DOMAIN Tokens
      /\ code \notin DOMAIN FirstTypes
      /\ code \notin DOMAIN LastTypes
  BY CodesOfFactories, CodesOfSyntaxes
<1> QED BY <1>1, <1>2, <1>3 DEF AllSyntaxes

LEMMA RegExpFactoriesAgree == GroupAgrees(RegExpFactories)
<1> SUFFICES ASSUME NEW code \in DOMAIN RegExpFactories
             PROVE  /\ \E other \in AllSyntaxes : code \in DOMAIN other
                    /\ \A other \in AllSyntaxes : code \in DOMAIN other =>
                         Agree(RegExpFactories[code], other[code], ParameterCount(code))
  BY DEF GroupAgrees
<1>1. code \in DOMAIN RegExps =>
        Agree(RegExpFactories[code], RegExps[code], ParameterCount(code))
  BY OneAgree, TwoAgree, ThreeAgree, FourAgree, FiveAgree, ListAgrees,
     OthersAgree DEF ParameterCount,
       RegExpFactories, RegExps
<1>2. code \in DOMAIN RegExps
  BY CodesOfFactories, CodesOfSyntaxes
<1>3. /\ code \notin DOMAIN Bindings
      /\ code \notin DOMAIN CompilationUnits
      /\ code \notin DOMAIN Declarations
      /\ code \notin DOMAIN FirstExpressions
      /\ code \notin DOMAIN MiddleExpressions
      /\ code \notin DOMAIN LastExpressions
      /\ code \notin DOMAIN JsDocSyntaxes
      /\ code \notin DOMAIN Literals
      /\ code \notin DOMAIN FirstStatements
      /\ code \notin DOMAIN LastStatements
      /\ code \notin DOMAIN Tokens
      /\ code \notin DOMAIN FirstTypes
      /\ code \notin DOMAIN LastTypes
  BY CodesOfFactories, CodesOfSyntaxes
<1> QED BY <1>1, <1>2, <1>3 DEF AllSyntaxes

LEMMA FirstStatementFactoriesAgree == GroupAgrees(FirstStatementFactories)
<1> SUFFICES ASSUME NEW code \in DOMAIN FirstStatementFactories
             PROVE  /\ \E other \in AllSyntaxes : code \in DOMAIN other
                    /\ \A other \in AllSyntaxes : code \in DOMAIN other =>
                         Agree(FirstStatementFactories[code], other[code], ParameterCount(code))
  BY DEF GroupAgrees
<1>1. code \in DOMAIN FirstStatements =>
        Agree(FirstStatementFactories[code], FirstStatements[code], ParameterCount(code))
  BY OneAgree, TwoAgree, ThreeAgree, FourAgree, FiveAgree, ListAgrees,
     OthersAgree DEF ParameterCount,
       FirstStatementFactories, FirstStatements
<1>2. code \in DOMAIN LastStatements =>
        Agree(FirstStatementFactories[code], LastStatements[code], ParameterCount(code))
  BY OneAgree, TwoAgree, ThreeAgree, FourAgree, FiveAgree, ListAgrees,
     OthersAgree DEF ParameterCount,
       FirstStatementFactories, LastStatements
<1>3. code \in DOMAIN FirstStatements \/ code \in DOMAIN LastStatements
  BY CodesOfFactories, CodesOfSyntaxes
<1>4. /\ code \notin DOMAIN Bindings
      /\ code \notin DOMAIN CompilationUnits
      /\ code \notin DOMAIN Declarations
      /\ code \notin DOMAIN FirstExpressions
      /\ code \notin DOMAIN MiddleExpressions
      /\ code \notin DOMAIN LastExpressions
      /\ code \notin DOMAIN JsDocSyntaxes
      /\ code \notin DOMAIN Literals
      /\ code \notin DOMAIN RegExps
      /\ code \notin DOMAIN Tokens
      /\ code \notin DOMAIN FirstTypes
      /\ code \notin DOMAIN LastTypes
  BY CodesOfFactories, CodesOfSyntaxes
<1> QED BY <1>1, <1>2, <1>3, <1>4 DEF AllSyntaxes

LEMMA LastStatementFactoriesAgree == GroupAgrees(LastStatementFactories)
<1> SUFFICES ASSUME NEW code \in DOMAIN LastStatementFactories
             PROVE  /\ \E other \in AllSyntaxes : code \in DOMAIN other
                    /\ \A other \in AllSyntaxes : code \in DOMAIN other =>
                         Agree(LastStatementFactories[code], other[code], ParameterCount(code))
  BY DEF GroupAgrees
<1>1. code \in DOMAIN FirstStatements =>
        Agree(LastStatementFactories[code], FirstStatements[code], ParameterCount(code))
  <2>1. CASE code = "LabeledStatement"
    <3>1. PICK labeled : labeled = [NewNode(<<"Statement">>) EXCEPT !.dropped = {"Label"}]
      OBVIOUS
    <3>2. LastStatementFactories["LabeledStatement"] = labeled
      BY <3>1 DEF LastStatementFactories
    <3>3. FirstStatements["LabeledStatement"] = Children(1)
      BY DEF FirstStatements
    <3>4. ParameterCount("LabeledStatement") = 0
      BY DEF ParameterCount
    <3>5. Agree(labeled, Children(1), 0)
      BY <3>1, OthersAgree
    <3> QED BY <2>1, <3>2, <3>3, <3>4, <3>5
  <2>2. CASE code # "LabeledStatement"
    BY <2>2, OneAgree, TwoAgree, ThreeAgree, OthersAgree DEF ParameterCount,
         LastStatementFactories, FirstStatements
  <2> QED BY <2>1, <2>2
<1>2. code \in DOMAIN LastStatements =>
        Agree(LastStatementFactories[code], LastStatements[code], ParameterCount(code))
  BY OneAgree, TwoAgree, ThreeAgree, FourAgree, FiveAgree, ListAgrees,
     OthersAgree DEF ParameterCount,
       LastStatementFactories, LastStatements
<1>3. code \in DOMAIN FirstStatements \/ code \in DOMAIN LastStatements
  BY CodesOfFactories, CodesOfSyntaxes
<1>4. /\ code \notin DOMAIN Bindings
      /\ code \notin DOMAIN CompilationUnits
      /\ code \notin DOMAIN Declarations
      /\ code \notin DOMAIN FirstExpressions
      /\ code \notin DOMAIN MiddleExpressions
      /\ code \notin DOMAIN LastExpressions
      /\ code \notin DOMAIN JsDocSyntaxes
      /\ code \notin DOMAIN Literals
      /\ code \notin DOMAIN RegExps
      /\ code \notin DOMAIN Tokens
      /\ code \notin DOMAIN FirstTypes
      /\ code \notin DOMAIN LastTypes
  BY CodesOfFactories, CodesOfSyntaxes
<1> QED BY <1>1, <1>2, <1>3, <1>4 DEF AllSyntaxes

LEMMA TypeFactoriesAgree == GroupAgrees(TypeFactories)
<1> SUFFICES ASSUME NEW code \in DOMAIN TypeFactories
             PROVE  /\ \E other \in AllSyntaxes : code \in DOMAIN other
                    /\ \A other \in AllSyntaxes : code \in DOMAIN other =>
                         Agree(TypeFactories[code], other[code], ParameterCount(code))
  BY DEF GroupAgrees
<1>1. code \in DOMAIN FirstTypes =>
        Agree(TypeFactories[code], FirstTypes[code], ParameterCount(code))
  BY OneAgree, TwoAgree, ThreeAgree, FourAgree, FiveAgree, ListAgrees,
     OthersAgree DEF ParameterCount,
       TypeFactories, FirstTypes
<1>2. code \in DOMAIN LastTypes =>
        Agree(TypeFactories[code], LastTypes[code], ParameterCount(code))
  BY OneAgree, TwoAgree, ThreeAgree, FourAgree, FiveAgree, ListAgrees,
     OthersAgree DEF ParameterCount,
       TypeFactories, LastTypes
<1>3. code \in DOMAIN FirstTypes \/ code \in DOMAIN LastTypes
  BY CodesOfFactories, CodesOfSyntaxes
<1>4. /\ code \notin DOMAIN Bindings
      /\ code \notin DOMAIN CompilationUnits
      /\ code \notin DOMAIN Declarations
      /\ code \notin DOMAIN FirstExpressions
      /\ code \notin DOMAIN MiddleExpressions
      /\ code \notin DOMAIN LastExpressions
      /\ code \notin DOMAIN JsDocSyntaxes
      /\ code \notin DOMAIN Literals
      /\ code \notin DOMAIN RegExps
      /\ code \notin DOMAIN FirstStatements
      /\ code \notin DOMAIN LastStatements
      /\ code \notin DOMAIN Tokens
  BY CodesOfFactories, CodesOfSyntaxes
<1> QED BY <1>1, <1>2, <1>3, <1>4 DEF AllSyntaxes

LEMMA MemberAgrees ==
  ASSUME NEW code \in Codes
  PROVE  Agree(FactoryOf(code), SyntaxOf(code), ParameterCount(code))
<1>1. \A group \in AllFactories : GroupAgrees(group)
  BY BindingFactoriesAgree, CompilationUnitFactoriesAgree, TokenFactoriesAgree,
      DeclarationFactoriesAgree, ExpressionFactoriesAgree, JsDocFactoriesAgree,
      LiteralFactoriesAgree, RegExpFactoriesAgree, FirstStatementFactoriesAgree,
      LastStatementFactoriesAgree, TypeFactoriesAgree DEF AllFactories
<1>2. PICK group : group = CHOOSE g \in AllFactories : code \in DOMAIN g
  OBVIOUS
<1>3. group \in AllFactories /\ code \in DOMAIN group
  <2>1. \E g \in AllFactories : code \in DOMAIN g
    BY DEF Codes
  <2> QED BY <1>2, <2>1
<1>4. FactoryOf(code) = group[code]
  BY <1>2 DEF FactoryOf
<1>5. PICK other : other = CHOOSE h \in AllSyntaxes : code \in DOMAIN h
  OBVIOUS
<1>6. other \in AllSyntaxes /\ code \in DOMAIN other
  <2>1. \E h \in AllSyntaxes : code \in DOMAIN h
    BY <1>1, <1>3 DEF GroupAgrees
  <2> QED BY <1>5, <2>1
<1>7. SyntaxOf(code) = other[code]
  BY <1>5 DEF SyntaxOf
<1> QED BY <1>1, <1>3, <1>4, <1>6, <1>7 DEF GroupAgrees

-----------------------------------------------------------------------------
(* What a node was given is read back. *)

(* What the factory was given for a node: all its operands, and a list     *)
(* only where it takes one.                                                *)
Supplied(factory, operand, list) ==
  /\ Range(factory.operands) \subseteq DOMAIN operand
  /\ IsSequence(list)
  /\ factory.list = "" => list = <<>>

LEMMA StoredIsRead ==
  ASSUME NEW factory, NEW syntax, Fits(factory, syntax),
         NEW operand, NEW list, Supplied(factory, operand, list), NEW children,
         children = ChildrenOf(factory, [operand |-> operand, list |-> list])
  PROVE  /\ Len(children) \in Nat
         /\ IF syntax.variadic THEN Len(children) >= syntax.arity
                               ELSE Len(children) = syntax.arity
         /\ \A name \in DOMAIN syntax.child :
              name \in DOMAIN operand /\ children[syntax.child[name] + 1] = operand[name]
         /\ \A name \in DOMAIN syntax.list :
              SubSeq(children, syntax.list[name] + 1, Len(children)) = list
<1>1. PICK k, m : k = Len(factory.operands) /\ m = Len(list)
  OBVIOUS
<1>2. PICK stored : stored = [i \in 1 .. k |-> operand[factory.operands[i]]]
  OBVIOUS
<1>3. /\ k \in Nat /\ DOMAIN factory.operands = 1 .. k
      /\ m \in Nat /\ list = [i \in 1 .. m |-> list[i]]
  BY <1>1 DEF Fits, HasOperands, IsSequence, Supplied
<1>4. PICK S : S = {stored[i] : i \in 1 .. k} \cup {list[i] : i \in 1 .. m}
  OBVIOUS
<1>5. stored \in Seq(S) /\ Len(stored) = k
  <2>1. stored \in [1 .. k -> S]
    BY <1>2, <1>4
  <2>2. stored \in Seq(S)
    BY <1>3, <2>1, SeqDef
  <2>3. Len(stored) = k
    BY <1>2, <1>3
  <2> QED BY <2>2, <2>3
<1>6. list \in Seq(S)
  <2>1. list \in [1 .. m -> S]
    BY <1>3, <1>4
  <2> QED BY <1>3, <2>1, SeqDef
<1>7. children = stored \o list
  <2>1. PICK arguments : arguments = [operand |-> operand, list |-> list]
    OBVIOUS
  <2>2. arguments.operand = operand /\ arguments.list = list
    BY <2>1
  <2>3. StoreOperands(factory.operands, arguments) = stored
    BY <1>2, <1>3, <2>2 DEF StoreOperands
  <2> QED BY <2>1, <2>2, <2>3 DEF ChildrenOf
<1>8. /\ children \in Seq(S) /\ Len(children) = k + m
      /\ \A i \in 1 .. k + m : children[i] = IF i <= k THEN stored[i] ELSE list[i - k]
  <2>1. /\ stored \o list \in Seq(S)
        /\ Len(stored \o list) = Len(stored) + Len(list)
        /\ \A i \in 1 .. Len(stored) + Len(list) : (stored \o list)[i] =
                    IF i <= Len(stored) THEN stored[i] ELSE list[i - Len(stored)]
    BY <1>5, <1>6, ConcatProperties
  <2>2. Len(stored) = k /\ Len(list) = m
    BY <1>1, <1>5
  <2> QED BY <1>7, <2>1, <2>2, Zenon
<1>9. IF syntax.variadic THEN Len(children) >= syntax.arity
                        ELSE Len(children) = syntax.arity
  <2>1. syntax.arity = k
    BY <1>1 DEF Fits
  <2>2. CASE syntax.variadic
    BY <1>3, <1>8, <2>1, <2>2
  <2>3. CASE ~ syntax.variadic
    <3>1. list = <<>>
      BY <2>3 DEF Fits, Supplied
    <3>2. m = 0
      BY <1>1, <3>1
    <3> QED BY <1>3, <1>8, <2>1, <2>3, <3>2
  <2> QED BY <2>2, <2>3
<1>10. ASSUME NEW name \in DOMAIN syntax.child
       PROVE  name \in DOMAIN operand /\ children[syntax.child[name] + 1] = operand[name]
  <2>1. PICK i \in 1 .. k : syntax.child[name] = i - 1 /\ factory.operands[i] = name
    BY <1>3 DEF Fits
  <2>2. syntax.child[name] + 1 = i
    BY <1>3, <2>1
  <2>3. children[i] = operand[name]
    <3>1. i \in 1 .. k + m /\ i <= k
      BY <1>3, <2>1
    <3>2. children[i] = stored[i]
      BY <1>8, <3>1
    <3> QED BY <1>2, <2>1, <3>2
  <2>4. name \in DOMAIN operand
    BY <1>3, <2>1 DEF Supplied, Range
  <2> QED BY <2>2, <2>3, <2>4
<1>11. ASSUME NEW name \in DOMAIN syntax.list
       PROVE  SubSeq(children, syntax.list[name] + 1, Len(children)) = list
  <2>1. PICK from, to : from = k + 1 /\ to = k + m
    OBVIOUS
  <2>2. syntax.list[name] + 1 = from /\ Len(children) = to
    BY <1>1, <1>8, <2>1 DEF Fits
  <2>3. PICK rest : rest = SubSeq(children, from, to)
    OBVIOUS
  <2>4. /\ from \in Int /\ to \in Int /\ to - from + 1 = m
        /\ (IF from <= to THEN to - from + 1 ELSE 0) = m
    BY <1>3, <2>1
  <2>5. \A i \in from .. to : children[i] \in S
    <3>1. ASSUME NEW i \in from .. to
          PROVE  children[i] \in S
      <4>1. i \in 1 .. Len(children)
        BY <1>3, <1>8, <2>1
      <4> QED BY <1>8, <4>1, LenProperties
    <3> QED BY <3>1
  <2>6. /\ rest \in Seq(S) /\ Len(rest) = m
        /\ \A i \in 1 .. m : rest[i] = children[from + i - 1]
    BY <2>3, <2>4, <2>5, SubSeqProperties
  <2>7. \A i \in 1 .. m : rest[i] = list[i]
    <3>1. ASSUME NEW i \in 1 .. m
          PROVE  rest[i] = list[i]
      <4>1. from + i - 1 = k + i /\ k + i \in 1 .. k + m /\ ~ (k + i <= k) /\ (k + i) - k = i
        BY <1>3, <2>1
      <4> QED BY <1>8, <2>6, <4>1
    <3> QED BY <3>1
  <2>8. rest = list
    BY <1>1, <1>6, <2>6, <2>7, SeqEqual
  <2> QED BY <2>2, <2>3, <2>8
<1>12. Len(children) \in Nat
  BY <1>3, <1>8
<1> QED BY <1>9, <1>10, <1>11, <1>12

(* Syntaxes have the parameters of their codes, and every node has what    *)
(* the factory stored for it.                                              *)
StoredInv ==
  /\ NodesAreGiven
  /\ \A i \in DOMAIN syntaxes :
       Len(syntaxes[i].parameters) = ParameterCount(syntaxes[i].code)
  /\ \A n \in DOMAIN nodes :
       LET arguments == given[n].arguments
       IN  /\ given[n].code \in Codes
           /\ arguments = [operand |-> arguments.operand, list |-> arguments.list]
           /\ Supplied(FactoryOf(given[n].code), arguments.operand, arguments.list)
           /\ nodes[n].children = ChildrenOf(FactoryOf(given[n].code), arguments)

LEMMA StoredInvDecides == StoredInv => ArgumentsAreReadBack
<1> SUFFICES ASSUME StoredInv, NEW n \in DOMAIN nodes
             PROVE  LET syntax == SyntaxOf(CodeOf(n))
                    IN  /\ CodeOf(n) = given[n].code
                        /\ IF syntax.variadic THEN ArityOf(n) >= syntax.arity
                                              ELSE ArityOf(n) = syntax.arity
                        /\ Len(syntaxes[nodes[n].syntax].parameters) = syntax.parameters
                        /\ \A name \in DOMAIN syntax.child :
                             ChildAt(n, syntax.child[name]) = Given(n, name)
                        /\ \A name \in DOMAIN syntax.list :
                             ChildNodesFrom(n, syntax.list[name]) = given[n].arguments.list
  BY DEF ArgumentsAreReadBack
<1>1. PICK code, syntax, factory, operand, list, children :
        /\ code = given[n].code /\ syntax = SyntaxOf(code) /\ factory = FactoryOf(code)
        /\ operand = given[n].arguments.operand /\ list = given[n].arguments.list
        /\ children = nodes[n].children
  OBVIOUS
<1>2. CodeOf(n) = code /\ nodes[n].syntax \in DOMAIN syntaxes
  BY <1>1 DEF StoredInv, NodesAreGiven
<1>3. /\ code \in Codes /\ Supplied(factory, operand, list)
      /\ given[n].arguments = [operand |-> operand, list |-> list]
      /\ children = ChildrenOf(factory, given[n].arguments)
  BY <1>1 DEF StoredInv
<1>4. children = ChildrenOf(factory, [operand |-> operand, list |-> list])
  BY <1>3
<1>5. Fits(factory, syntax) /\ syntax.parameters = ParameterCount(code)
  BY <1>1, <1>3, MemberAgrees DEF Agree
<1>6. /\ IF syntax.variadic THEN Len(children) >= syntax.arity
                            ELSE Len(children) = syntax.arity
      /\ \A name \in DOMAIN syntax.child :
           name \in DOMAIN operand /\ children[syntax.child[name] + 1] = operand[name]
      /\ \A name \in DOMAIN syntax.list :
           SubSeq(children, syntax.list[name] + 1, Len(children)) = list
  BY <1>3, <1>4, <1>5, StoredIsRead
<1>7. Len(syntaxes[nodes[n].syntax].parameters) = syntax.parameters
  BY <1>2, <1>5 DEF StoredInv, CodeOf
<1>8. ArityOf(n) = Len(children) /\ \A i : ChildAt(n, i) = children[i + 1]
  BY <1>1 DEF ArityOf, ChildAt
<1>9. \A i : ChildNodesFrom(n, i) = SubSeq(children, i + 1, Len(children))
  BY <1>1, <1>8 DEF ChildNodesFrom
<1>10. \A name \in DOMAIN operand : Given(n, name) = operand[name]
  BY <1>1 DEF Given
<1>11. \A name \in DOMAIN syntax.child : ChildAt(n, syntax.child[name]) = Given(n, name)
  BY <1>6, <1>8, <1>10
<1>12. \A name \in DOMAIN syntax.list : ChildNodesFrom(n, syntax.list[name]) = list
  BY <1>6, <1>9
<1> QED BY <1>1, <1>2, <1>6, <1>7, <1>8, <1>11, <1>12

LEMMA NodeIsStored ==
  ASSUME StoredInv, NEW code \in Codes, NEW parameters,
         Len(parameters) = ParameterCount(code), NEW operand, NEW list, NEW text,
         Supplied(FactoryOf(code), operand, list),
         NewNodeOf(code, parameters, [operand |-> operand, list |-> list], text)
  PROVE  StoredInv'
<1>1. PICK n, arguments, factory :
        /\ n = Len(nodes) + 1 /\ factory = FactoryOf(code)
        /\ arguments = [operand |-> operand, list |-> list]
  OBVIOUS
<1>2. arguments.operand = operand /\ arguments.list = list
  BY <1>1
<1>3. NewNodeOf(code, parameters, arguments, text)
  BY <1>1
<1>4. NodesAreGiven
  BY DEF StoredInv
<1>5. NodesAreGiven' /\ NodesKept /\ NewNodeGiven(code, parameters, text)
  BY <1>3, <1>4, NodeIsMade
<1>6. nodes'[n].children = ChildrenOf(factory, arguments)
  <2>1. PICK syntax, children :
          /\ children = ChildrenOf(factory, arguments)
          /\ nodes' = Append(nodes, [syntax |-> syntax, children |-> children])
    BY <1>1, <1>3 DEF NewNodeOf
  <2>2. PICK new : new = [syntax |-> syntax, children |-> children]
    OBVIOUS
  <2>3. nodes'[n] = new
    BY <1>1, <1>4, <2>1, <2>2, AppendToSequence DEF NodesAreGiven
  <2>4. new.children = children
    BY <2>2
  <2> QED BY <2>1, <2>3, <2>4, Zenon
<1>7. given'[n].arguments = arguments
  <2>1. PICK new : new = [code |-> code, parameters |-> parameters,
                          arguments |-> arguments, text |-> text]
    OBVIOUS
  <2>2. given' = Append(given, new)
    BY <1>3, <2>1 DEF NewNodeOf
  <2>3. IsSequence(given) /\ Len(given) = Len(nodes)
    BY <1>4 DEF NodesAreGiven
  <2>4. given'[n] = new
    BY <1>1, <2>2, <2>3, AppendToSequence
  <2> QED BY <2>1, <2>4
<1>8. DOMAIN nodes' = DOMAIN nodes \cup {n} /\ given'[n].code = code
  BY <1>1, <1>5 DEF NewNodeGiven
<1>9. ASSUME NEW i \in DOMAIN syntaxes'
      PROVE  Len(syntaxes'[i].parameters) = ParameterCount(syntaxes'[i].code)
  <2>1. CASE i \in DOMAIN syntaxes
    <3>1. syntaxes'[i] = syntaxes[i]
      BY <1>5, <2>1 DEF NodesKept
    <3> QED BY <2>1, <3>1 DEF StoredInv
  <2>2. CASE i \notin DOMAIN syntaxes
    <3>1. PICK syntax, found : syntax = nodes'[n].syntax /\ found = Find(code, parameters)
      OBVIOUS
    <3>2. /\ syntaxes' # syntaxes
          /\ found # {} => syntaxes' = syntaxes
          /\ found = {} => /\ syntaxes' = Append(syntaxes, syntaxes'[syntax])
                           /\ syntax = Len(syntaxes) + 1
                           /\ syntaxes'[syntax] = [code |-> code, parameters |-> parameters]
      <4>1. syntaxes' # syntaxes
        BY <1>9, <2>2
      <4> QED BY <1>1, <1>5, <3>1, <4>1 DEF NewNodeGiven
    <3>3. PICK new : new = syntaxes'[syntax]
      OBVIOUS
    <3>4. syntaxes' = Append(syntaxes, new) /\ syntax = Len(syntaxes) + 1
      BY <3>2, <3>3
    <3>5. IsSequence(syntaxes)
      BY <1>4 DEF NodesAreGiven
    <3>6. DOMAIN syntaxes' = DOMAIN syntaxes \cup {syntax}
      BY <3>4, <3>5, AppendToSequence
    <3>7. i = syntax
      BY <1>9, <2>2, <3>6
    <3>8. syntaxes'[i].code = code /\ syntaxes'[i].parameters = parameters
      BY <3>2, <3>7
    <3> QED BY <3>8
  <2> QED BY <2>1, <2>2
<1>10. ASSUME NEW m \in DOMAIN nodes', NEW g, g = given'[m].arguments
       PROVE  /\ given'[m].code \in Codes
              /\ g = [operand |-> g.operand, list |-> g.list]
              /\ Supplied(FactoryOf(given'[m].code), g.operand, g.list)
              /\ nodes'[m].children = ChildrenOf(FactoryOf(given'[m].code), g)
  <2>1. CASE m \in DOMAIN nodes
    <3>1. nodes'[m] = nodes[m] /\ given'[m] = given[m]
      BY <1>5, <2>1 DEF NodesKept
    <3> QED BY <1>10, <2>1, <3>1 DEF StoredInv
  <2>2. CASE m = n
    BY <1>1, <1>2, <1>6, <1>7, <1>8, <1>10, <2>2
  <2> QED BY <1>8, <2>1, <2>2
<1> QED BY <1>5, <1>9, <1>10 DEF StoredInv

LEMMA ParametersCounted ==
  ASSUME NEW code, code \notin {"Name", "Punctuator", "NumericLiteral"},
         NEW operand, NEW parameters \in ParametersOf(code, operand)
  PROVE  Len(parameters) = ParameterCount(code)
<1>1. PICK number : number = NumberOf(operand["Operator"])
  OBVIOUS
<1>2. /\ Len(<<number>>) = 1 /\ Len(<<0>>) = 1 /\ Len(<<1>>) = 1
      /\ Len(<<0, 0>>) = 2 /\ Len(<<1, 0>>) = 2
      /\ Len(<<0, 0, 1>>) = 3 /\ Len(<<1, 0, 1>>) = 3 /\ Len(<<>>) = 0
  OBVIOUS
<1>3. CASE code \in {"AssignmentExpression", "BinaryExpression", "UnaryExpression"}
  BY <1>1, <1>2, <1>3 DEF ParametersOf, ParameterCount
<1>4. CASE code \in {"ArrowFunction", "Function", "FunctionType",
                     "AssertionRegExp", "Invalid", "BooleanLiteral"}
  BY <1>2, <1>4 DEF ParametersOf, ParameterCount
<1>5. CASE code = "Method"
  BY <1>2, <1>5 DEF ParametersOf, ParameterCount
<1>6. CASE code = "RegExpRepeat"
  BY <1>2, <1>6 DEF ParametersOf, ParameterCount
<1>7. CASE code \notin {"AssignmentExpression", "BinaryExpression", "UnaryExpression",
                        "ArrowFunction", "Function", "FunctionType", "AssertionRegExp",
                        "Invalid", "BooleanLiteral", "Method", "RegExpRepeat"}
  BY <1>2, <1>7 DEF ParametersOf, ParameterCount
<1> QED BY <1>3, <1>4, <1>5, <1>6, <1>7

LEMMA MakeKeepsStored ==
  ASSUME TreeInv, StoredInv, MakeNode
  PROVE  StoredInv'
<1>1. ASSUME NEW code, NextInScript(code), code # "YieldStar"
      PROVE  code \in Codes
  <2>1. PICK kinds : kinds = Codes \cup {"YieldStar"}
    OBVIOUS
  <2>2. script \in Seq(kinds) /\ script # <<>> /\ code = Head(script)
    BY <1>1, <2>1 DEF TreeInv, NextInScript
  <2>3. code \in kinds
    BY <2>2, HeadTailProperties
  <2> QED BY <1>1, <2>1, <2>3
<1>2. ASSUME NEW code \in {"Name", "Punctuator", "NumericLiteral"}, NEW value, NEW text,
             NewNodeOf(code, <<value>>, NoArguments, text)
      PROVE  StoredInv'
  <2>1. code \in Codes /\ FactoryOf(code).operands = <<>>
    BY LeavesHaveNone
  <2>2. PICK none, parameters : none = <<>> /\ parameters = <<value>>
    OBVIOUS
  <2>3. Supplied(FactoryOf(code), none, none)
    <3>1. Range(FactoryOf(code).operands) = {}
      BY <2>1 DEF Range
    <3>2. IsSequence(none)
      BY <2>2, TuplesAreSequences
    <3> QED BY <2>2, <3>1, <3>2 DEF Supplied
  <2>4. Len(parameters) = ParameterCount(code)
    BY <2>2 DEF ParameterCount
  <2>5. NewNodeOf(code, parameters, [operand |-> none, list |-> none], text)
    BY <1>2, <2>2 DEF NoArguments
  <2> QED BY <2>1, <2>3, <2>4, <2>5, NodeIsStored
<1>3. CASE NewName
  <2>1. PICK value, text : NewNodeOf("Name", <<value>>, NoArguments, text)
    BY <1>3 DEF NewName
  <2> QED BY <1>2, <2>1
<1>4. CASE NewYieldStar
  <2>1. PICK value, text : NewNodeOf("Name", <<value>>, NoArguments, text)
    BY <1>4 DEF NewYieldStar
  <2> QED BY <1>2, <2>1
<1>5. CASE NewPunctuator
  <2>1. PICK value, text : NewNodeOf("Punctuator", <<value>>, NoArguments, text)
    BY <1>5 DEF NewPunctuator
  <2> QED BY <1>2, <2>1
<1>6. CASE NewNumericLiteral
  <2>1. PICK value, text : NewNodeOf("NumericLiteral", <<value>>, NoArguments, text)
    BY <1>6 DEF NewNumericLiteral
  <2> QED BY <1>2, <2>1
<1>7. ASSUME NEW code, code \notin {"Name", "YieldStar", "Punctuator", "NumericLiteral"},
             NewOther(code)
      PROVE  StoredInv'
  <2>1. PICK factory, names_, D :
          /\ factory = FactoryOf(code) /\ D = DOMAIN nodes
          /\ names_ = Range(factory.operands) \cup factory.dropped
    OBVIOUS
  <2>2. PICK operand \in [names_ -> D],
             list \in IF factory.list = "" THEN {<<>>}
                      ELSE UNION {[1..n -> D] : n \in 0..MaxList} :
          /\ NextInScript(code)
          /\ \E parameters \in ParametersOf(code, operand) :
               NewNodeOf(code, parameters, [operand |-> operand, list |-> list], "")
    BY <1>7, <2>1 DEF NewOther
  <2>3. PICK parameters \in ParametersOf(code, operand), text \in {""} :
          NewNodeOf(code, parameters, [operand |-> operand, list |-> list], text)
    BY <2>2
  <2>4. code \in Codes
    BY <1>1, <1>7, <2>2
  <2>5. Len(parameters) = ParameterCount(code)
    BY <1>7, <2>3, ParametersCounted
  <2>6. IsSequence(list) /\ (factory.list = "" => list = <<>>)
    <3>1. CASE factory.list = ""
      BY <2>2, <3>1, TuplesAreSequences
    <3>2. CASE factory.list # ""
      <4>1. PICK n \in 0 .. MaxList : list \in [1 .. n -> D]
        BY <2>2, <3>2
      <4>2. list \in Seq(D)
        BY <4>1, LengthsOfLists, SeqDef
      <4>3. IsSequence(list)
        BY <4>2, LenProperties DEF IsSequence
      <4> QED BY <3>2, <4>3
    <3> QED BY <3>1, <3>2
  <2>7. Supplied(FactoryOf(code), operand, list)
    BY <2>1, <2>2, <2>6 DEF Supplied
  <2> QED BY <2>3, <2>4, <2>5, <2>7, NodeIsStored
<1> QED BY <1>3, <1>4, <1>5, <1>6, <1>7 DEF MakeNode

LEMMA StoredInvInitially == Init => StoredInv
<1> SUFFICES ASSUME Init PROVE StoredInv
  OBVIOUS
<1>1. /\ NodesAreGiven /\ DOMAIN nodes = {}
      /\ \A i \in DOMAIN syntaxes : syntaxes[i].code = "BooleanLiteral"
  BY InitIsGiven
<1>2. PICK no, yes : /\ no = [code |-> "BooleanLiteral", parameters |-> <<0>>]
                     /\ yes = [code |-> "BooleanLiteral", parameters |-> <<1>>]
                     /\ syntaxes = <<no, yes>>
  BY DEF Init
<1>3. Len(no.parameters) = 1 /\ Len(yes.parameters) = 1
  BY <1>2
<1>4. \A i \in DOMAIN syntaxes : syntaxes[i] = no \/ syntaxes[i] = yes
  BY <1>2
<1>5. ParameterCount("BooleanLiteral") = 1
  BY DEF ParameterCount
<1>6. \A i \in DOMAIN syntaxes :
        Len(syntaxes[i].parameters) = ParameterCount(syntaxes[i].code)
  BY <1>1, <1>3, <1>4, <1>5
<1> QED BY <1>1, <1>6 DEF StoredInv

(* Whatever nodes a member of the factory is given, the accessors of the   *)
(* syntax of its node read them back, and its format holds.                *)
THEOREM ArgumentsCorrect == Spec => []ArgumentsAreReadBack
<1>1. Init => WalkInv /\ StoredInv
  BY WalkInvInitially, StoredInvInitially
<1>2. ASSUME TreeInv, StoredInv, [Next]_vars
      PROVE  TreeInv' /\ StoredInv'
  <2>1. CASE MakeNode
    BY <1>2, <2>1, MakeKeepsTree, MakeKeepsStored
  <2>2. CASE BeginWalk \/ Visit \/ UNCHANGED vars
    <3>1. UNCHANGED <<script, nodes, given, syntaxes>>
      BY <2>2 DEF BeginWalk, Visit, vars
    <3>2. TreeInv'
      BY <1>2, <3>1 DEF TreeInv
    <3>3. StoredInv'
      BY <1>2, <3>1 DEF StoredInv, NodesAreGiven, CodeOf
    <3> QED BY <3>2, <3>3
  <2> QED BY <1>2, <2>1, <2>2 DEF Next
<1>3. WalkInv => TreeInv
  BY DEF WalkInv
<1> QED BY <1>1, <1>2, <1>3, StoredInvDecides, PTL DEF Spec
===============================================================================
