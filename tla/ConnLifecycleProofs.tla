------------------------- MODULE ConnLifecycleProofs -------------------------
(***************************************************************************)
(* Theorems about ConnLifecycle, for any set of releases that may fail.    *)
(*                                                                         *)
(* The proof follows the programs, not the states: a program is traced     *)
(* from what is live before it to what is live after it, with every        *)
(* instruction allowed where it stands.  The functions of librpma are      *)
(* traced one by one and then put together as the code puts them together. *)
(***************************************************************************)
EXTENDS ConnLifecycle, Integers, TLAPS

(* The steps without arithmetic or sequence constructors, which are most   *)
(* of them, are for Zenon; the others name the SMT solver.                 *)
USE Zenon

(* What may be live.                                                       *)
Sets == SUBSET Resources

(* The instructions of an undo program, of a deletion, which may jump to   *)
(* one, and of any program.                                                *)
Ops == {"get", "reg", "rel", "drop", "do", "move", "goto", "return"}
Instr0 == [op : Ops, r : Resources \cup {"none"}, alt : {<<>>}]
Instr1 == [op : Ops, r : Resources \cup {"none"}, alt : Seq(Instr0)]
Instr2 == [op : Ops, r : Resources \cup {"none"}, alt : Seq(Instr1)]

(* p leads from A to B, with each instruction as R allows it.              *)
Traced(p, R, A, B) ==
    /\ p \in Seq(Instr2)
    /\ \E t : /\ t[0] = A /\ t[Len(p)] = B
              /\ \A i \in 1..Len(p) : <<p[i], t[i - 1], t[i]>> \in R

-----------------------------------------------------------------------------
(* The empty program changes nothing.                                      *)
LEMMA Nothing == ASSUME NEW R, NEW A PROVE Traced(<<>>, R, A, A)
<1>1. <<>> \in Seq(Instr2) /\ Len(<<>>) = 0
  BY SMT
<1> DEFINE t == [i \in {0} |-> A]
<1>2. t[0] = A /\ \A i \in 1..0 : <<<<>>[i], t[i - 1], t[i]>> \in R
  BY SMT
<1> QED BY <1>1, <1>2 DEF Traced

(* A program of one instruction.                                           *)
LEMMA Single ==
  ASSUME NEW R, NEW x \in Instr2, NEW A, NEW B, <<x, A, B>> \in R
  PROVE  Traced(<<x>>, R, A, B)
<1>1. <<x>> \in Seq(Instr2) /\ Len(<<x>>) = 1 /\ <<x>>[1] = x
  BY SMT
<1> DEFINE t == [i \in 0..1 |-> IF i = 0 THEN A ELSE B]
<1>2. t[0] = A /\ t[1] = B
  BY SMT
<1>3. \A i \in 1..1 : <<<<x>>[i], t[i - 1], t[i]>> \in R
  <2> SUFFICES <<<<x>>[1], t[0], t[1]>> \in R
    BY SMT
  <2> QED BY <1>1, <1>2
<1> HIDE DEF t
<1> QED BY <1>1, <1>2, <1>3 DEF Traced

(* What the trace of one instruction says.                                 *)
LEMMA SingleIs ==
  ASSUME NEW R, NEW x, NEW A, NEW B, Traced(<<x>>, R, A, B)
  PROVE  x \in Instr2 /\ <<x, A, B>> \in R
<1>1. <<x>> \in Seq(Instr2)
  BY DEF Traced
<1>2. Len(<<x>>) = 1 /\ <<x>>[1] = x /\ 1 \in 1..1 /\ 1 - 1 = 0 /\ x \in Instr2
  BY SMT, <1>1
<1> QED BY <1>2 DEF Traced

(* One program after the other.                                            *)
LEMMA Then ==
  ASSUME NEW R, NEW p, NEW q, NEW A, NEW B, NEW C, Traced(p, R, A, B), Traced(q, R, B, C)
  PROVE  Traced(p \o q, R, A, C)
<1>1. /\ p \in Seq(Instr2) /\ q \in Seq(Instr2)
  BY DEF Traced
<1>2. PICK t : /\ t[0] = A /\ t[Len(p)] = B
               /\ \A i \in 1..Len(p) : <<p[i], t[i - 1], t[i]>> \in R
  BY DEF Traced
<1>3. PICK u : /\ u[0] = B /\ u[Len(q)] = C
               /\ \A i \in 1..Len(q) : <<q[i], u[i - 1], u[i]>> \in R
  BY DEF Traced
<1> DEFINE m == Len(p)
           n == Len(q)
           v == [i \in 0..(m + n) |-> IF i <= m THEN t[i] ELSE u[i - m]]
<1>4. m \in Nat /\ n \in Nat /\ p \o q \in Seq(Instr2) /\ Len(p \o q) = m + n
  BY SMT, <1>1
<1>5. \A i \in 1..(m + n) : (p \o q)[i] = IF i <= m THEN p[i] ELSE q[i - m]
  BY SMT, <1>1
<1> HIDE DEF m, n
<1>6. v[0] = A /\ v[m + n] = C
  BY SMT, <1>2, <1>3, <1>4 DEF m, n
<1>7. ASSUME NEW i \in 1..(m + n) PROVE <<(p \o q)[i], v[i - 1], v[i]>> \in R
  <2>1. CASE i <= m
    <3>1. i \in 1..m /\ v[i] = t[i] /\ v[i - 1] = t[i - 1] /\ (p \o q)[i] = p[i]
      BY SMT, <1>4, <1>5, <1>7, <2>1
    <3> QED BY <1>2, <3>1 DEF m
  <2>2. CASE ~(i <= m)
    <3>1. /\ i - m \in 1..n /\ v[i] = u[i - m] /\ (p \o q)[i] = q[i - m]
          /\ v[i - 1] = u[(i - m) - 1]
      BY SMT, <1>2, <1>3, <1>4, <1>5, <1>7, <2>2 DEF m
    <3> QED BY <1>3, <3>1 DEF n
  <2> QED BY <2>1, <2>2
<1> HIDE DEF v
<1> QED BY <1>4, <1>6, <1>7 DEF Traced, m, n

(* The first instruction of a program, and the rest.                       *)
LEMMA FirstAndRest ==
  ASSUME NEW R, NEW p, NEW A, NEW B, Traced(p, R, A, B), p # <<>>
  PROVE  /\ Head(p) \in Instr2
         /\ \E M : <<Head(p), A, M>> \in R /\ Traced(Tail(p), R, M, B)
<1>1. p \in Seq(Instr2)
  BY DEF Traced
<1>2. PICK t : /\ t[0] = A /\ t[Len(p)] = B
               /\ \A i \in 1..Len(p) : <<p[i], t[i - 1], t[i]>> \in R
  BY DEF Traced
<1> DEFINE n == Len(Tail(p))
           u == [i \in 0..n |-> t[i + 1]]
<1>3. /\ n \in Nat /\ Len(p) = n + 1 /\ Tail(p) \in Seq(Instr2) /\ Head(p) = p[1] /\ Head(p) \in Instr2
      /\ \A i \in 1..n : Tail(p)[i] = p[i + 1]
  BY SMT, <1>1
<1> HIDE DEF n
<1>4. <<Head(p), A, t[1]>> \in R
  <2>1. 1 \in 1..Len(p) /\ 1 - 1 = 0
    BY SMT, <1>3
  <2> QED BY <1>2, <1>3, <2>1
<1>5. u[0] = t[1] /\ u[n] = B
  BY SMT, <1>2, <1>3
<1>6. ASSUME NEW i \in 1..n PROVE <<Tail(p)[i], u[i - 1], u[i]>> \in R
  <2>1. /\ i + 1 \in 1..Len(p) /\ Tail(p)[i] = p[i + 1] /\ u[i] = t[i + 1]
        /\ u[i - 1] = t[(i + 1) - 1]
    BY SMT, <1>3, <1>6
  <2> QED BY <1>2, <2>1
<1> HIDE DEF u
<1>7. Traced(Tail(p), R, t[1], B)
  BY <1>3, <1>5, <1>6 DEF Traced, n
<1> QED BY <1>3, <1>4, <1>7

(* The program that is done.                                               *)
LEMMA AtTheEnd == ASSUME NEW R, NEW A, NEW B, Traced(<<>>, R, A, B) PROVE A = B
<1>1. Len(<<>>) = 0
  BY SMT
<1> QED BY <1>1 DEF Traced

(* A trace that more is allowed in.                                        *)
LEMMA Wider ==
  ASSUME NEW R, NEW S, R \subseteq S, NEW p, NEW A, NEW B, Traced(p, R, A, B)
  PROVE  Traced(p, S, A, B)
BY DEF Traced

(* What R knows of every instruction it allows is true of the program's.   *)
LEMMA MadeOf ==
  ASSUME NEW R, NEW I, \A x, A, B : <<x, A, B>> \in R => x \in I,
         NEW p, NEW A, NEW B, Traced(p, R, A, B)
  PROVE  p \in Seq(I)
<1>1. p \in Seq(Instr2) /\ \A i \in 1..Len(p) : p[i] \in I
  BY DEF Traced
<1> QED BY SMT, <1>1

(* How a program ends.                                                     *)
Last(p) == p[Len(p)]
EndsIn(p, W) == p # <<>> /\ Last(p).op \in W

(* A program ends as its last part does.                                   *)
LEMMA EndsAlike ==
  ASSUME NEW W, NEW p \in Seq(Instr2), NEW q \in Seq(Instr2), EndsIn(q, W)
  PROVE  EndsIn(p \o q, W)
<1>1. q # <<>> /\ Last(q).op \in W
  BY DEF EndsIn
<1>2. p \o q # <<>> /\ Last(p \o q) = Last(q)
  BY SMT, <1>1 DEF Last
<1> QED BY <1>1, <1>2 DEF EndsIn

(* The rest of a program ends as the program does.                         *)
LEMMA TailEnds ==
  ASSUME NEW W, NEW p \in Seq(Instr2), EndsIn(p, W)
  PROVE  IF Tail(p) = <<>> THEN Head(p).op \in W ELSE EndsIn(Tail(p), W)
<1>1. p # <<>> /\ Last(p).op \in W
  BY DEF EndsIn
<1>2. CASE Tail(p) = <<>>
  <2>1. Len(p) = Len(Tail(p)) + 1 /\ Head(p) = p[1]
    BY SMT, <1>1
  <2>a. Len(<<>>) = 0
    BY SMT
  <2>2. Len(Tail(p)) = 0
    BY <1>2, <2>a
  <2>3. Head(p) = Last(p)
    BY SMT, <2>1, <2>2 DEF Last
  <2> QED BY <1>1, <1>2, <2>3
<1>3. CASE Tail(p) # <<>>
  <2>1. Last(Tail(p)) = Last(p)
    BY SMT, <1>1, <1>3 DEF Last
  <2> QED BY <1>1, <1>3, <2>1 DEF EndsIn
<1> QED BY <1>2, <1>3

-----------------------------------------------------------------------------
(* What is built on r: it must be gone when r is released.                 *)
Users(r) ==
    CASE r = "pd" -> {"qp", "mr", "raw_mr"}
      [] r \in {"id", "cq", "rcq"} -> {"qp"}
      [] r = "channel" -> {"cq", "rcq"}
      [] r = "cq_channel" -> {"cq"}
      [] r = "rcq_channel" -> {"rcq"}
      [] r = "raw" -> {"raw_mr"}
      [] r = "ep_evch" -> {"ep_id"}
      [] r = "evch" -> {"on_evch"}
      [] OTHER -> {}

(* What r is built on is there when r is acquired.                         *)
BuiltOn(r, A) ==
    CASE r = "id" -> "on_evch" \notin A
      [] r = "on_evch" -> "evch" \in A
      [] OTHER -> Uses(r) \subseteq A

(* The instructions that cannot fail or go on when they do.                *)
PlainStep(x, A, B) ==
    \/ x.op = "rel" /\ x.r \in A /\ Users(x.r) \cap A = {} /\ B = A \ Lost(x.r)
    \/ x.op = "drop" /\ x.r \in {"req_data", "conn_data"} /\ B = A \ {x.r}
    \/ /\ x.op = "move"
       /\ B = IF "req_data" \in A THEN (A \ {"req_data"}) \cup {"conn_data"} ELSE A
    \/ x.op = "do" /\ B = A

GetStep(x, A, B) ==
    x.op \in {"get", "reg"} /\ BuiltOn(x.r, A) /\ B = A \cup ({x.r} \ {"none"})

(* Undo programs, and the same with a return if W has it; deletions, which *)
(* end in C whether they jump or not, with jumps to programs whose last    *)
(* instruction is one of W; constructors, which undo what they have done   *)
(* and end in one of F if they fail; and programs, which in addition       *)
(* release what is in Q on the way to success and may undo what they have  *)
(* done with a deletion that does not return.                              *)
Others == Ops \ {"return"}

Plain == {s \in Instr0 \X Sets \X Sets : PlainStep(s[1], s[2], s[3])}

Undoing(W) ==
    Plain \cup {s \in Instr0 \X Sets \X Sets :
                   s[1].op = "return" /\ "return" \in W /\ s[3] = s[2]}

Deleting(C, W) ==
    Undoing(W) \cup {s \in Instr1 \X Sets \X Sets :
                        /\ s[1].op = "goto" /\ s[3] = s[2]
                        /\ EndsIn(s[1].alt, W) /\ Traced(s[1].alt, Undoing(W), s[2], C)}

Creating(F) ==
    {s \in Instr1 \X Sets \X Sets :
        GetStep(s[1], s[2], s[3]) /\ \E f \in F : Traced(s[1].alt, Plain, s[2], f)}

Running(F, Q) ==
    {s \in Plain : s[1].op = "rel" => s[1].r \in Q}
    \cup {s \in Instr2 \X Sets \X Sets :
             GetStep(s[1], s[2], s[3]) /\ \E f \in F : Traced(s[1].alt, Deleting(f, Others), s[2], f)}

(* The undo programs consist of instructions without alternative.          *)
LEMMA Kinds == Instr0 \subseteq Instr1 /\ Instr1 \subseteq Instr2
<1>1. <<>> \in Seq(Instr0)
  BY SMT
<1>2. Instr0 \subseteq Instr1
  BY <1>1 DEF Instr0, Instr1
<1>3. Seq(Instr0) \subseteq Seq(Instr1)
  BY SMT, <1>2
<1> QED BY <1>2, <1>3 DEF Instr1, Instr2

(* What Plain says.                                                        *)
LEMMA PlainIs ==
  \A x, A, B : <<x, A, B>> \in Plain <=> x \in Instr0 /\ A \in Sets /\ B \in Sets /\ PlainStep(x, A, B)
BY SMT DEF Plain

(* What Undoing says.                                                      *)
LEMMA UndoingIs ==
  ASSUME NEW W
  PROVE  \A x, A, B : <<x, A, B>> \in Undoing(W) <=>
           \/ <<x, A, B>> \in Plain
           \/ x \in Instr0 /\ A \in Sets /\ B = A /\ x.op = "return" /\ "return" \in W
BY SMT DEF Undoing

(* What Deleting says.                                                     *)
LEMMA DeletingIs ==
  ASSUME NEW C, NEW W
  PROVE  \A x, A, B : <<x, A, B>> \in Deleting(C, W) <=>
           \/ <<x, A, B>> \in Undoing(W)
           \/ /\ x \in Instr1 /\ A \in Sets /\ B = A /\ x.op = "goto"
              /\ EndsIn(x.alt, W) /\ Traced(x.alt, Undoing(W), A, C)
BY SMT DEF Deleting

(* What Creating says.                                                     *)
LEMMA CreatingIs ==
  ASSUME NEW F
  PROVE  \A x, A, B : <<x, A, B>> \in Creating(F) <=>
           /\ x \in Instr1 /\ A \in Sets /\ B \in Sets /\ GetStep(x, A, B)
           /\ \E f \in F : Traced(x.alt, Plain, A, f)
BY SMT DEF Creating

(* What Running says.                                                      *)
LEMMA RunningIs ==
  ASSUME NEW F, NEW Q
  PROVE  \A x, A, B : <<x, A, B>> \in Running(F, Q) <=>
           \/ <<x, A, B>> \in Plain /\ (x.op = "rel" => x.r \in Q)
           \/ /\ x \in Instr2 /\ A \in Sets /\ B \in Sets /\ GetStep(x, A, B)
              /\ \E f \in F : Traced(x.alt, Deleting(f, Others), A, f)
BY SMT DEF Running

-----------------------------------------------------------------------------
(* Rules for the instructions.                                             *)
LEMMA RelRule ==
  ASSUME NEW A \in Sets, NEW r \in A, Users(r) \cap A = {}
  PROVE  Traced(<<Rel(r)>>, Plain, A, A \ Lost(r))
<1>1. Rel(r) \in Instr0 /\ A \ Lost(r) \in Sets
  BY DEF Rel, Instr0, Ops, Sets
<1>2. PlainStep(Rel(r), A, A \ Lost(r))
  BY DEF PlainStep, Rel
<1>3. <<Rel(r), A, A \ Lost(r)>> \in Plain
  BY <1>1, <1>2, PlainIs
<1> QED BY <1>1, <1>3, Kinds, Single

(* Private data that is freed if it is there.                              *)
LEMMA DropRule ==
  ASSUME NEW A \in Sets, NEW r \in {"req_data", "conn_data"}
  PROVE  Traced(<<Drop(r)>>, Plain, A, A \ {r})
<1>1. Drop(r) \in Instr0 /\ A \ {r} \in Sets
  BY DEF Drop, Instr0, Ops, Sets, Resources
<1>2. PlainStep(Drop(r), A, A \ {r})
  BY DEF PlainStep, Drop
<1>3. <<Drop(r), A, A \ {r}>> \in Plain
  BY <1>1, <1>2, PlainIs
<1> QED BY <1>1, <1>3, Kinds, Single

(* Calls that only note an error.                                          *)
LEMMA DoRule ==
  ASSUME NEW A \in Sets
  PROVE  Traced(<<Do>>, Plain, A, A)
<1>1. Do \in Instr0
  BY SMT DEF Do, Instr0, Ops
<1>2. PlainStep(Do, A, A)
  BY SMT DEF PlainStep, Do
<1>3. <<Do, A, A>> \in Plain
  BY <1>1, <1>2, PlainIs
<1> QED BY <1>1, <1>3, Kinds, Single

(* The end of a deletion.                                                  *)
LEMMA ReturnRule ==
  ASSUME NEW A \in Sets
  PROVE  /\ Traced(<<ReturnErr>>, Undoing({"return"}), A, A)
         /\ EndsIn(<<ReturnErr>>, {"return"})
<1>1. ReturnErr \in Instr0 /\ ReturnErr.op = "return"
  BY SMT DEF ReturnErr, Instr0, Ops
<1>2. <<ReturnErr, A, A>> \in Undoing({"return"})
  BY <1>1, UndoingIs
<1>3. EndsIn(<<ReturnErr>>, {"return"})
  BY SMT DEF EndsIn, Last, ReturnErr
<1> QED BY <1>1, <1>2, <1>3, Kinds, Single

(* The jump of a deletion.                                                 *)
LEMMA GotoRule ==
  ASSUME NEW A \in Sets, NEW C, NEW W, NEW label, Traced(label, Undoing(W), A, C), EndsIn(label, W)
  PROVE  Traced(<<GotoIfErr(label)>>, Deleting(C, W), A, A)
<1>1. label \in Seq(Instr0)
  <2>1. \A x, D, E : <<x, D, E>> \in Undoing(W) => x \in Instr0
    BY SMT, PlainIs, UndoingIs
  <2> QED BY <2>1, MadeOf
<1>2. GotoIfErr(label) \in Instr1
  BY <1>1 DEF GotoIfErr, Instr1, Ops
<1>3. <<GotoIfErr(label), A, A>> \in Deleting(C, W)
  BY ZenonT(30), <1>2, DeletingIs DEF GotoIfErr
<1> QED BY <1>2, <1>3, Kinds, Single

(* A call that acquires r, with an undo program.                           *)
LEMMA GetRule ==
  ASSUME NEW A \in Sets, NEW r \in Resources \cup {"none"}, NEW undo, NEW F, NEW f \in F,
         Traced(undo, Plain, A, f), BuiltOn(r, A)
  PROVE  /\ Traced(<<Get(r, undo)>>, Creating(F), A, A \cup ({r} \ {"none"}))
         /\ Traced(<<Reg(r, undo)>>, Creating(F), A, A \cup ({r} \ {"none"}))
<1> DEFINE B == A \cup ({r} \ {"none"})
<1>1. undo \in Seq(Instr0)
  BY MadeOf, PlainIs
<1>2. Get(r, undo) \in Instr1 /\ Reg(r, undo) \in Instr1 /\ B \in Sets
  BY <1>1 DEF Get, Reg, Instr1, Ops, Sets
<1>3. GetStep(Get(r, undo), A, B) /\ GetStep(Reg(r, undo), A, B)
  BY DEF GetStep, Get, Reg
<1>4. <<Get(r, undo), A, B>> \in Creating(F) /\ <<Reg(r, undo), A, B>> \in Creating(F)
  BY <1>2, <1>3, CreatingIs DEF Get, Reg
<1> QED BY <1>2, <1>4, Kinds, Single

(* An undo program is a deletion that does not jump.                       *)
LEMMA PlainUndoes ==
  ASSUME NEW W, NEW p, NEW A, NEW B, Traced(p, Plain, A, B)
  PROVE  Traced(p, Undoing(W), A, B)
<1>1. Plain \subseteq Undoing(W)
  BY DEF Undoing
<1> QED BY <1>1, Wider

(* The same with a return.                                                 *)
LEMMA UndoingDeletes ==
  ASSUME NEW C, NEW W, NEW p, NEW A, NEW B, Traced(p, Undoing(W), A, B)
  PROVE  Traced(p, Deleting(C, W), A, B)
<1>1. Undoing(W) \subseteq Deleting(C, W)
  BY DEF Deleting
<1> QED BY <1>1, Wider

(* An undo program may be all that a deletion does.                        *)
LEMMA PlainDeletes ==
  ASSUME NEW C, NEW W, NEW p, NEW A, NEW B, Traced(p, Plain, A, B)
  PROVE  Traced(p, Deleting(C, W), A, B)
BY PlainUndoes, UndoingDeletes

(* A constructor is a program.                                             *)
LEMMA CreatingRuns ==
  ASSUME NEW F, NEW Q, NEW p, NEW A, NEW B, Traced(p, Creating(F), A, B)
  PROVE  Traced(p, Running(F, Q), A, B)
<1>1. ASSUME NEW s \in Creating(F) PROVE s \in Running(F, Q)
  <2>1. PICK x \in Instr1, G \in Sets, H \in Sets : s = <<x, G, H>>
    BY SMT DEF Creating
  <2>2. GetStep(x, G, H) /\ \E f \in F : Traced(x.alt, Plain, G, f)
    BY <2>1, CreatingIs
  <2>3. \E f \in F : Traced(x.alt, Deleting(f, Others), G, f)
    BY <2>2, PlainDeletes
  <2> QED BY <2>1, <2>2, <2>3, RunningIs, Kinds
<1> QED BY <1>1, Wider

(* An instruction with another alternative.                                *)
LEMMA NewAlternative ==
  ASSUME NEW O, NEW N, NEW S, NEW x \in [op : O, r : N, alt : S], NEW y \in S,
         NEW z, z = [x EXCEPT !.alt = y]
  PROVE  z.op = x.op /\ z.r = x.r /\ z.alt = y /\ z \in [op : O, r : N, alt : S]
BY SMT

(* A constructor inside a function that undoes more when it fails.         *)
LEMMA WithinRule ==
  ASSUME NEW F, NEW p, NEW A, NEW B, Traced(p, Creating(F), A, B),
         NEW undo, NEW G, \A f \in F : \E g \in G : Traced(undo, Plain, f, g)
  PROVE  Traced(Within(p, undo), Creating(G), A, B)
<1> DEFINE w == Within(p, undo)
<1>1. PICK t : /\ t[0] = A /\ t[Len(p)] = B
               /\ \A i \in 1..Len(p) : <<p[i], t[i - 1], t[i]>> \in Creating(F)
  BY DEF Traced
<1>2. p \in Seq(Instr2)
  BY DEF Traced
<1>3. Len(p) \in Nat /\ DOMAIN p = 1..Len(p)
  BY SMT, <1>2
<1>4. \A i \in 1..Len(p) : w[i] = [p[i] EXCEPT !.alt = p[i].alt \o undo]
  BY <1>3 DEF Within
<1>5. ASSUME NEW i \in 1..Len(p) PROVE w[i] \in Instr1 /\ <<w[i], t[i - 1], t[i]>> \in Creating(G)
  <2>1. /\ p[i] \in Instr1 /\ t[i - 1] \in Sets /\ t[i] \in Sets /\ GetStep(p[i], t[i - 1], t[i])
        /\ \E f \in F : Traced(p[i].alt, Plain, t[i - 1], f)
    BY <1>1, <1>5, CreatingIs
  <2>2. PICK f \in F : Traced(p[i].alt, Plain, t[i - 1], f)
    BY <2>1
  <2>3. PICK g \in G : Traced(undo, Plain, f, g)
    BY <2>2
  <2>4. Traced(p[i].alt \o undo, Plain, t[i - 1], g)
    BY <2>2, <2>3, Then
  <2>5. p[i].alt \o undo \in Seq(Instr0)
    BY <2>4, MadeOf, PlainIs
  <2>6. w[i].op = p[i].op /\ w[i].r = p[i].r /\ w[i].alt = p[i].alt \o undo /\ w[i] \in Instr1
    <3> DEFINE y == p[i].alt \o undo
    <3>1. w[i] = [p[i] EXCEPT !.alt = y] /\ y \in Seq(Instr0)
      BY <1>4, <2>5
    <3>2. p[i] \in [op : Ops, r : Resources \cup {"none"}, alt : Seq(Instr0)]
      BY <2>1 DEF Instr1
    <3> HIDE DEF w, y
    <3>3. /\ w[i].op = p[i].op /\ w[i].r = p[i].r /\ w[i].alt = y
          /\ w[i] \in [op : Ops, r : Resources \cup {"none"}, alt : Seq(Instr0)]
      BY <3>1, <3>2, NewAlternative
    <3> QED BY <3>3 DEF Instr1, y
  <2>7. GetStep(w[i], t[i - 1], t[i])
    BY <2>1, <2>6 DEF GetStep
  <2> QED BY <2>1, <2>4, <2>6, <2>7, CreatingIs
<1>6. w \in Seq(Instr2) /\ Len(w) = Len(p)
  <2>1. w = [i \in 1..Len(p) |-> w[i]] /\ \A i \in 1..Len(p) : w[i] \in Instr2
    BY <1>3, <1>5, Kinds DEF Within
  <2> HIDE DEF w
  <2> QED BY SMT, <1>3, <2>1
<1> HIDE DEF w
<1>7. Traced(w, Creating(G), A, B)
  BY <1>1, <1>5, <1>6 DEF Traced
<1> QED BY <1>7 DEF w

(* The same for a constructor that leaves everything as it was.            *)
LEMMA UndoMore ==
  ASSUME NEW A, NEW p, NEW B, Traced(p, Creating({A}), A, B),
         NEW undo, NEW G, NEW g \in G, Traced(undo, Plain, A, g)
  PROVE  Traced(Within(p, undo), Creating(G), A, B)
<1> DEFINE F == {A}
<1>1. Traced(p, Creating(F), A, B) /\ \A f \in F : \E h \in G : Traced(undo, Plain, f, h)
  OBVIOUS
<1> HIDE DEF F
<1> QED BY <1>1, WithinRule

(* Two instructions.                                                       *)
LEMMA Two ==
  ASSUME NEW R, NEW a, NEW b, NEW A, NEW B, NEW C,
         Traced(<<a>>, R, A, B), Traced(<<b>>, R, B, C)
  PROVE  Traced(<<a, b>>, R, A, C)
<1>1. a \in Instr2 /\ b \in Instr2 /\ <<a, A, B>> \in R /\ <<b, B, C>> \in R
  BY SingleIs
<1> DEFINE t == [i \in 0..2 |-> IF i = 0 THEN A ELSE IF i = 1 THEN B ELSE C]
<1>2. /\ <<a, b>> \in Seq(Instr2) /\ Len(<<a, b>>) = 2 /\ <<a, b>>[1] = a /\ <<a, b>>[2] = b
      /\ t[0] = A /\ t[1] = B /\ t[2] = C
  BY SMT, <1>1
<1> HIDE DEF t
<1>3. ASSUME NEW i \in 1..2 PROVE <<<<a, b>>[i], t[i - 1], t[i]>> \in R
  <2>1. (i = 1 /\ i - 1 = 0) \/ (i = 2 /\ i - 1 = 1)
    BY SMT, <1>3
  <2> QED BY <1>1, <1>2, <2>1
<1> QED BY <1>2, <1>3 DEF Traced

(* Three instructions.                                                     *)
LEMMA Three ==
  ASSUME NEW R, NEW a, NEW b, NEW c, NEW A, NEW B, NEW C, NEW D,
         Traced(<<a>>, R, A, B), Traced(<<b>>, R, B, C), Traced(<<c>>, R, C, D)
  PROVE  Traced(<<a, b, c>>, R, A, D)
<1>1. /\ a \in Instr2 /\ b \in Instr2 /\ c \in Instr2
      /\ <<a, A, B>> \in R /\ <<b, B, C>> \in R /\ <<c, C, D>> \in R
  BY SingleIs
<1> DEFINE t == [i \in 0..3 |-> IF i = 0 THEN A ELSE IF i = 1 THEN B ELSE IF i = 2 THEN C ELSE D]
<1>2. /\ <<a, b, c>> \in Seq(Instr2) /\ Len(<<a, b, c>>) = 3
      /\ <<a, b, c>>[1] = a /\ <<a, b, c>>[2] = b /\ <<a, b, c>>[3] = c
      /\ t[0] = A /\ t[1] = B /\ t[2] = C /\ t[3] = D
  BY SMT, <1>1
<1> HIDE DEF t
<1>3. ASSUME NEW i \in 1..3 PROVE <<<<a, b, c>>[i], t[i - 1], t[i]>> \in R
  <2>1. (i = 1 /\ i - 1 = 0) \/ (i = 2 /\ i - 1 = 1) \/ (i = 3 /\ i - 1 = 2)
    BY SMT, <1>3
  <2> QED BY <1>1, <1>2, <2>1
<1> QED BY <1>2, <1>3 DEF Traced

(* Anything but a CM ID goes alone.                                        *)
LEMMA ReleaseRule ==
  ASSUME NEW A \in Sets, NEW r \in A \ {"id"}, Users(r) \cap A = {}, NEW B, B = A \ {r}
  PROVE  Traced(<<Rel(r)>>, Plain, A, B)
<1>1. Lost(r) = {r}
  BY DEF Lost
<1> QED BY <1>1, RelRule

(* With a CM ID goes its tie to an event channel.                          *)
LEMMA DestroyIdRule ==
  ASSUME NEW A \in Sets, "id" \in A, "qp" \notin A, NEW B, B = A \ {"id", "on_evch"}
  PROVE  Traced(<<Rel("id")>>, Plain, A, B)
<1>1. Lost("id") = {"id", "on_evch"} /\ Users("id") \cap A = {}
  BY DEF Lost, Users
<1> QED BY <1>1, RelRule

(* What something is built on.                                             *)
Bases == {"pd", "id", "cq", "rcq", "channel", "cq_channel", "rcq_channel", "raw", "ep_evch", "evch"}

(* What is built on nothing can go at any time.                            *)
LEMMA FreeRule ==
  ASSUME NEW A \in Sets, NEW r \in A \ Bases, NEW B, B = A \ {r}
  PROVE  Traced(<<Rel(r)>>, Plain, A, B)
<1>1. Users(r) = {} /\ r # "id"
  BY DEF Users, Bases
<1> QED BY <1>1, ReleaseRule

(* What is built on something.                                             *)
Dependents == {"id", "on_evch", "qp", "cq", "rcq", "mr", "raw_mr", "ep_id"}

(* Calls that acquire what is built on something that is there.            *)
LEMMA AcquireRule ==
  ASSUME NEW A \in Sets, NEW undo, NEW F, NEW f \in F, Traced(undo, Plain, A, f),
         NEW r \in Resources, BuiltOn(r, A), NEW B, B = A \cup {r}
  PROVE  Traced(<<Get(r, undo)>>, Creating(F), A, B) /\ Traced(<<Reg(r, undo)>>, Creating(F), A, B)
<1>1. {r} \ {"none"} = {r}
  BY DEF Resources
<1> QED BY <1>1, GetRule

(* Calls that acquire what is built on nothing.                            *)
LEMMA MallocRule ==
  ASSUME NEW A \in Sets, NEW undo, NEW F, NEW f \in F, Traced(undo, Plain, A, f),
         NEW r \in Resources \ Dependents, NEW B, B = A \cup {r}
  PROVE  Traced(<<Get(r, undo)>>, Creating(F), A, B)
<1>1. BuiltOn(r, A)
  BY DEF BuiltOn, Uses, Dependents
<1> QED BY <1>1, AcquireRule

(* Calls that only must succeed.                                           *)
LEMMA CallRule ==
  ASSUME NEW A \in Sets, NEW undo, NEW F, NEW f \in F, Traced(undo, Plain, A, f)
  PROVE  Traced(<<Get("none", undo)>>, Creating(F), A, A)
<1>1. BuiltOn("none", A) /\ "none" \in Resources \cup {"none"}
  BY DEF BuiltOn, Uses
<1>2. Traced(<<Get("none", undo)>>, Creating(F), A, A \cup ({"none"} \ {"none"}))
  BY <1>1, GetRule
<1>3. A \cup ({"none"} \ {"none"}) = A
  OBVIOUS
<1> QED BY <1>2, <1>3

-----------------------------------------------------------------------------
(* The functions of librpma.  A constructor leaves what was there as it    *)
(* was when it fails, whichever call failed.                               *)

(* rpma_info_delete()                                                      *)
LEMMA InfoDeleteTrace ==
  ASSUME NEW A \in Sets, {"rai", "info"} \subseteq A, NEW B, B = A \ {"rai", "info"}
  PROVE  Traced(InfoDelete, Plain, A, B)
<1>1. Traced(<<Rel("rai")>>, Plain, A, A \ {"rai"})
  BY FreeRule DEF Bases
<1>2. Traced(<<Rel("info")>>, Plain, A \ {"rai"}, B)
  BY FreeRule DEF Bases, Sets
<1> QED BY <1>1, <1>2, Two DEF InfoDelete

(* rpma_info_new()                                                         *)
LEMMA InfoNewTrace ==
  ASSUME NEW A \in Sets, {"rai", "info"} \cap A = {}, NEW B, B = A \cup {"rai", "info"}
  PROVE  Traced(InfoNew, Creating({A}), A, B)
<1>0. A \cup {"rai"} \in Sets
  BY DEF Sets, Resources
<1>1. Traced(<<Get("rai", <<>>)>>, Creating({A}), A, A \cup {"rai"})
  BY Nothing, MallocRule DEF Resources, Dependents
<1>2. Traced(<<Rel("rai")>>, Plain, A \cup {"rai"}, A)
  BY <1>0, FreeRule DEF Bases
<1>3. Traced(<<Get("info", <<Rel("rai")>>)>>, Creating({A}), A \cup {"rai"}, B)
  BY <1>0, <1>2, MallocRule DEF Resources, Dependents
<1> QED BY <1>1, <1>3, Two DEF InfoNew

(* What is released on the way to success.                                 *)
LEMMA PlainRuns ==
  ASSUME NEW F, NEW Q, NEW p, NEW A, NEW B, Traced(p, Plain, A, B),
         \A i \in 1..Len(p) : p[i].op = "rel" => p[i].r \in Q
  PROVE  Traced(p, Running(F, Q), A, B)
<1>1. PICK t : /\ t[0] = A /\ t[Len(p)] = B
               /\ \A i \in 1..Len(p) : <<p[i], t[i - 1], t[i]>> \in Plain
  BY DEF Traced
<1>2. \A i \in 1..Len(p) : <<p[i], t[i - 1], t[i]>> \in Running(F, Q)
  BY <1>1, RunningIs
<1> QED BY <1>1, <1>2 DEF Traced

(* An undo program releases resources.                                     *)
LEMMA PlainReleases ==
  ASSUME NEW p, NEW A, NEW B, Traced(p, Plain, A, B)
  PROVE  \A i \in 1..Len(p) : p[i].op = "rel" => p[i].r \in Resources
<1>1. \A x, C, D : <<x, C, D>> \in Plain => (x.op = "rel" => x.r \in Resources)
  BY SMT, PlainIs DEF PlainStep, Sets
<1> QED BY <1>1 DEF Traced

(* rpma_utils_get_ibv_context()                                            *)
LEMMA GetContextTrace ==
  ASSUME NEW A \in Sets, {"rai", "info", "temp_id"} \cap A = {}
  PROVE  Traced(GetContext, Running({A}, Resources), A, A)
<1> DEFINE X == A \cup {"rai", "info"}
           Y == A \cup {"rai", "info", "temp_id"}
           err_destroy_id == <<Rel("temp_id")>> \o InfoDelete
<1>1. X \in Sets /\ Y \in Sets
  BY DEF Sets, Resources
<1>2. Traced(InfoDelete, Plain, X, A)
  BY <1>1, InfoDeleteTrace
<1>3. Traced(<<Rel("temp_id")>>, Plain, Y, X)
  BY <1>1, FreeRule DEF Bases
<1>4. Traced(err_destroy_id, Plain, Y, A)
  BY <1>2, <1>3, Then
<1>5. Traced(InfoNew, Creating({A}), A, X)
  BY InfoNewTrace
<1>6. Traced(<<Get("temp_id", InfoDelete)>>, Creating({A}), X, Y)
  BY <1>1, <1>2, MallocRule DEF Resources, Dependents
<1>7. Traced(<<Get("none", err_destroy_id)>>, Creating({A}), Y, Y)
  BY <1>1, <1>4, CallRule
<1>8. Traced(err_destroy_id, Running({A}, Resources), Y, A)
  <2> HIDE DEF err_destroy_id
  <2> QED BY <1>4, PlainReleases, PlainRuns
<1>9. GetContext = InfoNew \o <<Get("temp_id", InfoDelete)>> \o <<Get("none", err_destroy_id)>> \o err_destroy_id
  BY DEF GetContext, BindAddr, ResolveAddr
<1> HIDE DEF X, Y, err_destroy_id
<1>10. /\ Traced(InfoNew, Running({A}, Resources), A, X)
       /\ Traced(<<Get("temp_id", InfoDelete)>>, Running({A}, Resources), X, Y)
       /\ Traced(<<Get("none", err_destroy_id)>>, Running({A}, Resources), Y, Y)
  BY <1>5, <1>6, <1>7, CreatingRuns
<1> QED BY <1>8, <1>9, <1>10, Then

(* rpma_peer_new()                                                         *)
LEMMA PeerNewTrace ==
  ASSUME NEW A \in Sets, {"pd", "peer", "qp", "mr", "raw_mr"} \cap A = {}
  PROVE  Traced(PeerNew, Creating({A}), A, A \cup {"pd", "peer"})
<1> DEFINE X == A \cup {"pd"}
<1>1. X \in Sets
  BY DEF Sets, Resources
<1>2. Traced(<<IsOdpCapable>>, Creating({A}), A, A)
  BY Nothing, CallRule DEF IsOdpCapable
<1>3. Traced(<<Get("pd", <<>>)>>, Creating({A}), A, X)
  BY Nothing, MallocRule DEF Resources, Dependents
<1>4. Traced(<<Rel("pd")>>, Plain, X, A)
  BY <1>1, ReleaseRule DEF Users
<1>5. Traced(<<Get("peer", <<Rel("pd")>>)>>, Creating({A}), X, A \cup {"pd", "peer"})
  BY <1>1, <1>4, MallocRule DEF Resources, Dependents
<1> QED BY <1>2, <1>3, <1>5, Three DEF PeerNew

(* rpma_peer_delete()                                                      *)
LEMMA PeerDeleteTrace ==
  ASSUME NEW A \in Sets, {"pd", "peer"} \subseteq A, {"qp", "mr", "raw_mr"} \cap A = {}
  PROVE  Traced(PeerDelete, Plain, A, A \ {"pd", "peer"})
<1>1. Traced(<<Rel("pd")>>, Plain, A, A \ {"pd"})
  BY ReleaseRule DEF Users
<1>2. Traced(<<Rel("peer")>>, Plain, A \ {"pd"}, A \ {"pd", "peer"})
  BY FreeRule DEF Bases, Sets
<1> QED BY <1>1, <1>2, Two DEF PeerDelete

(* rpma_mr_reg()                                                           *)
LEMMA MrRegTrace ==
  ASSUME NEW r \in {"mr", "raw_mr"}, NEW A \in Sets, {r, MrObj(r)} \cap A = {},
         "pd" \in A, r = "raw_mr" => "raw" \in A, NEW B, B = A \cup {r, MrObj(r)}
  PROVE  Traced(MrReg(r), Creating({A}), A, B)
<1> DEFINE o == MrObj(r)
           X == A \cup {o}
<1>1. X \in Sets /\ r \in Resources /\ o \in Resources \ Dependents /\ o \notin Bases /\ o # r
  BY DEF Sets, Resources, Dependents, Bases, MrObj
<1>2. Traced(<<Get(o, <<>>)>>, Creating({A}), A, X)
  BY <1>1, Nothing, MallocRule
<1>3. Traced(<<Rel(o)>>, Plain, X, A)
  BY <1>1, FreeRule
<1>4. BuiltOn(r, X)
  BY DEF BuiltOn, Uses
<1>5. Traced(<<Reg(r, <<Rel(o)>>)>>, Creating({A}), X, B)
  BY <1>1, <1>3, <1>4, AcquireRule
<1> QED BY <1>2, <1>5, Two DEF MrReg

(* rpma_mr_dereg()                                                         *)
LEMMA MrDeregTrace ==
  ASSUME NEW r \in {"mr", "raw_mr"}, NEW A \in Sets, {r, MrObj(r)} \subseteq A,
         NEW B, B = A \ {r, MrObj(r)}
  PROVE  Traced(MrDereg(r), Plain, A, B)
<1> DEFINE o == MrObj(r)
<1>1. r \notin Bases /\ o \notin Bases /\ o # r
  BY DEF Bases, MrObj
<1>2. Traced(<<Rel(r)>>, Plain, A, A \ {r})
  BY <1>1, FreeRule
<1>3. Traced(<<Rel(o)>>, Plain, A \ {r}, B)
  BY <1>1, FreeRule DEF Sets
<1> QED BY <1>2, <1>3, Two DEF MrDereg

(* rpma_ep_shutdown()                                                      *)
LEMMA EpShutdownTrace ==
  ASSUME NEW A \in Sets, {"ep_evch", "ep_id", "ep"} \subseteq A
  PROVE  Traced(EpShutdown, Plain, A, A \ {"ep_evch", "ep_id", "ep"})
<1>1. Traced(<<Rel("ep_id")>>, Plain, A, A \ {"ep_id"})
  BY FreeRule DEF Bases
<1>2. Traced(<<Rel("ep_evch")>>, Plain, A \ {"ep_id"}, A \ {"ep_id", "ep_evch"})
  BY ReleaseRule DEF Users, Sets
<1>3. Traced(<<Rel("ep")>>, Plain, A \ {"ep_id", "ep_evch"}, A \ {"ep_evch", "ep_id", "ep"})
  BY FreeRule DEF Bases, Sets
<1> QED BY <1>1, <1>2, <1>3, Three DEF EpShutdown

(* Resources that a function may release on the way to success: their      *)
(* release cannot fail.                                                    *)
Quiet == Resources \ Fallible

(* rpma_info_delete() on the way to success                                *)
LEMMA InfoDeleteRuns ==
  ASSUME NEW F, NEW A \in Sets, {"rai", "info"} \subseteq A, NEW B, B = A \ {"rai", "info"}
  PROVE  Traced(InfoDelete, Running(F, Quiet), A, B)
<1>1. Traced(InfoDelete, Plain, A, B)
  BY InfoDeleteTrace
<1>2. \A i \in 1..Len(InfoDelete) : InfoDelete[i].r \in {"rai", "info"}
  BY SMT DEF InfoDelete, Rel
<1>3. {"rai", "info"} \subseteq Quiet
  BY DEF Quiet, Resources, Fallible
<1> QED BY <1>1, <1>2, <1>3, PlainRuns

(* rpma_ep_listen()                                                        *)
LEMMA EpListenTrace ==
  ASSUME NEW A \in Sets, {"ep_evch", "ep_id", "ep", "rai", "info"} \cap A = {}
  PROVE  Traced(EpListen, Running({A}, Quiet), A, A \cup {"ep_evch", "ep_id", "ep"})
<1> DEFINE X == A \cup {"ep_evch"}
           Y == A \cup {"ep_evch", "ep_id"}
           Z == A \cup {"ep_evch", "ep_id", "rai", "info"}
           V == A \cup {"ep_evch", "ep_id", "rai", "info", "ep"}
           err_destroy_event_channel == <<Rel("ep_evch")>>
           err_destroy_id == <<Rel("ep_id")>> \o err_destroy_event_channel
           err_info_delete == InfoDelete \o err_destroy_id
<1>1. X \in Sets /\ Y \in Sets /\ Z \in Sets /\ V \in Sets
  BY DEF Sets, Resources
<1>2. Traced(err_destroy_event_channel, Plain, X, A)
  BY <1>1, ReleaseRule DEF Users
<1>3. Traced(<<Rel("ep_id")>>, Plain, Y, X)
  BY <1>1, FreeRule DEF Bases
<1>4. Traced(err_destroy_id, Plain, Y, A)
  BY <1>2, <1>3, Then
<1>5. Traced(InfoDelete, Plain, Z, Y)
  BY <1>1, InfoDeleteTrace
<1>6. Traced(err_info_delete, Plain, Z, A)
  BY <1>4, <1>5, Then
<1>7. Traced(<<Get("ep_evch", <<>>)>>, Creating({A}), A, X)
  BY Nothing, MallocRule DEF Resources, Dependents
<1>8. Traced(<<Get("ep_id", err_destroy_event_channel)>>, Creating({A}), X, Y)
  <2>1. BuiltOn("ep_id", X) /\ "ep_id" \in Resources
    BY DEF BuiltOn, Uses, Resources
  <2> QED BY <1>1, <1>2, <2>1, AcquireRule
<1>9. Traced(InfoNew, Creating({Y}), Y, Z)
  BY <1>1, InfoNewTrace
<1>10. Traced(Within(InfoNew, err_destroy_id), Creating({A}), Y, Z)
  <2> HIDE DEF err_destroy_id, Y, Z
  <2> QED BY <1>4, <1>9, UndoMore
<1>11. Traced(<<Get("none", err_info_delete)>>, Creating({A}), Z, Z)
  <2> HIDE DEF err_info_delete, Z
  <2> QED BY <1>1, <1>6, CallRule
<1>12. Traced(<<Get("ep", err_info_delete)>>, Creating({A}), Z, V)
  <2> HIDE DEF err_info_delete
  <2> QED BY <1>1, <1>6, MallocRule DEF Resources, Dependents
<1>13. Traced(InfoDelete, Running({A}, Quiet), V, A \cup {"ep_evch", "ep_id", "ep"})
  BY <1>1, InfoDeleteRuns
<1> DEFINE first == <<Get("ep_evch", <<>>), Get("ep_id", err_destroy_event_channel)>>
           third == <<Get("none", err_info_delete), Get("none", err_info_delete), Get("ep", err_info_delete)>>
<1>14. EpListen = first \o Within(InfoNew, err_destroy_id) \o third \o InfoDelete
  BY DEF EpListen, BindAddr
<1>15. Traced(first, Creating({A}), A, Y) /\ Traced(third, Creating({A}), Z, V)
  BY <1>7, <1>8, <1>11, <1>12, Two, Three
<1> HIDE DEF X, Y, Z, V, first, third, err_destroy_id
<1>16. /\ Traced(first, Running({A}, Quiet), A, Y) /\ Traced(third, Running({A}, Quiet), Z, V)
       /\ Traced(Within(InfoNew, err_destroy_id), Running({A}, Quiet), Y, Z)
  BY <1>10, <1>15, CreatingRuns
<1> QED BY <1>13, <1>14, <1>16, Then

(* What rpma_cq_new() makes, and the shared completion channel.            *)
Side(q) ==
    IF q = "cq" \/ hasRcq
    THEN {q, CqObj(q)} \cup (IF shared THEN {} ELSE {OwnChannel(q)})
    ELSE {}
Chan == IF shared THEN {"channel"} ELSE {}
AnyCq == {"channel", "cq", "cq_obj", "cq_channel", "rcq", "rcq_obj", "rcq_channel"}

(* The CQs and the channels have nothing in common.                        *)
LEMMA SideFacts ==
  /\ Side("cq") \subseteq {"cq", "cq_obj", "cq_channel"}
  /\ Side("rcq") \subseteq {"rcq", "rcq_obj", "rcq_channel"}
  /\ Chan \subseteq {"channel"} /\ (shared => "channel" \in Chan)
  /\ "cq" \in Side("cq") /\ (hasRcq => "rcq" \in Side("rcq"))
BY DEF Side, Chan, CqObj, OwnChannel

(* rpma_cq_new()                                                           *)
LEMMA CqNewTrace ==
  ASSUME NEW q \in {"cq", "rcq"}, q = "cq" \/ hasRcq, NEW A \in Sets, Side(q) \cap A = {},
         "qp" \notin A, shared => "channel" \in A, NEW B, B = A \cup Side(q)
  PROVE  Traced(CqNew(q), Creating({A}), A, B)
<1> DEFINE ch == OwnChannel(q)
           o == CqObj(q)
           X == A \cup (IF shared THEN {} ELSE {ch})
           Y == X \cup {q}
           err_destroy_comp_channel == If(~shared, <<Rel(ch)>>)
           err_destroy_cq == <<Rel(q)>> \o err_destroy_comp_channel
<1>1. /\ ch \in Resources \ Dependents /\ o \in Resources \ Dependents /\ q \in Resources
      /\ ch # q /\ ch # o /\ q # o /\ ch # "id" /\ q # "id" /\ Users(ch) = {q} /\ Users(q) = {"qp"}
      /\ ch # "qp" /\ q # "qp" /\ ch # "channel"
  BY DEF OwnChannel, CqObj, Resources, Dependents, Users
<1>2. X \in Sets /\ Y \in Sets
  BY <1>1 DEF Sets
<1>3. q \notin X /\ (~shared => ch \notin A)
  BY <1>1 DEF Side
<1>4. Traced(err_destroy_comp_channel, Plain, X, A)
  <2>1. CASE shared
    <3>1. err_destroy_comp_channel = <<>> /\ X = A
      BY <2>1 DEF If
    <3> QED BY <3>1, Nothing
  <2>2. CASE ~shared
    <3>1. err_destroy_comp_channel = <<Rel(ch)>> /\ X = A \cup {ch}
      BY <2>2 DEF If
    <3>2. ch \in X \ {"id"} /\ Users(ch) \cap X = {} /\ A = X \ {ch}
      BY <1>1, <1>3, <2>2, <3>1
    <3> HIDE DEF X, ch
    <3>3. Traced(<<Rel(ch)>>, Plain, X, A)
      BY <1>2, <3>2, ReleaseRule
    <3> QED BY <3>1, <3>3
  <2> QED BY <2>1, <2>2
<1>5. Traced(<<Rel(q)>>, Plain, Y, X)
  <2>1. q \in Y \ {"id"} /\ Users(q) \cap Y = {} /\ X = Y \ {q}
    BY <1>1, <1>3
  <2> HIDE DEF X, Y
  <2> QED BY <1>2, <2>1, ReleaseRule
<1>6. Traced(err_destroy_cq, Plain, Y, A)
  BY <1>4, <1>5, Then
<1>7. Traced(If(~shared, <<Get(ch, <<>>)>>), Creating({A}), A, X)
  <2>1. CASE shared
    <3>1. If(~shared, <<Get(ch, <<>>)>>) = <<>> /\ X = A
      BY <2>1 DEF If
    <3> QED BY <3>1, Nothing
  <2>2. CASE ~shared
    <3>1. If(~shared, <<Get(ch, <<>>)>>) = <<Get(ch, <<>>)>> /\ X = A \cup {ch}
      BY <2>2 DEF If
    <3> HIDE DEF X, ch
    <3>2. Traced(<<Get(ch, <<>>)>>, Creating({A}), A, X)
      BY <1>1, <3>1, Nothing, MallocRule
    <3> QED BY <3>1, <3>2
  <2> QED BY <2>1, <2>2
<1>8. BuiltOn(q, X)
  BY DEF BuiltOn, Uses
<1>9. B = Y \cup {o}
  BY DEF Side
<1> HIDE DEF X, err_destroy_comp_channel, err_destroy_cq
<1>10. Traced(<<Get(q, err_destroy_comp_channel)>>, Creating({A}), X, Y)
  BY <1>1, <1>2, <1>4, <1>8, AcquireRule
<1> HIDE DEF Y, o
<1>11. Traced(<<Get("none", err_destroy_cq)>>, Creating({A}), Y, Y)
  BY <1>2, <1>6, CallRule
<1>12. Traced(<<Get(o, err_destroy_cq)>>, Creating({A}), Y, B)
  BY <1>1, <1>2, <1>6, <1>9, MallocRule
<1>13. Traced(<<Get(q, err_destroy_comp_channel), Get("none", err_destroy_cq), Get(o, err_destroy_cq)>>,
              Creating({A}), X, B)
  BY <1>10, <1>11, <1>12, Three
<1> QED BY <1>7, <1>13, Then DEF CqNew, err_destroy_comp_channel, err_destroy_cq, o

(* rpma_cq_delete()                                                        *)
LEMMA CqDeleteTrace ==
  ASSUME NEW q \in {"cq", "rcq"}, NEW A \in Sets, Side(q) \subseteq A, "qp" \notin A,
         NEW B, B = A \ Side(q)
  PROVE  Traced(CqDelete(q), Plain, A, B)
<1> DEFINE ch == OwnChannel(q)
           o == CqObj(q)
           X == A \ {q}
           Y == IF shared THEN X ELSE X \ {ch}
<1>1. /\ ch # q /\ ch # o /\ q # o /\ ch # "id" /\ q # "id" /\ Users(ch) = {q} /\ Users(q) = {"qp"}
      /\ o \notin Bases
  BY DEF OwnChannel, CqObj, Users, Bases
<1>2. X \in Sets /\ Y \in Sets
  BY DEF Sets
<1>3. CASE q = "cq" \/ hasRcq
  <2>1. q \in A /\ o \in A /\ (~shared => ch \in A)
    BY <1>3 DEF Side
  <2>2. B = Y \ {o} /\ o \in Y
    BY <1>1, <1>3, <2>1 DEF Side
  <2>3. Traced(<<Rel(q)>>, Plain, A, X)
    <3>1. q \in A \ {"id"} /\ Users(q) \cap A = {}
      BY <1>1, <2>1
    <3> QED BY <3>1, ReleaseRule
  <2>4. Traced(If(~shared, <<Rel(ch)>>), Plain, X, Y)
    <3>1. CASE shared
      <4>1. If(~shared, <<Rel(ch)>>) = <<>> /\ X = Y
        BY <3>1 DEF If
      <4> QED BY <4>1, Nothing
    <3>2. CASE ~shared
      <4>1. If(~shared, <<Rel(ch)>>) = <<Rel(ch)>> /\ Y = X \ {ch}
        BY <3>2 DEF If
      <4>2. ch \in X \ {"id"} /\ Users(ch) \cap X = {}
        BY <1>1, <2>1, <3>2
      <4> HIDE DEF X, Y, ch
      <4>3. Traced(<<Rel(ch)>>, Plain, X, Y)
        BY <1>2, <4>1, <4>2, ReleaseRule
      <4> QED BY <4>1, <4>3
    <3> QED BY <3>1, <3>2
  <2> HIDE DEF X, Y
  <2>5. Traced(<<Rel(o)>>, Plain, Y, B)
    <3> HIDE DEF o
    <3> QED BY <1>1, <1>2, <2>2, FreeRule
  <2>6. CqDelete(q) = <<Rel(q)>> \o If(~shared, <<Rel(ch)>>) \o <<Rel(o)>>
    BY <1>3 DEF CqDelete, If
  <2>7. Traced(<<Rel(q)>> \o If(~shared, <<Rel(ch)>>), Plain, A, Y)
    BY <2>3, <2>4, Then
  <2> HIDE DEF ch, o
  <2>8. Traced(<<Rel(q)>> \o If(~shared, <<Rel(ch)>>) \o <<Rel(o)>>, Plain, A, B)
    BY <2>5, <2>7, Then
  <2> QED BY <2>6, <2>8
<1>4. CASE ~(q = "cq" \/ hasRcq)
  <2>1. CqDelete(q) = <<>> /\ B = A
    BY <1>4 DEF CqDelete, If, Side
  <2> QED BY <2>1, Nothing
<1> QED BY <1>3, <1>4

(* ibv_destroy_comp_channel() of a shared channel                          *)
LEMMA DestroyChannelTrace ==
  ASSUME NEW A \in Sets, Chan \subseteq A, {"cq", "rcq"} \cap A = {}, NEW B, B = A \ Chan
  PROVE  Traced(DestroyChannel, Plain, A, B)
<1>1. CASE shared
  <2>1. DestroyChannel = <<Rel("channel")>> /\ "channel" \in A \ {"id"} /\ B = A \ {"channel"}
    BY <1>1 DEF DestroyChannel, If, Chan
  <2>2. Users("channel") \cap A = {}
    BY DEF Users
  <2> QED BY <2>1, <2>2, ReleaseRule
<1>2. CASE ~shared
  <2>1. DestroyChannel = <<>> /\ B = A
    BY <1>2 DEF DestroyChannel, If, Chan
  <2> QED BY <2>1, Nothing
<1> QED BY <1>1, <1>2

(* rpma_conn_req_from_id()                                                 *)
LEMMA FromIdTrace ==
  ASSUME NEW A \in Sets, {"pd", "id"} \subseteq A, (AnyCq \cup {"qp", "req"}) \cap A = {},
         NEW B, B = A \cup {"qp", "req"} \cup Chan \cup Side("cq") \cup Side("rcq")
  PROVE  Traced(FromId, Creating({A}), A, B)
<1> DEFINE C1 == A \cup Chan
           C2 == C1 \cup Side("cq")
           C3 == C2 \cup Side("rcq")
           C4 == C3 \cup {"qp"}
           err_comp_channel_destroy == DestroyChannel
           err_rpma_cq_delete == CqDelete("cq") \o err_comp_channel_destroy
           err_rpma_rcq_delete == CqDelete("rcq") \o err_rpma_cq_delete
           err_destroy_qp == <<Rel("qp")>> \o err_rpma_rcq_delete
<1>1. C1 \in Sets /\ C2 \in Sets /\ C3 \in Sets /\ C4 \in Sets
  BY ZenonT(30), SideFacts DEF Sets, Resources
<1>2. C1 \ Chan = A /\ C2 \ Side("cq") = C1 /\ C3 \ Side("rcq") = C2 /\ C4 \ {"qp"} = C3
  BY SideFacts DEF AnyCq
<1>3. {"cq", "rcq"} \cap C1 = {} /\ "qp" \notin C1 /\ "qp" \notin C2 /\ "qp" \notin C3
  BY SideFacts DEF AnyCq
<1>4. Side("cq") \cap C1 = {} /\ Side("rcq") \cap C2 = {} /\ (shared => "channel" \in C1 /\ "channel" \in C2)
  BY SideFacts DEF AnyCq
<1>5. B = C4 \cup {"req"} /\ {"pd", "id", "cq"} \subseteq C3 /\ (hasRcq => "rcq" \in C3)
  BY SideFacts
<1>6. Traced(err_comp_channel_destroy, Plain, C1, A)
  <2> HIDE DEF C2, C3, C4
  <2> QED BY <1>1, <1>2, <1>3, DestroyChannelTrace
<1>7. Chan \subseteq C1 /\ Side("cq") \subseteq C2 /\ Side("rcq") \subseteq C3 /\ C2 = C1 \cup Side("cq")
      /\ C3 = C2 \cup Side("rcq") /\ C4 = C3 \cup {"qp"}
  OBVIOUS
<1>8. Traced(If(shared, <<Get("channel", <<>>)>>), Creating({A}), A, C1)
  <2>1. CASE shared
    <3>1. If(shared, <<Get("channel", <<>>)>>) = <<Get("channel", <<>>)>> /\ C1 = A \cup {"channel"}
      BY <2>1 DEF If, Chan
    <3>2. "channel" \in Resources \ Dependents
      BY DEF Resources, Dependents
    <3> HIDE DEF C1
    <3>3. Traced(<<>>, Plain, A, A) /\ A \in {A}
      BY Nothing
    <3>4. Traced(<<Get("channel", <<>>)>>, Creating({A}), A, C1)
      BY <3>1, <3>2, <3>3, MallocRule
    <3> QED BY <3>1, <3>4
  <2>2. CASE ~shared
    <3>1. If(shared, <<Get("channel", <<>>)>>) = <<>> /\ C1 = A
      BY <2>2 DEF If, Chan
    <3> QED BY <3>1, Nothing
  <2> QED BY <2>1, <2>2
<1> HIDE DEF C1, C2, C3, C4
<1>9. Traced(CqDelete("cq"), Plain, C2, C1) /\ Traced(CqDelete("rcq"), Plain, C3, C2)
  BY <1>1, <1>2, <1>3, <1>7, CqDeleteTrace
<1>10. Traced(err_rpma_cq_delete, Plain, C2, A)
  BY <1>6, <1>9, Then
<1>11. Traced(err_rpma_rcq_delete, Plain, C3, A)
  BY <1>9, <1>10, Then
<1>12. Traced(<<Rel("qp")>>, Plain, C4, C3)
  <2>1. "qp" \in C4 \ Bases /\ C3 = C4 \ {"qp"}
    BY <1>2, <1>7 DEF Bases
  <2> QED BY <1>1, <2>1, FreeRule
<1>13. Traced(err_destroy_qp, Plain, C4, A)
  BY <1>11, <1>12, Then
<1>14. Traced(CqNew("cq"), Creating({C1}), C1, C2)
  BY <1>1, <1>3, <1>4, <1>7, CqNewTrace
<1> HIDE DEF err_comp_channel_destroy, err_rpma_cq_delete, err_rpma_rcq_delete, err_destroy_qp
<1>15. Traced(Within(CqNew("cq"), err_comp_channel_destroy), Creating({A}), C1, C2)
  BY <1>6, <1>14, UndoMore
<1>16. Traced(If(hasRcq, Within(CqNew("rcq"), err_rpma_cq_delete)), Creating({A}), C2, C3)
  <2>1. CASE hasRcq
    <3>1. Traced(CqNew("rcq"), Creating({C2}), C2, C3)
      BY <1>1, <1>3, <1>4, <1>7, <2>1, CqNewTrace
    <3>2. Traced(Within(CqNew("rcq"), err_rpma_cq_delete), Creating({A}), C2, C3)
      BY <1>10, <3>1, UndoMore
    <3> QED BY <2>1, <3>2 DEF If
  <2>2. CASE ~hasRcq
    <3>1. If(hasRcq, Within(CqNew("rcq"), err_rpma_cq_delete)) = <<>> /\ C2 = C3
      BY <1>7, <2>2 DEF If, Side
    <3> QED BY <3>1, Nothing
  <2> QED BY <2>1, <2>2
<1>17. Traced(<<Get("qp", err_rpma_rcq_delete)>>, Creating({A}), C3, C4)
  <2>1. BuiltOn("qp", C3) /\ "qp" \in Resources
    BY <1>5 DEF BuiltOn, Uses, Resources
  <2> QED BY <1>1, <1>7, <1>11, <2>1, AcquireRule
<1>18. Traced(<<Get("req", err_destroy_qp)>>, Creating({A}), C4, B)
  BY <1>1, <1>5, <1>13, MallocRule DEF Resources, Dependents
<1>19. Traced(<<Get("qp", err_rpma_rcq_delete), Get("req", err_destroy_qp)>>, Creating({A}), C3, B)
  BY <1>17, <1>18, Two
<1>20. FromId = If(shared, <<Get("channel", <<>>)>>) \o Within(CqNew("cq"), err_comp_channel_destroy)
                \o If(hasRcq, Within(CqNew("rcq"), err_rpma_cq_delete))
                \o <<Get("qp", err_rpma_rcq_delete), Get("req", err_destroy_qp)>>
  BY DEF FromId, CreateQp, err_comp_channel_destroy, err_rpma_cq_delete, err_rpma_rcq_delete, err_destroy_qp
<1> QED BY <1>8, <1>15, <1>16, <1>19, <1>20, Then

(* What a request consists of besides its CM ID.                           *)
QpAndCqs == {"qp"} \cup Side("cq") \cup Side("rcq")

(* The QP and the CQs of a request go, the QP first.                       *)
LEMMA QpAndCqsTrace ==
  ASSUME NEW A \in Sets, QpAndCqs \subseteq A, NEW B, B = A \ QpAndCqs
  PROVE  Traced(<<Rel("qp")>> \o CqDelete("rcq") \o CqDelete("cq"), Plain, A, B)
<1> DEFINE X == A \ {"qp"}
           Y == X \ Side("rcq")
<1>1. X \in Sets /\ Y \in Sets /\ "qp" \notin X /\ "qp" \notin Y
  BY DEF Sets
<1>2. Side("rcq") \subseteq X /\ Side("cq") \subseteq Y /\ B = Y \ Side("cq")
  BY SideFacts DEF QpAndCqs
<1>3. Traced(<<Rel("qp")>>, Plain, A, X)
  BY FreeRule DEF Bases, QpAndCqs
<1>4. Traced(CqDelete("rcq"), Plain, X, Y)
  <2> HIDE DEF X
  <2> QED BY <1>1, <1>2, CqDeleteTrace
<1>5. Traced(CqDelete("cq"), Plain, Y, B)
  <2> HIDE DEF X, Y
  <2> QED BY <1>1, <1>2, CqDeleteTrace
<1> HIDE DEF X, Y
<1>6. Traced(<<Rel("qp")>> \o CqDelete("rcq"), Plain, A, Y)
  BY <1>3, <1>4, Then
<1> QED BY <1>5, <1>6, Then

(* rpma_conn_req_delete(): the CM ID of a passive request stays.           *)
LEMMA ReqDeleteTrace ==
  ASSUME NEW passive \in BOOLEAN, NEW A \in Sets, QpAndCqs \cup Chan \cup {"id", "req"} \subseteq A,
         "rcq" \in A => hasRcq,
         NEW B, B = A \ (QpAndCqs \cup Chan \cup {"req_data", "req"}
                         \cup IF passive THEN {} ELSE {"id", "on_evch"})
  PROVE  Traced(ReqDelete(passive), Plain, A, B)
<1> DEFINE X == A \ QpAndCqs
           Y == X \ (IF passive THEN {} ELSE {"id", "on_evch"})
           Z == Y \ Chan
           V == Z \ {"req_data"}
           x == IF passive THEN Do ELSE Rel("id")
           qps == <<Rel("qp")>> \o CqDelete("rcq") \o CqDelete("cq")
<1>1. X \in Sets /\ Y \in Sets /\ Z \in Sets /\ V \in Sets
  BY DEF Sets
<1>2. {"cq", "rcq"} \cap Y = {} /\ "qp" \notin X
  <2>1. "cq" \in QpAndCqs /\ "qp" \in QpAndCqs /\ (hasRcq => "rcq" \in QpAndCqs)
    BY SideFacts DEF QpAndCqs
  <2> QED BY <2>1
<1>3. Chan \subseteq Y /\ "id" \in X /\ "req" \in V /\ B = V \ {"req"}
  BY SideFacts DEF QpAndCqs
<1>4. Traced(qps, Plain, A, X)
  BY QpAndCqsTrace
<1>5. Traced(<<x>>, Plain, X, Y)
  <2>1. CASE passive
    <3>1. x = Do /\ Y = X
      BY <2>1
    <3> HIDE DEF X, Y, x
    <3> QED BY <1>1, <3>1, DoRule
  <2>2. CASE ~passive
    <3>1. x = Rel("id") /\ Y = X \ {"id", "on_evch"}
      BY <2>2
    <3> HIDE DEF X, Y, x
    <3> QED BY <1>1, <1>2, <1>3, <3>1, DestroyIdRule
  <2> QED BY <2>1, <2>2
<1>6. Traced(DestroyChannel, Plain, Y, Z)
  <2> HIDE DEF Y
  <2> QED BY <1>1, <1>2, <1>3, DestroyChannelTrace
<1>7. Traced(<<Drop("req_data")>>, Plain, Z, V)
  <2> HIDE DEF Z
  <2> QED BY <1>1, DropRule
<1>8. Traced(<<Rel("req")>>, Plain, V, B)
  <2> HIDE DEF V
  <2> QED BY <1>1, <1>3, FreeRule DEF Bases
<1>9. ReqDelete(passive) = qps \o <<x>> \o DestroyChannel \o <<Drop("req_data"), Rel("req")>>
  BY DEF ReqDelete
<1> HIDE DEF X, Y, Z, V, x, qps
<1>10. Traced(<<Drop("req_data"), Rel("req")>>, Plain, Z, B)
  BY <1>7, <1>8, Two
<1>11. Traced(qps \o <<x>> \o DestroyChannel, Plain, A, Z)
  BY <1>4, <1>5, <1>6, Then
<1> QED BY <1>9, <1>10, <1>11, Then

(* rpma_conn_req_new()                                                     *)
LEMMA ReqNewTrace ==
  ASSUME NEW A \in Sets, "pd" \in A,
         (AnyCq \cup {"rai", "info", "id", "on_evch", "qp", "req"}) \cap A = {},
         NEW B, B = A \cup {"id", "req"} \cup QpAndCqs \cup Chan
  PROVE  Traced(ReqNew, Running({A}, Quiet), A, B)
<1> DEFINE X == A \cup {"rai", "info"}
           Y == X \cup {"id"}
           Z == Y \cup {"qp", "req"} \cup Chan \cup Side("cq") \cup Side("rcq")
           err_destroy_id == <<Rel("id")>> \o InfoDelete
<1>1. X \in Sets /\ Y \in Sets /\ Z \in Sets
  BY ZenonT(30), SideFacts DEF Sets, Resources
<1>2. B = Z \ {"rai", "info"} /\ {"rai", "info"} \subseteq Z
  BY SideFacts DEF QpAndCqs
<1>3. Traced(InfoDelete, Plain, X, A)
  BY <1>1, InfoDeleteTrace
<1>4. Traced(<<Rel("id")>>, Plain, Y, X)
  <2>1. "id" \in Y /\ "qp" \notin Y /\ X = Y \ {"id", "on_evch"}
    OBVIOUS
  <2> HIDE DEF X, Y
  <2> QED BY <1>1, <2>1, DestroyIdRule
<1>5. Traced(err_destroy_id, Plain, Y, A)
  BY <1>3, <1>4, Then
<1>6. Traced(InfoNew, Creating({A}), A, X)
  BY InfoNewTrace
<1>7. Traced(<<Get("id", InfoDelete)>>, Creating({A}), X, Y)
  <2>1. BuiltOn("id", X) /\ "id" \in Resources
    BY DEF BuiltOn, Resources
  <2> HIDE DEF X
  <2> QED BY <1>1, <1>3, <2>1, AcquireRule
<1>8. Traced(FromId, Creating({Y}), Y, Z)
  <2>1. {"pd", "id"} \subseteq Y /\ (AnyCq \cup {"qp", "req"}) \cap Y = {}
    BY DEF AnyCq
  <2> HIDE DEF Y
  <2> QED BY <1>1, <2>1, FromIdTrace
<1>9. Traced(InfoDelete, Running({A}, Quiet), Z, B)
  <2> HIDE DEF Z
  <2> QED BY <1>1, <1>2, InfoDeleteRuns
<1> HIDE DEF X, Y, Z, err_destroy_id
<1>10. Traced(Within(FromId, err_destroy_id), Creating({A}), Y, Z)
  BY <1>5, <1>8, UndoMore
<1>11. Traced(<<Get("none", err_destroy_id)>>, Creating({A}), Y, Y)
  BY <1>1, <1>5, CallRule
<1>12. Traced(<<Get("id", InfoDelete), Get("none", err_destroy_id), Get("none", err_destroy_id)>>, Creating({A}), X, Y)
  BY <1>7, <1>11, Three
<1> DEFINE ids == <<Get("id", InfoDelete), Get("none", err_destroy_id), Get("none", err_destroy_id)>>
<1>13. ReqNew = InfoNew \o ids \o Within(FromId, err_destroy_id) \o InfoDelete
  BY DEF ReqNew, ResolveAddr, err_destroy_id
<1> HIDE DEF ids
<1>14. /\ Traced(InfoNew, Running({A}, Quiet), A, X) /\ Traced(ids, Running({A}, Quiet), X, Y)
       /\ Traced(Within(FromId, err_destroy_id), Running({A}, Quiet), Y, Z)
  BY <1>6, <1>10, <1>12, CreatingRuns DEF ids
<1> QED BY <1>9, <1>13, <1>14, Then

(* rpma_ep_next_conn_req(): the CM ID of the event stays if the request    *)
(* cannot be made or the event cannot be acknowledged, and is destroyed    *)
(* with the request if there is no memory for the private data.            *)
LEMMA NextConnReqTrace ==
  ASSUME NEW A \in Sets, {"pd", "id"} \subseteq A,
         (AnyCq \cup {"on_evch", "qp", "req", "req_data"}) \cap A = {},
         NEW B, B = A \cup {"req"} \cup QpAndCqs \cup Chan \cup (IF hasData THEN {"req_data"} ELSE {})
  PROVE  Traced(NextConnReq, Running({A, A \ {"id"}}, Quiet), A, B)
<1> DEFINE X == A \cup {"qp", "req"} \cup Chan \cup Side("cq") \cup Side("rcq")
           A0 == A \ {"id"}
           F == {A, A0}
           err_ack == <<Do>>
           data == If(hasData, <<Get("req_data", ReqDelete(FALSE) \o err_ack)>>)
<1>1. X \in Sets /\ B \in Sets /\ A0 \in Sets
  BY ZenonT(30), SideFacts DEF Sets, Resources, QpAndCqs
<1>2. /\ QpAndCqs \cup Chan \cup {"id", "req"} \subseteq X /\ QpAndCqs \cup Chan \cup {"id", "req"} \subseteq B
      /\ ("rcq" \in X => hasRcq) /\ ("rcq" \in B => hasRcq)
  BY SideFacts DEF QpAndCqs, AnyCq, Side
<1>3. /\ A0 = X \ (QpAndCqs \cup Chan \cup {"req_data", "req"} \cup {"id", "on_evch"})
      /\ A = B \ (QpAndCqs \cup Chan \cup {"req_data", "req"} \cup {})
  BY SideFacts DEF QpAndCqs, AnyCq
<1>4. B = X \cup (IF hasData THEN {"req_data"} ELSE {})
  BY DEF QpAndCqs
<1>5. A \in F /\ A0 \in F
  OBVIOUS
<1>6. Traced(FromId, Creating({A}), A, X)
  <2>1. (AnyCq \cup {"qp", "req"}) \cap A = {}
    OBVIOUS
  <2> HIDE DEF X
  <2> QED BY <2>1, FromIdTrace DEF X
<1> HIDE DEF X, A0, F
<1>7. Traced(ReqDelete(FALSE), Plain, X, A0)
  <2>1. A0 = X \ (QpAndCqs \cup Chan \cup {"req_data", "req"} \cup IF FALSE THEN {} ELSE {"id", "on_evch"})
    BY <1>3
  <2> QED BY <1>1, <1>2, <2>1, ReqDeleteTrace
<1>8. Traced(ReqDelete(TRUE), Plain, B, A)
  <2>1. A = B \ (QpAndCqs \cup Chan \cup {"req_data", "req"} \cup IF TRUE THEN {} ELSE {"id", "on_evch"})
    BY <1>3
  <2> QED BY <1>1, <1>2, <2>1, ReqDeleteTrace
<1>9. Traced(err_ack, Plain, A, A) /\ Traced(err_ack, Plain, A0, A0)
  BY <1>1, DoRule
<1>10. Traced(ReqDelete(FALSE) \o err_ack, Plain, X, A0)
  BY <1>7, <1>9, Then
<1>11. Traced(Within(FromId, err_ack), Creating(F), A, X)
  <2> HIDE DEF err_ack
  <2> QED BY <1>5, <1>6, <1>9, UndoMore
<1>12. Traced(data, Creating(F), X, B)
  <2>1. CASE hasData
    <3>1. data = <<Get("req_data", ReqDelete(FALSE) \o err_ack)>> /\ B = X \cup {"req_data"}
      BY <1>4, <2>1 DEF If
    <3>2. "req_data" \in Resources \ Dependents
      BY DEF Resources, Dependents
    <3> DEFINE undo == ReqDelete(FALSE) \o err_ack
    <3> HIDE DEF undo
    <3>3. Traced(<<Get("req_data", undo)>>, Creating(F), X, B)
      BY <1>1, <1>5, <1>10, <3>1, <3>2, MallocRule DEF undo
    <3> QED BY <3>1, <3>3 DEF undo
  <2>2. CASE ~hasData
    <3>1. data = <<>> /\ B = X
      BY <1>4, <2>2 DEF If
    <3> QED BY <3>1, Nothing
  <2> QED BY <2>1, <2>2
<1>13. Traced(<<Get("none", ReqDelete(TRUE))>>, Creating(F), B, B)
  BY <1>1, <1>5, <1>8, CallRule
<1>14. NextConnReq = Within(FromId, err_ack) \o data \o <<Get("none", ReqDelete(TRUE))>>
  BY DEF NextConnReq
<1> HIDE DEF err_ack, data
<1>15. Traced(Within(FromId, err_ack) \o data, Creating(F), A, B)
  BY <1>11, <1>12, Then
<1>16. Traced(NextConnReq, Creating(F), A, B)
  BY <1>13, <1>14, <1>15, Then
<1> QED BY <1>16, CreatingRuns DEF F, A0

-----------------------------------------------------------------------------
(* What rpma_flush_new() makes.                                            *)
FlushParts == {"flush", "raw", "raw_mr_obj", "raw_mr", "flush_apm"}

(* rpma_flush_new()                                                        *)
LEMMA FlushNewTrace ==
  ASSUME NEW A \in Sets, "pd" \in A, FlushParts \cap A = {}, NEW B, B = A \cup FlushParts
  PROVE  Traced(FlushNew, Creating({A}), A, B)
<1> DEFINE X == A \cup {"flush"}
           Y == A \cup {"flush", "raw"}
           Z == A \cup {"flush", "raw", "raw_mr", "raw_mr_obj"}
           undo == <<Rel("raw"), Rel("flush")>>
<1>1. X \in Sets /\ Y \in Sets /\ Z \in Sets
  BY DEF Sets, Resources
<1>2. Traced(<<Rel("flush")>>, Plain, X, A)
  BY <1>1, FreeRule DEF Bases, FlushParts
<1>3. Traced(<<Rel("raw")>>, Plain, Y, X)
  <2>1. "raw" \in Y \ {"id"} /\ Users("raw") \cap Y = {} /\ X = Y \ {"raw"}
    BY DEF Users, FlushParts
  <2> QED BY <1>1, <2>1, ReleaseRule
<1>4. Traced(undo, Plain, Y, A)
  BY <1>2, <1>3, Two
<1>5. MrObj("raw_mr") = "raw_mr_obj"
  BY DEF MrObj
<1>6. Traced(MrDereg("raw_mr"), Plain, Z, Y)
  BY <1>1, <1>5, MrDeregTrace DEF FlushParts
<1>7. Traced(MrDereg("raw_mr") \o undo, Plain, Z, A)
  BY <1>4, <1>6, Then
<1>8. Traced(MrReg("raw_mr"), Creating({Y}), Y, Z)
  <2>1. {"raw_mr", "raw_mr_obj"} \cap Y = {} /\ "pd" \in Y /\ "raw" \in Y /\ Z = Y \cup {"raw_mr", "raw_mr_obj"}
    BY DEF FlushParts
  <2> HIDE DEF Y, Z
  <2> QED BY <1>1, <1>5, <2>1, MrRegTrace
<1>9. Traced(<<Get("flush", <<>>)>>, Creating({A}), A, X)
  BY Nothing, MallocRule DEF Resources, Dependents
<1>10. /\ Traced(<<Get("raw", <<Rel("flush")>>)>>, Creating({A}), X, Y)
       /\ Traced(<<Get("none", <<Rel("flush")>>)>>, Creating({A}), X, X)
  BY <1>1, <1>2, MallocRule, CallRule DEF Resources, Dependents
<1>11. B = Z \cup {"flush_apm"}
  BY DEF FlushParts
<1> HIDE DEF X, Y, Z, undo
<1>12. Traced(Within(MrReg("raw_mr"), undo), Creating({A}), Y, Z)
  BY <1>4, <1>8, UndoMore
<1>13. Traced(<<Get("flush_apm", MrDereg("raw_mr") \o undo)>>, Creating({A}), Z, B)
  BY <1>1, <1>7, <1>11, MallocRule DEF Resources, Dependents
<1> DEFINE first == <<Get("flush", <<>>), Get("none", <<Rel("flush")>>), Get("raw", <<Rel("flush")>>)>>
<1>14. Traced(first, Creating({A}), A, Y)
  BY <1>9, <1>10, Three
<1>15. FlushNew = first \o Within(MrReg("raw_mr"), undo) \o <<Get("flush_apm", MrDereg("raw_mr") \o undo)>>
  BY DEF FlushNew, undo
<1> HIDE DEF first
<1>16. Traced(first \o Within(MrReg("raw_mr"), undo), Creating({A}), A, Z)
  BY <1>12, <1>14, Then
<1> QED BY <1>13, <1>15, <1>16, Then

(* rpma_flush_delete()                                                     *)
LEMMA FlushDeleteTrace ==
  ASSUME NEW A \in Sets, FlushParts \subseteq A, NEW B, B = A \ FlushParts
  PROVE  Traced(FlushDelete, Plain, A, B)
<1> DEFINE X == A \ {"raw_mr", "raw_mr_obj"}
           Y == X \ {"raw"}
           Z == Y \ {"flush_apm"}
<1>1. X \in Sets /\ Y \in Sets /\ Z \in Sets
  BY DEF Sets
<1>2. Traced(MrDereg("raw_mr"), Plain, A, X)
  BY MrDeregTrace DEF FlushParts, MrObj
<1>3. Traced(<<Rel("raw")>>, Plain, X, Y)
  <2>1. "raw" \in X \ {"id"} /\ Users("raw") \cap X = {}
    BY DEF Users, FlushParts
  <2> HIDE DEF X
  <2> QED BY <1>1, <2>1, ReleaseRule
<1>4. Traced(<<Rel("flush_apm")>>, Plain, Y, Z)
  <2>1. "flush_apm" \in Y \ Bases
    BY DEF Bases, FlushParts
  <2> HIDE DEF Y
  <2> QED BY <1>1, <2>1, FreeRule
<1>5. Traced(<<Rel("flush")>>, Plain, Z, B)
  <2>1. "flush" \in Z \ Bases /\ B = Z \ {"flush"}
    BY DEF Bases, FlushParts
  <2> HIDE DEF Z
  <2> QED BY <1>1, <2>1, FreeRule
<1> HIDE DEF X, Y, Z
<1>6. Traced(<<Rel("raw"), Rel("flush_apm"), Rel("flush")>>, Plain, X, B)
  BY <1>3, <1>4, <1>5, Three
<1> QED BY <1>2, <1>6, Then DEF FlushDelete

(* What rpma_conn_new() makes.                                             *)
NewParts == {"evch", "on_evch", "conn"} \cup FlushParts

(* rpma_conn_new()                                                         *)
LEMMA ConnNewTrace ==
  ASSUME NEW A \in Sets, "pd" \in A, NewParts \cap A = {}, NEW B, B = A \cup NewParts
  PROVE  Traced(ConnNew, Creating({A}), A, B)
<1> DEFINE X == A \cup {"evch"}
           Y == A \cup {"evch", "on_evch"}
           Z == Y \cup FlushParts
           err_destroy_evch == <<Rel("evch")>>
           err_migrate_id_NULL == <<Rel("on_evch")>> \o err_destroy_evch
           err_flush_delete == FlushDelete \o err_migrate_id_NULL
<1>1. X \in Sets /\ Y \in Sets /\ Z \in Sets
  BY DEF Sets, Resources, FlushParts
<1>2. Traced(err_destroy_evch, Plain, X, A)
  <2>1. "evch" \in X \ {"id"} /\ Users("evch") \cap X = {} /\ A = X \ {"evch"}
    BY DEF Users, NewParts
  <2> QED BY <1>1, <2>1, ReleaseRule
<1>3. Traced(<<Rel("on_evch")>>, Plain, Y, X)
  <2>1. "on_evch" \in Y \ Bases /\ X = Y \ {"on_evch"}
    BY DEF Bases, NewParts
  <2> QED BY <1>1, <2>1, FreeRule
<1>4. Traced(err_migrate_id_NULL, Plain, Y, A)
  BY <1>2, <1>3, Then
<1>5. FlushParts \cap Y = {} /\ "pd" \in Y /\ FlushParts \subseteq Z /\ Y = Z \ FlushParts
  BY DEF FlushParts, NewParts
<1>6. Traced(FlushDelete, Plain, Z, Y) /\ Traced(FlushNew, Creating({Y}), Y, Z)
  <2> HIDE DEF Y
  <2> QED BY <1>1, <1>5, FlushDeleteTrace, FlushNewTrace
<1>7. Traced(err_flush_delete, Plain, Z, A)
  BY <1>4, <1>6, Then
<1>8. Traced(<<Get("evch", <<>>)>>, Creating({A}), A, X)
  BY Nothing, MallocRule DEF Resources, Dependents
<1>9. Traced(<<Get("on_evch", err_destroy_evch)>>, Creating({A}), X, Y)
  <2>1. BuiltOn("on_evch", X) /\ "on_evch" \in Resources
    BY DEF BuiltOn, Resources
  <2> QED BY <1>1, <1>2, <2>1, AcquireRule
<1>10. B = Z \cup {"conn"}
  BY DEF NewParts
<1>11. "conn" \in Resources \ Dependents
  BY DEF Resources, Dependents
<1> HIDE DEF X, Y, Z, err_migrate_id_NULL, err_flush_delete
<1>12. Traced(Within(FlushNew, err_migrate_id_NULL), Creating({A}), Y, Z)
  BY <1>4, <1>6, UndoMore
<1>13. Traced(<<Get("conn", err_flush_delete)>>, Creating({A}), Z, B)
  BY <1>1, <1>7, <1>10, <1>11, MallocRule
<1> DEFINE first == <<Get("evch", <<>>), Get("on_evch", err_destroy_evch)>>
<1>14. Traced(first, Creating({A}), A, Y)
  BY <1>8, <1>9, Two
<1>15. ConnNew = first \o Within(FlushNew, err_migrate_id_NULL) \o <<Get("conn", err_flush_delete)>>
  BY DEF ConnNew, err_migrate_id_NULL, err_flush_delete
<1> HIDE DEF first
<1>16. Traced(first \o Within(FlushNew, err_migrate_id_NULL), Creating({A}), A, Z)
  BY <1>12, <1>14, Then
<1> QED BY <1>13, <1>15, <1>16, Then

(* An undo program before what ends a deletion.                            *)
LEMMA ThenEnds ==
  ASSUME NEW p, NEW q, NEW A, NEW B, NEW C, NEW W,
         Traced(p, Plain, A, B), Traced(q, Undoing(W), B, C), EndsIn(q, W)
  PROVE  Traced(p \o q, Undoing(W), A, C) /\ EndsIn(p \o q, W)
<1>1. p \in Seq(Instr2) /\ q \in Seq(Instr2)
  BY DEF Traced
<1>2. Traced(p, Undoing(W), A, B)
  BY PlainUndoes
<1> QED BY <1>1, <1>2, Then, EndsAlike

(* What rpma_conn_delete() takes away.                                     *)
Conn == NewParts \cup QpAndCqs \cup Chan \cup {"id", "conn_data"}

(* rpma_conn_delete(), then what its caller does next: the goto chain      *)
(* joins the same states again.                                            *)
LEMMA ConnDeleteTrace ==
  ASSUME NEW A \in Sets, Conn \ {"conn_data"} \subseteq A, "rcq" \in A => hasRcq, NEW M, M = A \ Conn,
         NEW then, NEW C, NEW W, Traced(then, Undoing(W), M, C), EndsIn(then, W)
  PROVE  Traced(ConnDelete(then), Deleting(C, W), A, C) /\ EndsIn(ConnDelete(then), W)
<1> DEFINE A1 == A \ FlushParts
           A2 == A1 \ {"qp"}
           A3 == A2 \ Side("rcq")
           A4 == A3 \ Side("cq")
           A5 == A4 \ {"id", "on_evch"}
           A6 == A5 \ Chan
           A7 == A6 \ {"evch"}
           A8 == A7 \ {"conn_data"}
<1>1. /\ A1 \in Sets /\ A2 \in Sets /\ A3 \in Sets /\ A4 \in Sets
      /\ A5 \in Sets /\ A6 \in Sets /\ A7 \in Sets /\ A8 \in Sets
  BY DEF Sets
<1>2. FlushParts \subseteq A /\ "qp" \in A1 /\ "qp" \notin A2 /\ "qp" \notin A3 /\ "qp" \notin A4
  BY SideFacts DEF Conn, NewParts, QpAndCqs, FlushParts
<1>3. Side("rcq") \subseteq A2
  BY SideFacts DEF Conn, QpAndCqs, FlushParts
<1>4. Side("cq") \subseteq A3
  BY SideFacts DEF Conn, QpAndCqs, FlushParts
<1>5. "id" \in A4
  BY SideFacts DEF Conn, FlushParts
<1>6. Chan \subseteq A5
  BY SideFacts DEF Conn, FlushParts
<1>7. {"cq", "rcq"} \cap A5 = {}
  BY SideFacts
<1>8. "evch" \in A6 /\ Users("evch") \cap A6 = {} /\ "conn" \in A8 /\ "conn" \notin Bases
  BY SideFacts DEF Conn, NewParts, FlushParts, Users, Bases
<1>9. M = A8 \ {"conn"}
  BY DEF Conn, NewParts, QpAndCqs
<1>10. Traced(FlushDelete, Plain, A, A1)
  BY <1>2, FlushDeleteTrace
<1>11. Traced(<<Rel("qp")>>, Plain, A1, A2)
  <2>1. "qp" \notin Bases
    BY DEF Bases
  <2> HIDE DEF A1
  <2> QED BY <1>1, <1>2, <2>1, FreeRule
<1>12. Traced(CqDelete("rcq"), Plain, A2, A3)
  <2> HIDE DEF A2
  <2> QED BY <1>1, <1>2, <1>3, CqDeleteTrace
<1>13. Traced(CqDelete("cq"), Plain, A3, A4)
  <2> HIDE DEF A3
  <2> QED BY <1>1, <1>2, <1>4, CqDeleteTrace
<1>14. Traced(<<Rel("id")>>, Plain, A4, A5)
  <2> HIDE DEF A4
  <2> QED BY <1>1, <1>2, <1>5, DestroyIdRule
<1>15. Traced(DestroyChannel, Plain, A5, A6)
  <2> HIDE DEF A5
  <2> QED BY <1>1, <1>6, <1>7, DestroyChannelTrace
<1>16. Traced(<<Rel("evch")>>, Plain, A6, A7)
  <2>1. "evch" \in A6 \ {"id"}
    BY <1>8
  <2> HIDE DEF A6
  <2> QED BY <1>1, <1>8, <2>1, ReleaseRule
<1>17. Traced(<<Drop("conn_data")>>, Plain, A7, A8)
  <2> HIDE DEF A7
  <2> QED BY <1>1, DropRule
<1>18. Traced(<<Rel("conn")>>, Plain, A8, M)
  <2> HIDE DEF A8
  <2> QED BY <1>1, <1>8, <1>9, FreeRule
<1> HIDE DEF A1, A2, A3, A4, A5, A6, A7, A8
<1> DEFINE D == Deleting(C, W)
           last == <<Rel("evch"), Drop("conn_data"), Rel("conn")>>
           err_destroy_event_channel == last \o then
           err_destroy_comp_channel == DestroyChannel \o err_destroy_event_channel
           err_destroy_id == <<Rel("id")>> \o err_destroy_comp_channel
           err_rpma_cq_delete == CqDelete("cq") \o err_destroy_id
           err_destroy_qp == <<Rel("qp")>> \o CqDelete("rcq") \o err_rpma_cq_delete
<1>19. Traced(last, Plain, A6, M)
  BY <1>16, <1>17, <1>18, Three
<1> HIDE DEF last
<1>20. Traced(err_destroy_event_channel, Undoing(W), A6, C) /\ EndsIn(err_destroy_event_channel, W)
  BY <1>19, ThenEnds
<1> HIDE DEF err_destroy_event_channel
<1>21. Traced(err_destroy_comp_channel, Undoing(W), A5, C) /\ EndsIn(err_destroy_comp_channel, W)
  BY <1>15, <1>20, ThenEnds
<1> HIDE DEF err_destroy_comp_channel
<1>22. Traced(err_destroy_id, Undoing(W), A4, C) /\ EndsIn(err_destroy_id, W)
  BY <1>14, <1>21, ThenEnds
<1> HIDE DEF err_destroy_id
<1>23. Traced(err_rpma_cq_delete, Undoing(W), A3, C) /\ EndsIn(err_rpma_cq_delete, W)
  BY <1>13, <1>22, ThenEnds
<1> HIDE DEF err_rpma_cq_delete
<1>24. Traced(err_destroy_qp, Undoing(W), A1, C) /\ EndsIn(err_destroy_qp, W)
  <2>1. Traced(<<Rel("qp")>> \o CqDelete("rcq"), Plain, A1, A3)
    BY <1>11, <1>12, Then
  <2> QED BY <1>23, <2>1, ThenEnds
<1> HIDE DEF err_destroy_qp
<1>25. /\ Traced(<<GotoIfErr(err_destroy_qp)>>, D, A1, A1)
       /\ Traced(<<GotoIfErr(err_rpma_cq_delete)>>, D, A3, A3)
       /\ Traced(<<GotoIfErr(err_destroy_id)>>, D, A4, A4)
       /\ Traced(<<GotoIfErr(err_destroy_comp_channel)>>, D, A5, A5)
       /\ Traced(<<GotoIfErr(err_destroy_event_channel)>>, D, A6, A6)
  <2> HIDE DEF D
  <2>1. Traced(<<GotoIfErr(err_destroy_qp)>>, D, A1, A1)
    BY <1>1, <1>24, GotoRule DEF D
  <2>2. Traced(<<GotoIfErr(err_rpma_cq_delete)>>, D, A3, A3)
    BY <1>1, <1>23, GotoRule DEF D
  <2>3. Traced(<<GotoIfErr(err_destroy_id)>>, D, A4, A4)
    BY <1>1, <1>22, GotoRule DEF D
  <2>4. Traced(<<GotoIfErr(err_destroy_comp_channel)>>, D, A5, A5)
    BY <1>1, <1>21, GotoRule DEF D
  <2>5. Traced(<<GotoIfErr(err_destroy_event_channel)>>, D, A6, A6)
    BY <1>1, <1>20, GotoRule DEF D
  <2> QED BY <2>1, <2>2, <2>3, <2>4, <2>5
<1>26. /\ Traced(FlushDelete, D, A, A1) /\ Traced(<<Rel("qp")>>, D, A1, A2)
       /\ Traced(CqDelete("rcq"), D, A2, A3) /\ Traced(CqDelete("cq"), D, A3, A4)
       /\ Traced(<<Rel("id")>>, D, A4, A5) /\ Traced(DestroyChannel, D, A5, A6)
       /\ Traced(last, D, A6, M) /\ Traced(then, D, M, C)
  BY <1>10, <1>11, <1>12, <1>13, <1>14, <1>15, <1>19, PlainDeletes, UndoingDeletes
<1> DEFINE two == <<GotoIfErr(err_destroy_qp), Rel("qp")>>
           three == <<Rel("id"), GotoIfErr(err_destroy_comp_channel)>>
<1> HIDE DEF D
<1>27. Traced(two, D, A1, A2) /\ Traced(three, D, A4, A5)
  BY <1>25, <1>26, Two
<1> DEFINE p1 == FlushDelete \o two
           p2 == p1 \o CqDelete("rcq") \o <<GotoIfErr(err_rpma_cq_delete)>>
           p3 == p2 \o CqDelete("cq") \o <<GotoIfErr(err_destroy_id)>>
           p4 == p3 \o three
           p5 == p4 \o DestroyChannel \o <<GotoIfErr(err_destroy_event_channel)>>
           p6 == p5 \o last
<1>28. ConnDelete(then) = p6 \o then
  BY DEF ConnDelete, err_destroy_event_channel, err_destroy_comp_channel, err_destroy_id,
         err_rpma_cq_delete, err_destroy_qp, last
<1> HIDE DEF two, three
<1>29. Traced(p1, D, A, A2)
  BY <1>26, <1>27, Then
<1> HIDE DEF p1
<1>30. Traced(p2, D, A, A3)
  BY <1>25, <1>26, <1>29, Then
<1> HIDE DEF p2
<1>31. Traced(p3, D, A, A4)
  BY <1>25, <1>26, <1>30, Then
<1> HIDE DEF p3
<1>32. Traced(p4, D, A, A5)
  BY <1>27, <1>31, Then
<1> HIDE DEF p4
<1>33. Traced(p5, D, A, A6)
  BY <1>25, <1>26, <1>32, Then
<1> HIDE DEF p5
<1>34. Traced(p6, D, A, M)
  BY <1>26, <1>33, Then
<1> HIDE DEF p6
<1>35. Traced(p6 \o then, D, A, C)
  BY <1>26, <1>34, Then
<1>36. p6 \in Seq(Instr2) /\ then \in Seq(Instr2)
  BY <1>34 DEF Traced
<1>37. EndsIn(p6 \o then, W)
  BY <1>36, EndsAlike
<1> QED BY <1>28, <1>35, <1>37 DEF D

(* The private data of a request becomes the connection's.                 *)
LEMMA MoveRule ==
  ASSUME NEW F, NEW Q, NEW A \in Sets,
         NEW B, B = IF "req_data" \in A THEN (A \ {"req_data"}) \cup {"conn_data"} ELSE A
  PROVE  Traced(<<Move("req_data")>>, Running(F, Q), A, B)
<1> DEFINE x == Move("req_data")
<1>1. x \in Instr0 /\ x.op = "move"
  BY SMT DEF Move, Instr0, Ops, Resources
<1>2. B \in Sets
  BY DEF Sets, Resources
<1> HIDE DEF x
<1>3. PlainStep(x, A, B) /\ x.op # "rel"
  BY <1>1 DEF PlainStep
<1>4. <<x, A, B>> \in Running(F, Q)
  BY <1>1, <1>2, <1>3, PlainIs, RunningIs
<1> QED BY <1>1, <1>4, Kinds, Single DEF x

(* What a function releases on its way to success.                         *)
LEMMA LetGoRule ==
  ASSUME NEW F, NEW Q, NEW r \in Q, NEW A, NEW B, Traced(<<Rel(r)>>, Plain, A, B)
  PROVE  Traced(<<Rel(r)>>, Running(F, Q), A, B)
<1>1. Rel(r) \in Instr2 /\ <<Rel(r), A, B>> \in Plain
  BY SingleIs
<1>2. <<Rel(r), A, B>> \in Running(F, Q)
  BY <1>1, RunningIs DEF Rel
<1> QED BY <1>1, <1>2, Single

(* A call that only must succeed, with a deletion if it fails.             *)
LEMMA TryRule ==
  ASSUME NEW A \in Sets, NEW undo, NEW F, NEW f \in F, NEW Q, Traced(undo, Deleting(f, Others), A, f)
  PROVE  Traced(<<Get("none", undo)>>, Running(F, Q), A, A)
<1> DEFINE x == Get("none", undo)
<1>1. \A y, C, D : <<y, C, D>> \in Deleting(f, Others) => y \in Instr1
  BY SMT, DeletingIs, UndoingIs, PlainIs, Kinds
<1>2. undo \in Seq(Instr1)
  BY <1>1, MadeOf
<1>3. x \in Instr2 /\ x.alt = undo /\ x.r = "none" /\ x.op = "get"
  BY <1>2 DEF Get, Instr2, Ops
<1> HIDE DEF x
<1>4. GetStep(x, A, A)
  BY <1>3 DEF GetStep, BuiltOn, Uses
<1>5. <<x, A, A>> \in Running(F, Q)
  BY <1>3, <1>4, RunningIs
<1> QED BY <1>3, <1>5, Single DEF x

(* A program that may end in more ways if it fails.                        *)
LEMMA RunningMore ==
  ASSUME NEW F, NEW G, F \subseteq G, NEW Q, NEW p, NEW A, NEW B, Traced(p, Running(F, Q), A, B)
  PROVE  Traced(p, Running(G, Q), A, B)
<1>1. Running(F, Q) \subseteq Running(G, Q)
  BY DEF Running
<1> QED BY <1>1, Wider

(* rpma_conn_req_accept() for rpma_conn_req_connect()                      *)
LEMMA AcceptTrace ==
  ASSUME NEW A \in Sets, QpAndCqs \cup Chan \cup {"pd", "id", "req"} \subseteq A, "rcq" \in A => hasRcq,
         (NewParts \cup {"conn_data"}) \cap A = {},
         NEW E, E = A \ (QpAndCqs \cup Chan \cup {"req_data", "req"}),
         NEW B, B = ((A \ {"req_data", "req"}) \cup NewParts)
                    \cup (IF "req_data" \in A THEN {"conn_data"} ELSE {})
  PROVE  Traced(Accept(<<Rel("req")>>), Running({E}, Quiet), A, B)
<1> DEFINE X == A \ QpAndCqs
           Y == X \ {"req_data"}
           Z == Y \ Chan
           V == A \cup NewParts
           U == IF "req_data" \in V THEN (V \ {"req_data"}) \cup {"conn_data"} ELSE V
           qps == <<Rel("qp")>> \o CqDelete("rcq") \o CqDelete("cq")
           err_conn_req_delete == qps \o <<Drop("req_data")>> \o DestroyChannel \o <<Rel("req")>>
           err_conn_disconnect == <<Do>> \o err_conn_req_delete
<1>1. X \in Sets /\ Y \in Sets /\ Z \in Sets /\ V \in Sets /\ U \in Sets
  BY DEF Sets, Resources, NewParts, FlushParts
<1>2. {"cq", "rcq"} \cap Y = {} /\ Chan \subseteq Y
  BY SideFacts DEF QpAndCqs
<1>3. "req" \in Z /\ E = Z \ {"req"} /\ "req" \notin Bases
  BY SideFacts DEF QpAndCqs, Bases
<1>4. "req" \in U /\ B = U \ {"req"} /\ "pd" \in A /\ NewParts \cap A = {}
  BY DEF NewParts, FlushParts
<1>5. Traced(qps, Plain, A, X)
  BY QpAndCqsTrace
<1>6. Traced(<<Drop("req_data")>>, Plain, X, Y)
  <2> HIDE DEF X
  <2> QED BY <1>1, DropRule
<1>7. Traced(DestroyChannel, Plain, Y, Z)
  <2> HIDE DEF Y
  <2> QED BY <1>1, <1>2, DestroyChannelTrace
<1>8. Traced(<<Rel("req")>>, Plain, Z, E)
  <2> HIDE DEF Z
  <2> QED BY <1>1, <1>3, FreeRule
<1>9. Traced(ConnNew, Creating({A}), A, V)
  BY <1>4, ConnNewTrace
<1>10. Traced(<<Move("req_data")>>, Running({E}, Quiet), V, U)
  <2> HIDE DEF V
  <2> QED BY <1>1, MoveRule
<1>11. Traced(<<Rel("req")>>, Running({E}, Quiet), U, B)
  <2>1. "req" \in Quiet
    BY DEF Quiet, Resources, Fallible
  <2> HIDE DEF U
  <2>2. Traced(<<Rel("req")>>, Plain, U, B)
    BY <1>1, <1>3, <1>4, FreeRule
  <2> QED BY <2>1, <2>2, LetGoRule
<1>12. Traced(<<Do>>, Plain, A, A)
  BY DoRule
<1> HIDE DEF X, Y, Z, V, U, qps
<1>13. Traced(err_conn_req_delete, Plain, A, E)
  BY ZenonT(30), <1>5, <1>6, <1>7, <1>8, Then
<1> HIDE DEF err_conn_req_delete
<1>14. Traced(err_conn_disconnect, Plain, A, E)
  BY <1>12, <1>13, Then
<1> HIDE DEF err_conn_disconnect
<1>15. Traced(<<Get("none", err_conn_req_delete)>>, Creating({E}), A, A)
  BY <1>13, CallRule
<1>16. Traced(Within(ConnNew, err_conn_disconnect), Creating({E}), A, V)
  BY <1>9, <1>14, UndoMore
<1>17. Accept(<<Rel("req")>>) = <<Get("none", err_conn_req_delete)>> \o Within(ConnNew, err_conn_disconnect)
                                 \o <<Move("req_data")>> \o <<Rel("req")>>
  BY DEF Accept, err_conn_disconnect, err_conn_req_delete, qps
<1>18. Traced(<<Get("none", err_conn_req_delete)>> \o Within(ConnNew, err_conn_disconnect), Creating({E}), A, V)
  BY <1>15, <1>16, Then
<1> DEFINE first == <<Get("none", err_conn_req_delete)>> \o Within(ConnNew, err_conn_disconnect)
<1> HIDE DEF first
<1>19. Traced(first, Running({E}, Quiet), A, V)
  BY <1>18, CreatingRuns DEF first
<1>20. Traced(first \o <<Move("req_data")>> \o <<Rel("req")>>, Running({E}, Quiet), A, B)
  BY <1>10, <1>11, <1>19, Then
<1> QED BY <1>17, <1>20 DEF first

(* rpma_conn_req_connect_active() for rpma_conn_req_connect(): whether     *)
(* rpma_conn_new() or rdma_connect() fails, the request is all gone.       *)
LEMMA ConnectActiveTrace ==
  ASSUME NEW A \in Sets, QpAndCqs \cup Chan \cup {"pd", "id", "req"} \subseteq A, "rcq" \in A => hasRcq,
         (NewParts \cup {"conn_data"}) \cap A = {},
         NEW E, E = A \ (QpAndCqs \cup Chan \cup {"id", "req"}),
         NEW B, B = (A \ {"req"}) \cup NewParts
  PROVE  Traced(ConnectActive(<<Rel("req")>>), Running({E}, Quiet), A, B)
<1> DEFINE X == A \ QpAndCqs
           Y == X \ {"id", "on_evch"}
           Z == Y \ Chan
           V == A \cup NewParts
           M == V \ Conn
           qps == <<Rel("qp")>> \o CqDelete("rcq") \o CqDelete("cq")
           err_conn_new == qps \o <<Rel("id")>> \o DestroyChannel \o <<Rel("req")>>
<1>1. X \in Sets /\ Y \in Sets /\ Z \in Sets /\ V \in Sets /\ M \in Sets
  BY DEF Sets, Resources, NewParts, FlushParts
<1>2. {"cq", "rcq"} \cap Y = {} /\ Chan \subseteq Y /\ "id" \in X /\ "qp" \notin X
  BY SideFacts DEF QpAndCqs
<1>3. "req" \in Z /\ E = Z \ {"req"} /\ "req" \notin Bases
  BY SideFacts DEF QpAndCqs, Bases, NewParts
<1>4. "req" \in V /\ B = V \ {"req"} /\ "pd" \in A /\ NewParts \cap A = {}
  BY DEF NewParts, FlushParts
<1>5. "req" \in M /\ E = M \ {"req"}
  BY SideFacts DEF Conn, QpAndCqs, NewParts, FlushParts
<1>6. Conn \ {"conn_data"} \subseteq V /\ ("rcq" \in V => hasRcq)
  BY DEF Conn, NewParts, FlushParts
<1>7. Traced(qps, Plain, A, X)
  BY QpAndCqsTrace
<1>8. Traced(<<Rel("id")>>, Plain, X, Y)
  <2> HIDE DEF X
  <2> QED BY <1>1, <1>2, DestroyIdRule
<1>9. Traced(DestroyChannel, Plain, Y, Z)
  <2> HIDE DEF Y
  <2> QED BY <1>1, <1>2, DestroyChannelTrace
<1>10. Traced(<<Rel("req")>>, Plain, Z, E) /\ Traced(<<Rel("req")>>, Plain, M, E) /\ Traced(<<Rel("req")>>, Plain, V, B)
  <2> HIDE DEF Z, M, V
  <2> QED BY <1>1, <1>3, <1>4, <1>5, FreeRule
<1>11. Traced(ConnNew, Creating({A}), A, V)
  BY <1>4, ConnNewTrace
<1>12. EndsIn(<<Rel("req")>>, Others)
  BY SMT DEF EndsIn, Last, Rel, Ops, Others
<1>13. Traced(ConnDelete(<<Rel("req")>>), Deleting(E, Others), V, E)
  <2>1. Traced(<<Rel("req")>>, Undoing(Others), M, E)
    BY <1>10, PlainUndoes
  <2> HIDE DEF V
  <2> QED BY <1>1, <1>6, <1>12, <2>1, ConnDeleteTrace
<1>14. Traced(<<Rel("req")>>, Running({E}, Quiet), V, B)
  <2>1. "req" \in Quiet
    BY DEF Quiet, Resources, Fallible
  <2> QED BY <1>10, <2>1, LetGoRule
<1> HIDE DEF X, Y, Z, V, M, qps
<1>15. Traced(err_conn_new, Plain, A, E)
  BY <1>7, <1>8, <1>9, <1>10, Then
<1> HIDE DEF err_conn_new
<1>16. Traced(Within(ConnNew, err_conn_new), Creating({E}), A, V)
  BY <1>11, <1>15, UndoMore
<1>17. Traced(Within(ConnNew, err_conn_new), Running({E}, Quiet), A, V)
  BY <1>16, CreatingRuns
<1>18. Traced(<<Get("none", ConnDelete(<<Rel("req")>>))>>, Running({E}, Quiet), V, V)
  BY <1>1, <1>13, TryRule
<1>19. ConnectActive(<<Rel("req")>>) =
         Within(ConnNew, err_conn_new) \o <<Get("none", ConnDelete(<<Rel("req")>>))>> \o <<Rel("req")>>
  BY DEF ConnectActive, err_conn_new, qps
<1>20. Traced(Within(ConnNew, err_conn_new) \o <<Get("none", ConnDelete(<<Rel("req")>>))>>, Running({E}, Quiet), A, V)
  BY <1>17, <1>18, Then
<1> DEFINE first == Within(ConnNew, err_conn_new) \o <<Get("none", ConnDelete(<<Rel("req")>>))>>
<1> HIDE DEF first
<1>21. Traced(first \o <<Rel("req")>>, Running({E}, Quiet), A, B)
  BY <1>14, <1>20, Then DEF first
<1> QED BY <1>19, <1>21 DEF first

(* rpma_conn_next_event(): private data that was there is lost when the    *)
(* event cannot be acknowledged.                                           *)
LEMMA NextEventTrace ==
  ASSUME live \in Sets, NEW F, F = {live, live \ {"conn_data"}},
         NEW B, B = IF hasData THEN live \cup {"conn_data"} ELSE live
  PROVE  Traced(NextEvent, Running(F, Quiet), live, B)
<1> DEFINE A == live
           A0 == live \ {"conn_data"}
           data == If(hasData /\ "conn_data" \notin A, <<Get("conn_data", <<Do>>)>>)
           ack == <<Get("none", <<Drop("conn_data")>>)>>
<1>1. B \in Sets /\ A \in F /\ A0 \in F
  BY DEF Sets, Resources
<1>2. A \in Sets /\ A0 = B \ {"conn_data"}
  OBVIOUS
<1>3. Traced(data, Creating(F), A, B)
  <2>1. CASE hasData /\ "conn_data" \notin A
    <3>1. data = <<Get("conn_data", <<Do>>)>> /\ B = A \cup {"conn_data"}
      BY <2>1 DEF If
    <3>2. Traced(<<Do>>, Plain, A, A)
      BY <1>2, DoRule
    <3>3. "conn_data" \in Resources \ Dependents
      BY DEF Resources, Dependents
    <3> HIDE DEF A, A0
    <3>4. Traced(<<Get("conn_data", <<Do>>)>>, Creating(F), A, B)
      BY <1>1, <1>2, <3>1, <3>2, <3>3, MallocRule
    <3> QED BY <3>1, <3>4
  <2>2. CASE ~(hasData /\ "conn_data" \notin A)
    <3>1. data = <<>> /\ B = A
      BY <2>2 DEF If
    <3> QED BY <3>1, Nothing
  <2> QED BY <2>1, <2>2
<1>4. NextEvent = data \o ack
  BY DEF NextEvent
<1> HIDE DEF A, A0, data
<1>5. Traced(<<Drop("conn_data")>>, Plain, B, A0)
  BY <1>1, <1>2, DropRule
<1>6. Traced(ack, Creating(F), B, B)
  BY <1>1, <1>5, CallRule
<1> HIDE DEF ack
<1>7. Traced(NextEvent, Creating(F), A, B)
  BY <1>3, <1>4, <1>6, Then
<1> QED BY <1>7, CreatingRuns DEF A

-----------------------------------------------------------------------------
(* What the application's handles own, and what a call leaves.             *)
Handles == {"ctx", "peer", "ep", "mr"}
PeerParts == {"pd", "peer"}
EpParts == {"ep_evch", "ep_id", "ep"}
MrParts == {"mr_obj", "mr"}
PartsOf(hd) ==
    (IF "peer" \in hd THEN PeerParts ELSE {}) \cup (IF "ep" \in hd THEN EpParts ELSE {})
    \cup (IF "mr" \in hd THEN MrParts ELSE {})

Owns(hn) ==
    CASE hn = "none" -> {{}}
      [] hn = "req" -> {ReqParts \cup (IF hasData /\ side = "passive" THEN {"req_data"} ELSE {})}
      [] hn = "conn" -> {ConnParts, ConnParts \cup {"conn_data"}}
      [] hn = "gone" -> IF side = "passive" THEN {{}, {"id"}} ELSE {{}}

States(hd, hn) == {PartsOf(hd) \cup own : own \in Owns(hn)}

(* The handles after a call, that has succeeded or not.                    *)
HeldAfter(c, ok) ==
    CASE c \in DOMAIN Makes /\ ok -> held \cup {Makes[c]}
      [] c \in DOMAIN Takes -> held \ {Takes[c]}
      [] OTHER -> held
HandleAfter(c, ok) ==
    CASE c \in DOMAIN Makes \cup DOMAIN Takes -> handle
      [] c = "next_event" -> "conn"
      [] c \in {"req_new", "next_conn_req"} /\ ok -> "req"
      [] c = "req_connect" /\ ok -> "conn"
      [] OTHER -> "gone"
Ends(c, ok) == States(HeldAfter(c, ok), HandleAfter(c, ok))

(* The calls that end with a return of the first error.                    *)
Deletions == {"peer_delete", "ep_shutdown", "mr_dereg", "req_delete", "conn_delete"}
Calls == {"get_context", "peer_new", "ep_listen", "mr_reg", "req_new", "next_conn_req", "req_connect",
          "next_event"} \cup Deletions
How(c) == IF c \in Deletions THEN {"return"} ELSE Others
May(c) == IF c = "get_context" THEN Resources ELSE Quiet
Codes == {"0", "RPMA_E_PROVIDER", "RPMA_E_NOMEM", "RPMA_E_INVAL", "RPMA_E_UNKNOWN"}

(* The rest p of the program of c leads from A to what c leaves: a call    *)
(* that still may succeed, and one that deletes or undoes.                 *)
Planned(c, p, A) ==
    \E e \in Ends(c, TRUE) : Traced(p, Running(Ends(c, FALSE), May(c)), A, e)
Undone(c, p, A) ==
    \E e \in Ends(c, FALSE) : Traced(p, Deleting(e, How(c)), A, e)

(* Between two calls, the handles own what is live.                        *)
Plan ==
    IF call = "idle" THEN live \in States(held, handle)
    ELSE IF call \in Deletions \/ ret # "0" THEN Undone(call, prog, live)
    ELSE Planned(call, prog, live)

(* Nothing is there without what it is built on.                           *)
Ordered(A) ==
    /\ \A r \in A \ {"id"} : Uses(r) \subseteq A
    /\ {"id", "on_evch"} \subseteq A => "evch" \in A

(* The order in which the application may call.                            *)
Order ==
    /\ {"ep", "mr"} \cap held # {} \/ handle \in {"req", "conn"} => "peer" \in held
    /\ "ep" \in held => side = "passive"
    /\ call \in {"ep_listen", "mr_reg", "req_new", "next_conn_req"} => "peer" \in held
    /\ call = "ep_listen" => side = "passive"
    /\ call = "peer_delete" => {"ep", "mr"} \cap held = {} /\ handle \in {"none", "gone"}
    /\ call \in {"req_connect", "req_delete"} => handle = "req"
    /\ call \in {"next_event", "conn_delete"} => handle = "conn"

(* No error is lost.                                                       *)
Reports ==
    /\ failed => err # "0"
    /\ call \in Deletions => IF prog = <<>> THEN ret = err ELSE EndsIn(prog, {"return"})
    /\ call \notin Deletions \cup {"idle", "get_context"} /\ ret = "0" => ~failed

Types ==
    /\ side \in {"active", "passive"} /\ shared \in BOOLEAN /\ hasRcq \in BOOLEAN
    /\ hasData \in BOOLEAN /\ odp \in BOOLEAN /\ failed \in BOOLEAN
    /\ live \in Sets /\ stuck \subseteq Fallible /\ prog \in Seq(Instr2)
    /\ call \in Calls \cup {"idle"} /\ err \in Codes /\ ret \in Codes
    /\ handle \in {"none", "req", "conn", "gone"} /\ held \subseteq Handles
    /\ call = "idle" => prog = <<>>

Inv == Types /\ Plan /\ Ordered(live) /\ Order /\ Reports

-----------------------------------------------------------------------------
(* The tables of Return.                                                   *)
LEMMA TablesAre ==
  /\ DOMAIN Makes = {"get_context", "peer_new", "ep_listen", "mr_reg"}
  /\ DOMAIN Takes = {"peer_delete", "ep_shutdown", "mr_dereg"}
  /\ Makes["get_context"] = "ctx" /\ Makes["peer_new"] = "peer"
  /\ Makes["ep_listen"] = "ep" /\ Makes["mr_reg"] = "mr"
  /\ Takes["peer_delete"] = "peer" /\ Takes["ep_shutdown"] = "ep" /\ Takes["mr_dereg"] = "mr"
BY SMT DEF Makes, Takes

(* The handles after a call.                                               *)
LEMMA AfterAre ==
  ASSUME NEW ok \in BOOLEAN
  PROVE  /\ HeldAfter("get_context", ok) = (IF ok THEN held \cup {"ctx"} ELSE held)
         /\ HeldAfter("peer_new", ok) = (IF ok THEN held \cup {"peer"} ELSE held)
         /\ HeldAfter("ep_listen", ok) = (IF ok THEN held \cup {"ep"} ELSE held)
         /\ HeldAfter("mr_reg", ok) = (IF ok THEN held \cup {"mr"} ELSE held)
         /\ HeldAfter("peer_delete", ok) = held \ {"peer"}
         /\ HeldAfter("ep_shutdown", ok) = held \ {"ep"}
         /\ HeldAfter("mr_dereg", ok) = held \ {"mr"}
         /\ \A c \in {"req_new", "next_conn_req", "req_connect", "next_event", "req_delete", "conn_delete"} :
               HeldAfter(c, ok) = held
         /\ \A c \in {"get_context", "peer_new", "ep_listen", "mr_reg", "peer_delete", "ep_shutdown", "mr_dereg"} :
               HandleAfter(c, ok) = handle
         /\ HandleAfter("req_new", ok) = (IF ok THEN "req" ELSE "gone")
         /\ HandleAfter("next_conn_req", ok) = (IF ok THEN "req" ELSE "gone")
         /\ HandleAfter("req_connect", ok) = (IF ok THEN "conn" ELSE "gone")
         /\ HandleAfter("next_event", ok) = "conn"
         /\ HandleAfter("req_delete", ok) = "gone" /\ HandleAfter("conn_delete", ok) = "gone"
<1>1. /\ HeldAfter("get_context", ok) = (IF ok THEN held \cup {"ctx"} ELSE held)
      /\ HeldAfter("peer_new", ok) = (IF ok THEN held \cup {"peer"} ELSE held)
      /\ HeldAfter("ep_listen", ok) = (IF ok THEN held \cup {"ep"} ELSE held)
      /\ HeldAfter("mr_reg", ok) = (IF ok THEN held \cup {"mr"} ELSE held)
      /\ HeldAfter("peer_delete", ok) = held \ {"peer"}
      /\ HeldAfter("ep_shutdown", ok) = held \ {"ep"}
      /\ HeldAfter("mr_dereg", ok) = held \ {"mr"}
      /\ \A c \in {"req_new", "next_conn_req", "req_connect", "next_event", "req_delete", "conn_delete"} :
            HeldAfter(c, ok) = held
  BY SMT, TablesAre DEF HeldAfter
<1>2. /\ \A c \in {"get_context", "peer_new", "ep_listen", "mr_reg", "peer_delete", "ep_shutdown", "mr_dereg"} :
            HandleAfter(c, ok) = handle
      /\ HandleAfter("req_new", ok) = (IF ok THEN "req" ELSE "gone")
      /\ HandleAfter("next_conn_req", ok) = (IF ok THEN "req" ELSE "gone")
      /\ HandleAfter("req_connect", ok) = (IF ok THEN "conn" ELSE "gone")
      /\ HandleAfter("next_event", ok) = "conn"
      /\ HandleAfter("req_delete", ok) = "gone" /\ HandleAfter("conn_delete", ok) = "gone"
  BY SMT, TablesAre DEF HandleAfter
<1> QED BY <1>1, <1>2

(* What a call leaves that succeeds, ...                                   *)
LEMMA EndsIfDone ==
  /\ Ends("get_context", TRUE) = States(held \cup {"ctx"}, handle)
  /\ Ends("peer_new", TRUE) = States(held \cup {"peer"}, handle)
  /\ Ends("ep_listen", TRUE) = States(held \cup {"ep"}, handle)
  /\ Ends("mr_reg", TRUE) = States(held \cup {"mr"}, handle)
  /\ Ends("req_new", TRUE) = States(held, "req")
  /\ Ends("next_conn_req", TRUE) = States(held, "req")
  /\ Ends("req_connect", TRUE) = States(held, "conn")
  /\ Ends("next_event", TRUE) = States(held, "conn")
BY AfterAre DEF Ends

(* ... and one that fails, or deletes.                                     *)
LEMMA EndsIfFailed ==
  /\ \A c \in {"get_context", "peer_new", "ep_listen", "mr_reg"} : Ends(c, FALSE) = States(held, handle)
  /\ Ends("peer_delete", FALSE) = States(held \ {"peer"}, handle)
  /\ Ends("ep_shutdown", FALSE) = States(held \ {"ep"}, handle)
  /\ Ends("mr_dereg", FALSE) = States(held \ {"mr"}, handle)
  /\ \A c \in {"req_new", "next_conn_req", "req_connect", "req_delete", "conn_delete"} :
        Ends(c, FALSE) = States(held, "gone")
  /\ Ends("next_event", FALSE) = States(held, "conn")
<1>1. /\ \A c \in {"get_context", "peer_new", "ep_listen", "mr_reg"} : HeldAfter(c, FALSE) = held
      /\ \A c \in {"get_context", "peer_new", "ep_listen", "mr_reg"} : HandleAfter(c, FALSE) = handle
  BY ZenonT(30), AfterAre
<1>2. /\ \A c \in {"req_new", "next_conn_req", "req_connect", "req_delete", "conn_delete"} : HeldAfter(c, FALSE) = held
      /\ \A c \in {"req_new", "next_conn_req", "req_connect", "req_delete", "conn_delete"} :
            HandleAfter(c, FALSE) = "gone"
  BY ZenonT(30), AfterAre
<1>3. /\ HeldAfter("peer_delete", FALSE) = held \ {"peer"} /\ HandleAfter("peer_delete", FALSE) = handle
      /\ HeldAfter("ep_shutdown", FALSE) = held \ {"ep"} /\ HandleAfter("ep_shutdown", FALSE) = handle
      /\ HeldAfter("mr_dereg", FALSE) = held \ {"mr"} /\ HandleAfter("mr_dereg", FALSE) = handle
      /\ HeldAfter("next_event", FALSE) = held /\ HandleAfter("next_event", FALSE) = "conn"
  BY ZenonT(30), AfterAre
<1> QED BY <1>1, <1>2, <1>3 DEF Ends

(* A deletion leaves the same, whatever it reports.                        *)
LEMMA DeletionEnds == ASSUME NEW c \in Deletions PROVE Ends(c, TRUE) = Ends(c, FALSE)
<1>1. ASSUME NEW ok \in BOOLEAN
      PROVE  /\ HeldAfter("peer_delete", ok) = held \ {"peer"} /\ HandleAfter("peer_delete", ok) = handle
             /\ HeldAfter("ep_shutdown", ok) = held \ {"ep"} /\ HandleAfter("ep_shutdown", ok) = handle
             /\ HeldAfter("mr_dereg", ok) = held \ {"mr"} /\ HandleAfter("mr_dereg", ok) = handle
             /\ HeldAfter("req_delete", ok) = held /\ HandleAfter("req_delete", ok) = "gone"
             /\ HeldAfter("conn_delete", ok) = held /\ HandleAfter("conn_delete", ok) = "gone"
  BY AfterAre
<1>2. CASE c \in {"peer_delete", "ep_shutdown", "mr_dereg"}
  BY <1>1, <1>2 DEF Ends
<1>3. CASE c \in {"req_delete", "conn_delete"}
  BY <1>1, <1>3 DEF Ends
<1> QED BY <1>2, <1>3 DEF Deletions

(* When a state is one of them.                                            *)
LEMMA StatesRule ==
  ASSUME NEW hd, NEW hn, NEW own \in Owns(hn), NEW A, A = PartsOf(hd) \cup own
  PROVE  A \in States(hd, hn)
BY DEF States

(* What the handles own.                                                   *)
LEMMA PartsAre ==
  /\ ReqParts = {"id", "req"} \cup QpAndCqs \cup Chan
  /\ ConnParts = {"id"} \cup QpAndCqs \cup Chan \cup NewParts
<1>1. CqParts = Chan \cup Side("cq") \cup Side("rcq")
  BY DEF CqParts, Chan, Side, CqObj, OwnChannel
<1> QED BY <1>1 DEF ReqParts, ConnParts, QpAndCqs, NewParts, FlushParts

Owned == {"id", "qp", "req", "req_data", "conn_data"} \cup AnyCq \cup NewParts

(* No two handles own the same.                                            *)
LEMMA PartsOfFacts ==
  ASSUME NEW hd
  PROVE  /\ PartsOf(hd) \subseteq PeerParts \cup EpParts \cup MrParts
         /\ PartsOf(hd) \cap Owned = {}
         /\ "peer" \in hd => PeerParts \subseteq PartsOf(hd)
         /\ "peer" \notin hd => PeerParts \cap PartsOf(hd) = {}
         /\ "ep" \in hd => EpParts \subseteq PartsOf(hd)
         /\ "ep" \notin hd => EpParts \cap PartsOf(hd) = {}
         /\ "mr" \in hd => MrParts \subseteq PartsOf(hd)
         /\ "mr" \notin hd => MrParts \cap PartsOf(hd) = {}
<1>1. PartsOf(hd) \subseteq PeerParts \cup EpParts \cup MrParts
  BY DEF PartsOf
<1>2. (PeerParts \cup EpParts \cup MrParts) \cap Owned = {}
  BY DEF PeerParts, EpParts, MrParts, Owned, AnyCq, NewParts, FlushParts
<1>3. PeerParts \cap EpParts = {} /\ PeerParts \cap MrParts = {} /\ EpParts \cap MrParts = {}
  BY DEF PeerParts, EpParts, MrParts
<1> QED BY <1>1, <1>2, <1>3 DEF PartsOf

(* A handle more, and a handle less.                                       *)
LEMMA PartsOfChanges ==
  ASSUME NEW hd
  PROVE  /\ PartsOf(hd \cup {"ctx"}) = PartsOf(hd)
         /\ PartsOf(hd \cup {"peer"}) = PartsOf(hd) \cup PeerParts
         /\ PartsOf(hd \cup {"ep"}) = PartsOf(hd) \cup EpParts
         /\ PartsOf(hd \cup {"mr"}) = PartsOf(hd) \cup MrParts
         /\ PartsOf(hd \ {"peer"}) = PartsOf(hd) \ PeerParts
         /\ PartsOf(hd \ {"ep"}) = PartsOf(hd) \ EpParts
         /\ PartsOf(hd \ {"mr"}) = PartsOf(hd) \ MrParts
<1>1. PeerParts \cap EpParts = {} /\ PeerParts \cap MrParts = {} /\ EpParts \cap MrParts = {}
  BY DEF PeerParts, EpParts, MrParts
<1>2. /\ PartsOf(hd \cup {"ctx"}) = PartsOf(hd)
      /\ PartsOf(hd \cup {"peer"}) = PartsOf(hd) \cup PeerParts
      /\ PartsOf(hd \cup {"ep"}) = PartsOf(hd) \cup EpParts
      /\ PartsOf(hd \cup {"mr"}) = PartsOf(hd) \cup MrParts
  BY DEF PartsOf
<1>3. PartsOf(hd \ {"peer"}) = PartsOf(hd) \ PeerParts
  BY <1>1 DEF PartsOf
<1>4. PartsOf(hd \ {"ep"}) = PartsOf(hd) \ EpParts
  BY <1>1 DEF PartsOf
<1>5. PartsOf(hd \ {"mr"}) = PartsOf(hd) \ MrParts
  BY <1>1 DEF PartsOf
<1> QED BY <1>2, <1>3, <1>4, <1>5

(* What a connection's handle owns is nobody else's.                       *)
LEMMA OwnsFacts ==
  ASSUME NEW hn \in {"none", "req", "conn", "gone"}, NEW own \in Owns(hn)
  PROVE  /\ own \subseteq Owned
         /\ hn = "none" => own = {}
         /\ hn = "gone" => own \subseteq {"id"}
         /\ own \in Sets
<1>1. Owned \subseteq Resources
  BY DEF Owned, AnyCq, NewParts, FlushParts, Resources
<1>2. QpAndCqs \cup Chan \subseteq Owned
  BY SideFacts DEF QpAndCqs, Owned, AnyCq
<1>3. ReqParts \cup {"req_data"} \subseteq Owned /\ ConnParts \cup {"conn_data"} \subseteq Owned
  BY <1>2, PartsAre DEF Owned
<1>4. hn = "none" => own = {}
  BY DEF Owns
<1>5. hn = "gone" => own \subseteq {"id"}
  BY DEF Owns
<1>6. hn = "req" => own \subseteq ReqParts \cup {"req_data"}
  BY DEF Owns
<1>7. hn = "conn" => own \subseteq ConnParts \cup {"conn_data"}
  BY DEF Owns
<1>8. own \subseteq Owned
  BY <1>3, <1>4, <1>5, <1>6, <1>7 DEF Owned
<1> QED BY <1>1, <1>4, <1>5, <1>8 DEF Sets

-----------------------------------------------------------------------------
(* The calls: each starts a program that leads to what the call leaves.    *)
Idle == Types /\ Plan /\ Order /\ call = "idle"

(* What is live between two calls.                                         *)
LEMMA IdleIs ==
  ASSUME Idle
  PROVE  \E own \in Owns(handle) :
           /\ live = PartsOf(held) \cup own /\ own \in Sets /\ own \subseteq Owned
           /\ handle = "none" => own = {}
           /\ handle = "gone" => own \subseteq {"id"}
<1>1. PICK own \in Owns(handle) : live = PartsOf(held) \cup own
  BY DEF Idle, Plan, States
<1> QED BY <1>1, OwnsFacts DEF Idle, Types

(* How to plan a call, ...                                                 *)
LEMMA PlanRule ==
  ASSUME NEW c, NEW p, NEW A, NEW F, F \subseteq Ends(c, FALSE), NEW e \in Ends(c, TRUE),
         Traced(p, Running(F, May(c)), A, e)
  PROVE  Planned(c, p, A)
BY RunningMore DEF Planned

(* ... one that leaves everything as it was if it fails, ...               *)
LEMMA CreateRule ==
  ASSUME NEW c, NEW p, NEW A \in Ends(c, FALSE), NEW e \in Ends(c, TRUE), Traced(p, Creating({A}), A, e)
  PROVE  Planned(c, p, A)
<1>1. {A} \subseteq Ends(c, FALSE)
  OBVIOUS
<1>2. Traced(p, Running({A}, May(c)), A, e)
  BY CreatingRuns
<1> DEFINE F == {A}
<1> HIDE DEF F
<1> QED BY <1>1, <1>2, PlanRule DEF F

(* ... and a deletion.                                                     *)
LEMMA DeleteRule ==
  ASSUME NEW c \in Deletions, NEW p, NEW A, NEW e \in Ends(c, FALSE), e \in Sets, Traced(p, Plain, A, e)
  PROVE  Undone(c, p \o <<ReturnErr>>, A) /\ EndsIn(p \o <<ReturnErr>>, {"return"})
<1> DEFINE W == {"return"}
           q == p \o <<ReturnErr>>
<1>1. Traced(<<ReturnErr>>, Undoing(W), e, e) /\ EndsIn(<<ReturnErr>>, W)
  BY ReturnRule
<1> HIDE DEF W
<1>2. Traced(q, Undoing(W), A, e) /\ EndsIn(q, W)
  BY <1>1, ThenEnds
<1> HIDE DEF q
<1>3. Traced(q, Deleting(e, W), A, e)
  BY <1>2, UndoingDeletes
<1>4. How(c) = W
  BY DEF How, W
<1>5. Undone(c, q, A)
  BY <1>3, <1>4 DEF Undone
<1> QED BY <1>2, <1>5 DEF q, W

(* rpma_utils_get_ibv_context()                                            *)
LEMMA GetContextPlan == ASSUME Idle PROVE Planned("get_context", GetContext, live)
<1>1. PICK own \in Owns(handle) : live = PartsOf(held) \cup own /\ own \subseteq Owned
  BY IdleIs
<1>2. {"rai", "info", "temp_id"} \cap (PeerParts \cup EpParts \cup MrParts \cup Owned) = {}
  BY DEF PeerParts, EpParts, MrParts, Owned, AnyCq, NewParts, FlushParts
<1>3. {"rai", "info", "temp_id"} \cap live = {}
  BY <1>1, <1>2, PartsOfFacts
<1>4. live \in Ends("get_context", FALSE) /\ live \in Ends("get_context", TRUE)
  <2>1. live = PartsOf(held \cup {"ctx"}) \cup own
    BY <1>1, PartsOfChanges
  <2>2. live \in States(held, handle) /\ live \in States(held \cup {"ctx"}, handle)
    BY <1>1, <2>1, StatesRule
  <2> QED BY <2>2, EndsIfDone, EndsIfFailed
<1>5. Traced(GetContext, Running({live}, May("get_context")), live, live)
  BY <1>3, GetContextTrace DEF Idle, Types, May
<1> DEFINE F == {live}
<1>6. F \subseteq Ends("get_context", FALSE)
  BY <1>4
<1> HIDE DEF F
<1> QED BY <1>4, <1>5, <1>6, PlanRule DEF F

(* rpma_peer_new()                                                         *)
LEMMA PeerNewPlan ==
  ASSUME Idle, "peer" \notin held, handle = "none" PROVE Planned("peer_new", PeerNew, live)
<1>1. live = PartsOf(held)
  BY IdleIs
<1>2. {"ep", "mr"} \cap held = {}
  BY DEF Idle, Order
<1>3. {"pd", "peer", "qp", "mr", "raw_mr"} \cap live = {}
  <2>1. PeerParts \cap live = {} /\ MrParts \cap live = {} /\ Owned \cap live = {}
    BY <1>1, <1>2, PartsOfFacts
  <2> QED BY <2>1 DEF PeerParts, MrParts, Owned, NewParts, FlushParts
<1>4. {} \in Owns(handle)
  BY DEF Owns
<1>5. live \in Ends("peer_new", FALSE) /\ live \cup PeerParts \in Ends("peer_new", TRUE)
  <2>1. live \cup PeerParts = PartsOf(held \cup {"peer"}) \cup {}
    BY <1>1, PartsOfChanges
  <2>2. live \in States(held, handle) /\ live \cup PeerParts \in States(held \cup {"peer"}, handle)
    BY <1>1, <1>4, <2>1, StatesRule
  <2> QED BY <2>2, EndsIfDone, EndsIfFailed
<1>6. Traced(PeerNew, Creating({live}), live, live \cup PeerParts)
  BY <1>3, PeerNewTrace DEF Idle, Types, PeerParts
<1> QED BY <1>5, <1>6, CreateRule

(* rpma_peer_delete()                                                      *)
LEMMA PeerDeletePlan ==
  ASSUME Idle, "peer" \in held, held \cap {"ep", "mr"} = {}, handle \in {"none", "gone"}
  PROVE  /\ Undone("peer_delete", PeerDelete \o <<ReturnErr>>, live)
         /\ EndsIn(PeerDelete \o <<ReturnErr>>, {"return"})
<1>1. PICK own \in Owns(handle) : live = PartsOf(held) \cup own /\ own \subseteq {"id"}
  BY IdleIs
<1>2. PeerParts \subseteq live /\ {"qp", "mr", "raw_mr"} \cap live = {}
  <2>1. PeerParts \subseteq live /\ MrParts \cap PartsOf(held) = {} /\ Owned \cap PartsOf(held) = {}
    BY <1>1, PartsOfFacts
  <2> QED BY <1>1, <2>1 DEF MrParts, Owned, NewParts, FlushParts
<1>3. live \ PeerParts = PartsOf(held \ {"peer"}) \cup own
  <2>1. PeerParts \cap own = {}
    BY <1>1 DEF PeerParts
  <2> QED BY <1>1, <2>1, PartsOfChanges
<1>4. live \ PeerParts \in Ends("peer_delete", FALSE)
  <2>1. live \ PeerParts \in States(held \ {"peer"}, handle)
    BY <1>1, <1>3, StatesRule
  <2> QED BY <2>1, EndsIfFailed
<1>5. Traced(PeerDelete, Plain, live, live \ PeerParts) /\ live \ PeerParts \in Sets
  BY <1>2, PeerDeleteTrace DEF Idle, Types, PeerParts, Sets
<1> QED BY <1>4, <1>5, DeleteRule DEF Deletions

(* rpma_ep_listen()                                                        *)
LEMMA EpListenPlan ==
  ASSUME Idle, "ep" \notin held, handle = "none" PROVE Planned("ep_listen", EpListen, live)
<1>1. live = PartsOf(held)
  BY IdleIs
<1>2. {"ep_evch", "ep_id", "ep", "rai", "info"} \cap live = {}
  <2>1. EpParts \cap live = {} /\ live \subseteq PeerParts \cup EpParts \cup MrParts
    BY <1>1, PartsOfFacts
  <2> QED BY <2>1 DEF PeerParts, EpParts, MrParts
<1>3. {} \in Owns(handle)
  BY DEF Owns
<1>4. live \in Ends("ep_listen", FALSE) /\ live \cup EpParts \in Ends("ep_listen", TRUE)
  <2>1. live \cup EpParts = PartsOf(held \cup {"ep"}) \cup {}
    BY <1>1, PartsOfChanges
  <2>2. live \in States(held, handle) /\ live \cup EpParts \in States(held \cup {"ep"}, handle)
    BY <1>1, <1>3, <2>1, StatesRule
  <2> QED BY <2>2, EndsIfDone, EndsIfFailed
<1>5. Traced(EpListen, Running({live}, May("ep_listen")), live, live \cup EpParts)
  BY <1>2, EpListenTrace DEF Idle, Types, EpParts, May
<1> DEFINE F == {live}
<1>6. F \subseteq Ends("ep_listen", FALSE)
  BY <1>4
<1> HIDE DEF F
<1> QED BY <1>4, <1>5, <1>6, PlanRule DEF F

(* rpma_ep_shutdown()                                                      *)
LEMMA EpShutdownPlan ==
  ASSUME Idle, "ep" \in held
  PROVE  /\ Undone("ep_shutdown", EpShutdown \o <<ReturnErr>>, live)
         /\ EndsIn(EpShutdown \o <<ReturnErr>>, {"return"})
<1>1. PICK own \in Owns(handle) : live = PartsOf(held) \cup own /\ own \subseteq Owned
  BY IdleIs
<1>2. EpParts \subseteq live
  BY <1>1, PartsOfFacts
<1>3. live \ EpParts = PartsOf(held \ {"ep"}) \cup own
  <2>1. EpParts \cap own = {}
    BY <1>1 DEF EpParts, Owned, AnyCq, NewParts, FlushParts
  <2> QED BY <1>1, <2>1, PartsOfChanges
<1>4. live \ EpParts \in Ends("ep_shutdown", FALSE)
  <2>1. live \ EpParts \in States(held \ {"ep"}, handle)
    BY <1>1, <1>3, StatesRule
  <2> QED BY <2>1, EndsIfFailed
<1>5. Traced(EpShutdown, Plain, live, live \ EpParts) /\ live \ EpParts \in Sets
  BY <1>2, EpShutdownTrace DEF Idle, Types, EpParts, Sets
<1> QED BY <1>4, <1>5, DeleteRule DEF Deletions

(* rpma_mr_reg()                                                           *)
LEMMA MrRegPlan ==
  ASSUME Idle, "peer" \in held, "mr" \notin held PROVE Planned("mr_reg", MrReg("mr"), live)
<1>1. PICK own \in Owns(handle) : live = PartsOf(held) \cup own /\ own \subseteq Owned
  BY IdleIs
<1>2. "pd" \in live /\ MrParts \cap live = {}
  <2>1. PeerParts \subseteq live /\ MrParts \cap PartsOf(held) = {} /\ MrParts \cap Owned = {}
    BY <1>1, PartsOfFacts DEF MrParts, Owned, AnyCq, NewParts, FlushParts
  <2> QED BY <1>1, <2>1 DEF PeerParts
<1>3. live \cup MrParts = PartsOf(held \cup {"mr"}) \cup own
  BY <1>1, PartsOfChanges
<1>4. live \in States(held, handle) /\ live \cup MrParts \in States(held \cup {"mr"}, handle)
  BY <1>1, <1>3, StatesRule
<1>5. live \in Ends("mr_reg", FALSE) /\ live \cup MrParts \in Ends("mr_reg", TRUE)
  BY <1>4, EndsIfDone, EndsIfFailed
<1>6. {"mr", MrObj("mr")} = MrParts
  BY DEF MrParts, MrObj
<1>7. Traced(MrReg("mr"), Creating({live}), live, live \cup MrParts)
  BY <1>2, <1>6, MrRegTrace DEF Idle, Types
<1> QED BY <1>5, <1>7, CreateRule

(* rpma_mr_dereg()                                                         *)
LEMMA MrDeregPlan ==
  ASSUME Idle, "mr" \in held
  PROVE  /\ Undone("mr_dereg", MrDereg("mr") \o <<ReturnErr>>, live)
         /\ EndsIn(MrDereg("mr") \o <<ReturnErr>>, {"return"})
<1>1. PICK own \in Owns(handle) : live = PartsOf(held) \cup own /\ own \subseteq Owned
  BY IdleIs
<1>2. MrParts \subseteq live
  BY <1>1, PartsOfFacts
<1>3. live \ MrParts = PartsOf(held \ {"mr"}) \cup own
  <2>1. MrParts \cap own = {}
    BY <1>1 DEF MrParts, Owned, AnyCq, NewParts, FlushParts
  <2> QED BY <1>1, <2>1, PartsOfChanges
<1>4. live \ MrParts \in Ends("mr_dereg", FALSE)
  <2>1. live \ MrParts \in States(held \ {"mr"}, handle)
    BY <1>1, <1>3, StatesRule
  <2> QED BY <2>1, EndsIfFailed
<1>5. {"mr", MrObj("mr")} = MrParts
  BY DEF MrParts, MrObj
<1>6. Traced(MrDereg("mr"), Plain, live, live \ MrParts) /\ live \ MrParts \in Sets
  BY <1>2, <1>5, MrDeregTrace DEF Idle, Types, Sets
<1> QED BY <1>4, <1>6, DeleteRule DEF Deletions

(* What a request or a connection consists of is part of Owned.            *)
LEMMA QpAndCqsFacts ==
  /\ QpAndCqs \subseteq Owned /\ Chan \subseteq Owned /\ NewParts \subseteq Owned
  /\ (QpAndCqs \cup Chan) \cap {"id", "req", "req_data", "conn_data", "on_evch"} = {}
  /\ (QpAndCqs \cup Chan) \cap NewParts = {}
  /\ "rcq" \in QpAndCqs \cup Chan => hasRcq
<1>1. QpAndCqs \cup Chan \subseteq {"qp"} \cup AnyCq
  BY SideFacts DEF QpAndCqs, AnyCq
<1>2. ({"qp"} \cup AnyCq) \cap (NewParts \cup {"id", "req", "req_data", "conn_data", "on_evch"}) = {}
  BY DEF AnyCq, NewParts, FlushParts
<1>3. ~hasRcq => Side("rcq") = {}
  BY DEF Side
<1>4. "rcq" \in QpAndCqs \cup Chan => hasRcq
  BY <1>3, SideFacts DEF QpAndCqs
<1> QED BY <1>1, <1>2, <1>4 DEF Owned

(* rpma_conn_req_new()                                                     *)
LEMMA ReqNewPlan ==
  ASSUME Idle, handle = "none", side = "active", "peer" \in held PROVE Planned("req_new", ReqNew, live)
<1> DEFINE B == live \cup {"id", "req"} \cup QpAndCqs \cup Chan
           F == {live}
<1>1. live = PartsOf(held)
  BY IdleIs
<1>2. "pd" \in live /\ (AnyCq \cup {"rai", "info", "id", "on_evch", "qp", "req"}) \cap live = {}
  <2>1. PeerParts \subseteq live /\ live \cap Owned = {} /\ live \subseteq PeerParts \cup EpParts \cup MrParts
    BY <1>1, PartsOfFacts
  <2> QED BY <2>1 DEF PeerParts, EpParts, MrParts, Owned, NewParts
<1>3. live = PartsOf(held) \cup {} /\ {} \in Owns("gone")
  BY <1>1 DEF Owns
<1>4. B = PartsOf(held) \cup ReqParts /\ ReqParts \in Owns("req")
  <2>1. ReqParts \cup {} = ReqParts
    OBVIOUS
  <2> QED BY <1>1, <2>1, PartsAre DEF Owns
<1>5. Traced(ReqNew, Running(F, Quiet), live, B)
  <2> HIDE DEF B
  <2> QED BY <1>2, ReqNewTrace DEF Idle, Types, B
<1> HIDE DEF B
<1>6. live \in States(held, "gone") /\ B \in States(held, "req")
  BY <1>3, <1>4, StatesRule
<1>7. F \subseteq Ends("req_new", FALSE) /\ B \in Ends("req_new", TRUE) /\ May("req_new") = Quiet
  BY <1>6, EndsIfDone, EndsIfFailed DEF May
<1> HIDE DEF F
<1> QED BY <1>5, <1>7, PlanRule

(* rpma_ep_next_conn_req(), with the CM ID of the event                    *)
LEMMA NextConnReqPlan ==
  ASSUME Idle, handle = "none", "ep" \in held
  PROVE  Planned("next_conn_req", NextConnReq, live \cup {"id"})
<1> DEFINE A == live \cup {"id"}
           B == A \cup {"req"} \cup QpAndCqs \cup Chan \cup (IF hasData THEN {"req_data"} ELSE {})
           F == {A, A \ {"id"}}
           own == ReqParts \cup (IF hasData /\ side = "passive" THEN {"req_data"} ELSE {})
<1>1. live = PartsOf(held) /\ side = "passive" /\ "peer" \in held
  BY IdleIs DEF Idle, Order
<1>2. PeerParts \subseteq live /\ live \cap Owned = {}
  BY <1>1, PartsOfFacts
<1>3. {"pd", "id"} \subseteq A /\ (AnyCq \cup {"on_evch", "qp", "req", "req_data"}) \cap A = {} /\ A \in Sets
  BY <1>2 DEF PeerParts, Owned, NewParts, AnyCq, Idle, Types, Sets, Resources
<1>4. A = PartsOf(held) \cup {"id"} /\ A \ {"id"} = PartsOf(held) \cup {}
  <2>1. "id" \notin live
    BY <1>2 DEF Owned
  <2> QED BY <1>1, <2>1
<1>5. {} \in Owns("gone") /\ {"id"} \in Owns("gone")
  BY <1>1 DEF Owns
<1>6. B = PartsOf(held) \cup own /\ own \in Owns("req")
  <2>1. B = PartsOf(held) \cup own
    BY <1>1, PartsAre
  <2> QED BY <2>1 DEF Owns
<1>7. Traced(NextConnReq, Running(F, Quiet), A, B)
  <2> HIDE DEF A, B
  <2> QED BY <1>3, NextConnReqTrace DEF B
<1> HIDE DEF A, B, own
<1>8. A \in States(held, "gone") /\ A \ {"id"} \in States(held, "gone") /\ B \in States(held, "req")
  BY <1>4, <1>5, <1>6, StatesRule
<1>9. F \subseteq Ends("next_conn_req", FALSE) /\ B \in Ends("next_conn_req", TRUE) /\ May("next_conn_req") = Quiet
  BY <1>8, EndsIfDone, EndsIfFailed DEF May
<1> HIDE DEF F
<1>10. Planned("next_conn_req", NextConnReq, A)
  BY <1>7, <1>9, PlanRule
<1> QED BY <1>10 DEF A

(* What is live when the application has a connection request.             *)
LEMMA ReqIs ==
  ASSUME Idle, handle = "req"
  PROVE  /\ live = PartsOf(held) \cup {"id", "req"} \cup QpAndCqs \cup Chan
                   \cup (IF hasData /\ side = "passive" THEN {"req_data"} ELSE {})
         /\ PartsOf(held) \cap Owned = {} /\ "pd" \in live
         /\ "rcq" \in live => hasRcq
         /\ (NewParts \cup {"conn_data"}) \cap live = {}
<1>1. PICK own \in Owns("req") : live = PartsOf(held) \cup own
  BY IdleIs
<1>2. own = {"id", "req"} \cup QpAndCqs \cup Chan \cup (IF hasData /\ side = "passive" THEN {"req_data"} ELSE {})
  BY PartsAre DEF Owns
<1>3. PartsOf(held) \cap Owned = {} /\ "pd" \in PartsOf(held)
  BY PartsOfFacts DEF Idle, Order, PeerParts
<1>4. "rcq" \in live => hasRcq
  <2>1. "rcq" \notin PartsOf(held)
    BY <1>3 DEF Owned, AnyCq
  <2> QED BY <1>1, <1>2, <2>1, QpAndCqsFacts
<1>5. (NewParts \cup {"conn_data"}) \cap PartsOf(held) = {}
  BY <1>3 DEF Owned
<1>6. (NewParts \cup {"conn_data"}) \cap own = {}
  <2>1. (NewParts \cup {"conn_data"}) \cap {"id", "req", "req_data"} = {}
    BY DEF NewParts, FlushParts
  <2> QED BY <1>2, <2>1, QpAndCqsFacts
<1> QED BY <1>1, <1>2, <1>3, <1>4, <1>5, <1>6

(* rpma_conn_req_delete() leaves nothing but the CM ID of a passive        *)
(* request.                                                                *)
LEMMA ReqDeleteEnds ==
  ASSUME Idle, handle = "req"
  PROVE  \E e \in States(held, "gone") : e \in Sets /\ Traced(ReqDelete(side = "passive"), Plain, live, e)
<1> DEFINE passive == side = "passive"
           own == IF passive THEN {"id"} ELSE {}
           e == PartsOf(held) \cup own
<1>1. /\ live = PartsOf(held) \cup {"id", "req"} \cup QpAndCqs \cup Chan
                \cup (IF hasData /\ side = "passive" THEN {"req_data"} ELSE {})
      /\ PartsOf(held) \cap Owned = {} /\ ("rcq" \in live => hasRcq)
  BY ReqIs
<1>2. PartsOf(held) \cap (QpAndCqs \cup Chan \cup {"id", "req", "req_data", "on_evch"}) = {}
  BY <1>1, QpAndCqsFacts DEF Owned, NewParts
<1>3. e = live \ (QpAndCqs \cup Chan \cup {"req_data", "req"} \cup IF passive THEN {} ELSE {"id", "on_evch"})
  BY <1>1, <1>2, QpAndCqsFacts
<1>4. QpAndCqs \cup Chan \cup {"id", "req"} \subseteq live /\ live \in Sets /\ passive \in BOOLEAN
  BY <1>1 DEF Idle, Types
<1>5. own \in Owns("gone")
  BY DEF Owns
<1>6. e \in States(held, "gone")
  BY <1>5, StatesRule
<1>7. e \in Sets
  BY <1>3, <1>4 DEF Sets
<1> HIDE DEF e, passive
<1>8. Traced(ReqDelete(passive), Plain, live, e)
  BY <1>1, <1>3, <1>4, ReqDeleteTrace
<1> QED BY <1>6, <1>7, <1>8 DEF passive

(* rpma_conn_req_delete(), and rpma_conn_req_connect() with a parameter    *)
(* that is not valid                                                       *)
LEMMA ReqDeletePlan ==
  ASSUME Idle, handle = "req"
  PROVE  /\ Undone("req_delete", ReqDelete(side = "passive") \o <<ReturnErr>>, live)
         /\ EndsIn(ReqDelete(side = "passive") \o <<ReturnErr>>, {"return"})
         /\ Undone("req_connect", ReqDelete(side = "passive"), live)
<1> DEFINE p == ReqDelete(side = "passive")
<1>1. PICK e \in States(held, "gone") : e \in Sets /\ Traced(p, Plain, live, e)
  BY ReqDeleteEnds
<1>2. e \in Ends("req_delete", FALSE) /\ e \in Ends("req_connect", FALSE)
  BY EndsIfFailed
<1> HIDE DEF p
<1>3. Undone("req_delete", p \o <<ReturnErr>>, live) /\ EndsIn(p \o <<ReturnErr>>, {"return"})
  BY <1>1, <1>2, DeleteRule DEF Deletions
<1>4. Undone("req_connect", p, live)
  BY <1>1, <1>2, PlainDeletes DEF Undone
<1> QED BY <1>3, <1>4 DEF p

(* rpma_conn_req_connect()                                                 *)
LEMMA ReqConnectPlan ==
  ASSUME Idle, handle = "req" PROVE Planned("req_connect", ReqConnect, live)
<1>1. /\ live = PartsOf(held) \cup {"id", "req"} \cup QpAndCqs \cup Chan
                \cup (IF hasData /\ side = "passive" THEN {"req_data"} ELSE {})
      /\ PartsOf(held) \cap Owned = {} /\ "pd" \in live
      /\ "rcq" \in live => hasRcq
      /\ (NewParts \cup {"conn_data"}) \cap live = {}
  BY ReqIs
<1>2. QpAndCqs \cup Chan \cup {"pd", "id", "req"} \subseteq live /\ live \in Sets
  BY <1>1 DEF Idle, Types
<1>3. PartsOf(held) \cap (QpAndCqs \cup Chan \cup {"id", "req", "req_data"}) = {}
  BY <1>1, QpAndCqsFacts DEF Owned
<1>4. ConnParts \in Owns("conn") /\ ConnParts \cup {"conn_data"} \in Owns("conn") /\ {} \in Owns("gone")
  BY DEF Owns
<1>5. May("req_connect") = Quiet
  BY DEF May
<1>6. CASE side = "passive"
  <2> DEFINE E == live \ (QpAndCqs \cup Chan \cup {"req_data", "req"})
             data == IF "req_data" \in live THEN {"conn_data"} ELSE {}
             B == ((live \ {"req_data", "req"}) \cup NewParts) \cup data
             F == {E}
  <2>1. Traced(Accept(<<Rel("req")>>), Running(F, Quiet), live, B)
    <3> HIDE DEF E, B
    <3> QED BY <1>1, <1>2, AcceptTrace DEF E, B
  <2>2. E = PartsOf(held) \cup {"id"} /\ {"id"} \in Owns("gone")
    <3>1. E = PartsOf(held) \cup {"id"}
      BY <1>1, <1>3, QpAndCqsFacts
    <3> QED BY <1>6, <3>1 DEF Owns
  <2>3. B = PartsOf(held) \cup (ConnParts \cup data)
    <3>1. live \ {"req_data", "req"} = PartsOf(held) \cup {"id"} \cup QpAndCqs \cup Chan
      BY <1>1, <1>3, QpAndCqsFacts
    <3> QED BY <3>1, PartsAre
  <2>4. ConnParts \cup data \in Owns("conn")
    <3>1. ConnParts \cup {} = ConnParts
      OBVIOUS
    <3> QED BY <1>4, <3>1
  <2> HIDE DEF E, B, data
  <2>5. E \in States(held, "gone") /\ B \in States(held, "conn")
    BY <2>2, <2>3, <2>4, StatesRule
  <2>6. F \subseteq Ends("req_connect", FALSE) /\ B \in Ends("req_connect", TRUE)
    BY <2>5, EndsIfDone, EndsIfFailed
  <2> HIDE DEF F
  <2>7. ReqConnect = Accept(<<Rel("req")>>)
    BY <1>6 DEF ReqConnect
  <2> QED BY <1>5, <2>1, <2>6, <2>7, PlanRule
<1>7. CASE side # "passive"
  <2> DEFINE E == live \ (QpAndCqs \cup Chan \cup {"id", "req"})
             B == (live \ {"req"}) \cup NewParts
             F == {E}
  <2>1. Traced(ConnectActive(<<Rel("req")>>), Running(F, Quiet), live, B)
    <3> HIDE DEF E, B
    <3> QED BY <1>1, <1>2, ConnectActiveTrace DEF E, B
  <2>2. E = PartsOf(held) \cup {}
    BY <1>1, <1>3, <1>7, QpAndCqsFacts
  <2>3. B = PartsOf(held) \cup ConnParts
    <3>1. live \ {"req"} = PartsOf(held) \cup {"id"} \cup QpAndCqs \cup Chan
      BY <1>1, <1>3, <1>7, QpAndCqsFacts
    <3> QED BY <3>1, PartsAre
  <2> HIDE DEF E, B
  <2>4. E \in States(held, "gone") /\ B \in States(held, "conn")
    BY <1>4, <2>2, <2>3, StatesRule
  <2>5. F \subseteq Ends("req_connect", FALSE) /\ B \in Ends("req_connect", TRUE)
    BY <2>4, EndsIfDone, EndsIfFailed
  <2> HIDE DEF F
  <2>6. ReqConnect = ConnectActive(<<Rel("req")>>)
    BY <1>7 DEF ReqConnect
  <2> QED BY <1>5, <2>1, <2>5, <2>6, PlanRule
<1> QED BY <1>6, <1>7

(* What is live when the application has a connection.                     *)
LEMMA ConnIs ==
  ASSUME Idle, handle = "conn"
  PROVE  /\ \/ live = PartsOf(held) \cup ConnParts
            \/ live = PartsOf(held) \cup (ConnParts \cup {"conn_data"})
         /\ PartsOf(held) \cap Owned = {} /\ "conn_data" \notin ConnParts
         /\ "rcq" \in live => hasRcq
<1>1. PICK own \in Owns("conn") : live = PartsOf(held) \cup own
  BY IdleIs
<1>2. own = ConnParts \/ own = ConnParts \cup {"conn_data"}
  BY DEF Owns
<1>3. PartsOf(held) \cap Owned = {}
  BY PartsOfFacts
<1>4. "conn_data" \notin ConnParts /\ ("rcq" \in ConnParts => hasRcq)
  <2>1. {"conn_data", "rcq"} \cap ({"id"} \cup NewParts) = {}
    BY DEF NewParts, FlushParts
  <2> QED BY <2>1, PartsAre, QpAndCqsFacts
<1>5. "rcq" \notin PartsOf(held)
  BY <1>3 DEF Owned, AnyCq
<1> QED BY <1>1, <1>2, <1>3, <1>4, <1>5

(* rpma_conn_next_event()                                                  *)
LEMMA NextEventPlan ==
  ASSUME Idle, handle = "conn" PROVE Planned("next_event", NextEvent, live)
<1> DEFINE A0 == live \ {"conn_data"}
           F == {live, A0}
           B == IF hasData THEN live \cup {"conn_data"} ELSE live
           withData == ConnParts \cup {"conn_data"}
<1>1. /\ live = PartsOf(held) \cup ConnParts \/ live = PartsOf(held) \cup withData
      /\ PartsOf(held) \cap Owned = {} /\ "conn_data" \notin ConnParts
  BY ConnIs
<1>2. ConnParts \in Owns("conn") /\ withData \in Owns("conn")
  BY DEF Owns
<1>3. "conn_data" \notin PartsOf(held)
  BY <1>1 DEF Owned
<1>4. A0 = PartsOf(held) \cup ConnParts
  BY <1>1, <1>3
<1>5. B = live \/ B = PartsOf(held) \cup withData
  BY <1>1
<1>6. Traced(NextEvent, Running(F, Quiet), live, B)
  <2> HIDE DEF F, B
  <2> QED BY NextEventTrace DEF F, B, Idle, Types
<1> HIDE DEF A0, B, withData
<1>7. live \in States(held, "conn") /\ A0 \in States(held, "conn") /\ B \in States(held, "conn")
  BY <1>1, <1>2, <1>4, <1>5, StatesRule
<1>8. F \subseteq Ends("next_event", FALSE) /\ B \in Ends("next_event", TRUE) /\ May("next_event") = Quiet
  BY <1>7, EndsIfDone, EndsIfFailed DEF May
<1> HIDE DEF F
<1> QED BY <1>6, <1>8, PlanRule

(* rpma_conn_delete()                                                      *)
LEMMA ConnDeletePlan ==
  ASSUME Idle, handle = "conn"
  PROVE  Undone("conn_delete", ConnDelete(<<ReturnErr>>), live) /\ EndsIn(ConnDelete(<<ReturnErr>>), {"return"})
<1> DEFINE M == live \ Conn
           W == {"return"}
<1>1. /\ \/ live = PartsOf(held) \cup ConnParts
         \/ live = PartsOf(held) \cup (ConnParts \cup {"conn_data"})
      /\ PartsOf(held) \cap Owned = {}
  BY ConnIs
<1>2. Conn \subseteq Owned /\ Conn = ConnParts \cup {"conn_data"} /\ "conn_data" \notin ConnParts
  BY ConnIs, PartsAre, QpAndCqsFacts DEF Conn, Owned
<1>3. M = PartsOf(held) \cup {} /\ Conn \ {"conn_data"} \subseteq live
  <2>1. PartsOf(held) \cap Conn = {} /\ ConnParts \subseteq Conn /\ "conn_data" \in Conn
    BY <1>1, <1>2
  <2> QED BY <1>1, <1>2, <2>1
<1>4. M \in Sets /\ live \in Sets
  BY DEF Idle, Types, Sets
<1>5. "rcq" \in live => hasRcq
  BY ConnIs
<1>6. {} \in Owns("gone")
  BY DEF Owns
<1> HIDE DEF M
<1>7. M \in Ends("conn_delete", FALSE)
  <2>1. M \in States(held, "gone")
    BY <1>3, <1>6, StatesRule
  <2> QED BY <2>1, EndsIfFailed
<1>8. Traced(<<ReturnErr>>, Undoing(W), M, M) /\ EndsIn(<<ReturnErr>>, W)
  BY <1>4, ReturnRule
<1> HIDE DEF W
<1>9. Traced(ConnDelete(<<ReturnErr>>), Deleting(M, W), live, M) /\ EndsIn(ConnDelete(<<ReturnErr>>), W)
  BY <1>3, <1>4, <1>5, <1>8, ConnDeleteTrace DEF M
<1>10. How("conn_delete") = W
  BY DEF How, Deletions, W
<1> QED BY <1>7, <1>9, <1>10 DEF Undone, W

-----------------------------------------------------------------------------
(* What does not change while the configuration and the handles do not.    *)
LEMMA Configured ==
  ASSUME config' = config
  PROVE  /\ side' = side /\ shared' = shared /\ hasRcq' = hasRcq /\ hasData' = hasData /\ odp' = odp
BY SMT DEF config

(* What something is built on depends on the configuration alone, and so   *)
(* do the steps a program may take.                                        *)
LEMMA RunningSame ==
  ASSUME config' = config, NEW F, NEW Q
  PROVE  Running(F, Q)' = Running(F, Q)
<1>1. ASSUME NEW r, NEW A PROVE BuiltOn(r, A)' = BuiltOn(r, A)
  BY SMT, Configured DEF BuiltOn, Uses
<1>2. ASSUME NEW x, NEW A, NEW B PROVE GetStep(x, A, B)' = GetStep(x, A, B)
  BY <1>1 DEF GetStep
<1> QED BY <1>2 DEF Running

(* The order of what is live.                                              *)
LEMMA OrderedSame ==
  ASSUME config' = config, NEW A
  PROVE  Ordered(A)' = Ordered(A)
<1>1. ASSUME NEW r, r # "id" PROVE Uses(r)' = Uses(r)
  BY SMT, <1>1, Configured DEF Uses
<1> QED BY <1>1 DEF Ordered

(* What the handles own.                                                   *)
LEMMA StatesSame ==
  ASSUME config' = config, NEW hd, NEW hn
  PROVE  States(hd, hn)' = States(hd, hn)
<1>1. CqParts' = CqParts
  BY SMT, Configured DEF CqParts
<1>2. ReqParts' = ReqParts /\ ConnParts' = ConnParts
  BY <1>1 DEF ReqParts, ConnParts
<1>3. Owns(hn)' = Owns(hn)
  BY SMTT(30), <1>2, Configured DEF Owns
<1> QED BY <1>3 DEF States

(* What a call leaves.                                                     *)
LEMMA EndsSame ==
  ASSUME config' = config, handles' = handles, NEW c, NEW ok
  PROVE  Ends(c, ok)' = Ends(c, ok)
<1>1. held' = held /\ handle' = handle
  BY SMT DEF handles
<1>2. HeldAfter(c, ok)' = HeldAfter(c, ok) /\ HandleAfter(c, ok)' = HandleAfter(c, ok)
  BY <1>1 DEF HeldAfter, HandleAfter
<1> QED BY <1>2, StatesSame DEF Ends

(* The plan of a call.                                                     *)
LEMMA PlanSame ==
  ASSUME config' = config, handles' = handles, NEW c, NEW p, NEW A
  PROVE  Planned(c, p, A)' = Planned(c, p, A) /\ Undone(c, p, A)' = Undone(c, p, A)
<1>1. Ends(c, TRUE)' = Ends(c, TRUE) /\ Ends(c, FALSE)' = Ends(c, FALSE)
  BY EndsSame
<1>2. Running(Ends(c, FALSE), May(c))' = Running(Ends(c, FALSE), May(c))
  BY <1>1, RunningSame
<1> QED BY <1>1, <1>2 DEF Planned, Undone

-----------------------------------------------------------------------------
(* Is the call in progress one that deletes, or that has failed?           *)
Doing == call \in Deletions \/ ret # "0"
Rest(p, A) == IF Doing THEN Undone(call, p, A) ELSE Planned(call, p, A)

(* A failed acquisition that is tried once more, with On-Demand Paging.    *)
LEMMA RetryRule ==
  ASSUME NEW F, NEW Q, NEW x \in Instr2, NEW A \in Sets, NEW B \in Sets, GetStep(x, A, B),
         NEW f \in F, Traced(x.alt, Deleting(f, Others), A, f), NEW p, NEW C, Traced(p, Running(F, Q), B, C)
  PROVE  Traced(<<Get(x.r, x.alt)>> \o p, Running(F, Q), A, C)
<1> DEFINE y == Get(x.r, x.alt)
<1>1. y.op = "get" /\ y.r = x.r /\ y.alt = x.alt
  BY DEF Get
<1>2. y \in Instr2
  BY SMT DEF Get, Instr2, Ops
<1> HIDE DEF y
<1>3. GetStep(y, A, B)
  BY <1>1 DEF GetStep
<1>4. <<y, A, B>> \in Running(F, Q)
  BY <1>1, <1>2, <1>3, RunningIs
<1>5. Traced(<<y>>, Running(F, Q), A, B)
  BY <1>2, <1>4, Single
<1> QED BY <1>5, Then DEF y

(* The next instruction of the call in progress, and the rest.             *)
LEMMA HeadIs ==
  ASSUME Types, Plan, call # "idle", prog # <<>>, NEW x, x = Head(prog)
  PROVE  \E M \in Sets :
           /\ Rest(Tail(prog), M)
           /\ \/ PlainStep(x, live, M) /\ (~Doing /\ x.op = "rel" => x.r \in May(call))
              \/ Doing /\ x.op = "return" /\ call \in Deletions /\ M = live
              \/ /\ Doing /\ x.op = "goto" /\ M = live
                 /\ EndsIn(x.alt, How(call)) /\ Undone(call, x.alt, live)
              \/ /\ ~Doing /\ GetStep(x, live, M) /\ Undone(call, x.alt, live)
                 /\ Planned(call, <<Get(x.r, x.alt)>> \o Tail(prog), live)
<1>1. CASE Doing
  <2> DEFINE W == How(call)
  <2>1. PICK e \in Ends(call, FALSE) : Traced(prog, Deleting(e, W), live, e)
    BY <1>1 DEF Plan, Undone, Doing
  <2>2. PICK M : <<x, live, M>> \in Deleting(e, W) /\ Traced(Tail(prog), Deleting(e, W), M, e)
    BY <2>1, FirstAndRest
  <2>3. Rest(Tail(prog), M)
    BY <1>1, <2>2 DEF Rest, Undone
  <2> HIDE DEF W
  <2>4. CASE <<x, live, M>> \in Plain
    <3>1. M \in Sets /\ PlainStep(x, live, M)
      BY <2>4, PlainIs
    <3> QED BY <1>1, <2>3, <3>1
  <2>5. CASE x.op = "return" /\ "return" \in W /\ M = live
    <3>1. call \in Deletions
      BY <2>5 DEF W, How, Others
    <3> QED BY <1>1, <2>3, <2>5, <3>1 DEF Types
  <2>6. CASE M = live /\ x.op = "goto" /\ EndsIn(x.alt, W) /\ Traced(x.alt, Undoing(W), live, e)
    <3>1. Traced(x.alt, Deleting(e, W), live, e)
      BY <2>6, UndoingDeletes
    <3>2. Undone(call, x.alt, live)
      BY <3>1 DEF Undone, W
    <3> QED BY ZenonT(30), <1>1, <2>3, <2>6, <3>2 DEF Types, W
  <2>7. <<x, live, M>> \in Undoing(W)
        \/ (M = live /\ x.op = "goto" /\ EndsIn(x.alt, W) /\ Traced(x.alt, Undoing(W), live, e))
    BY SMT, <2>2, DeletingIs
  <2>8. <<x, live, M>> \in Undoing(W) =>
          <<x, live, M>> \in Plain \/ (x.op = "return" /\ "return" \in W /\ M = live)
    BY SMTT(30), UndoingIs
  <2> QED BY <2>4, <2>5, <2>6, <2>7, <2>8
<1>2. CASE ~Doing
  <2> DEFINE F == Ends(call, FALSE)
             Q == May(call)
  <2>1. PICK e \in Ends(call, TRUE) : Traced(prog, Running(F, Q), live, e)
    BY <1>2 DEF Plan, Planned, Doing
  <2>2. PICK M : <<x, live, M>> \in Running(F, Q) /\ Traced(Tail(prog), Running(F, Q), M, e)
    BY <2>1, FirstAndRest
  <2>3. Rest(Tail(prog), M)
    BY <1>2, <2>2 DEF Rest, Planned
  <2>4. How(call) = Others
    BY <1>2 DEF Doing, How
  <2> HIDE DEF F, Q
  <2>5. CASE <<x, live, M>> \in Plain /\ (x.op = "rel" => x.r \in Q)
    <3>1. M \in Sets /\ PlainStep(x, live, M)
      BY <2>5, PlainIs
    <3> QED BY <1>2, <2>3, <2>5, <3>1 DEF Q
  <2>6. CASE /\ x \in Instr2 /\ live \in Sets /\ M \in Sets /\ GetStep(x, live, M)
             /\ \E f \in F : Traced(x.alt, Deleting(f, Others), live, f)
    <3>1. PICK f \in F : Traced(x.alt, Deleting(f, Others), live, f)
      BY <2>6
    <3>2. Undone(call, x.alt, live)
      BY <2>4, <3>1 DEF Undone, F
    <3>3. Traced(<<Get(x.r, x.alt)>> \o Tail(prog), Running(F, Q), live, e)
      BY <2>2, <2>6, <3>1, RetryRule
    <3>4. Planned(call, <<Get(x.r, x.alt)>> \o Tail(prog), live)
      BY <2>1, <3>3 DEF Planned, F, Q
    <3> QED BY <1>2, <2>3, <2>6, <3>2, <3>4
  <2> QED BY <2>2, <2>5, <2>6, RunningIs
<1> QED BY <1>1, <1>2

(* An acquisition, when it is not a deletion's turn: what it takes if it   *)
(* succeeds, if it fails and if it is tried again.                         *)
LEMMA HeadGet ==
  ASSUME Types, Plan, call # "idle", prog # <<>>, NEW x, x = Head(prog), x.op \in {"get", "reg"}
  PROVE  /\ call \notin Deletions /\ ret = "0"
         /\ \E M \in Sets : GetStep(x, live, M) /\ Planned(call, Tail(prog), M)
         /\ Undone(call, x.alt, live)
         /\ Planned(call, <<Get(x.r, x.alt)>> \o Tail(prog), live)
<1>1. PICK M \in Sets :
           /\ Rest(Tail(prog), M)
           /\ \/ PlainStep(x, live, M)
              \/ x.op = "return"
              \/ x.op = "goto"
              \/ /\ ~Doing /\ GetStep(x, live, M) /\ Undone(call, x.alt, live)
                 /\ Planned(call, <<Get(x.r, x.alt)>> \o Tail(prog), live)
  BY HeadIs
<1>2. ~PlainStep(x, live, M) /\ x.op # "return" /\ x.op # "goto"
  BY DEF PlainStep
<1>3. /\ ~Doing /\ GetStep(x, live, M) /\ Undone(call, x.alt, live)
      /\ Planned(call, <<Get(x.r, x.alt)>> \o Tail(prog), live)
  BY <1>1, <1>2
<1> QED BY <1>1, <1>3 DEF Rest, Doing

(* A release, or another instruction that goes on in any case.             *)
LEMMA HeadPlain ==
  ASSUME Types, Plan, call # "idle", prog # <<>>, NEW x, x = Head(prog),
         x.op \in {"rel", "drop", "move", "do"}
  PROVE  \E M \in Sets : /\ Rest(Tail(prog), M) /\ PlainStep(x, live, M)
                         /\ ~Doing /\ x.op = "rel" => x.r \in May(call)
<1>1. PICK M \in Sets :
           /\ Rest(Tail(prog), M)
           /\ \/ PlainStep(x, live, M) /\ (~Doing /\ x.op = "rel" => x.r \in May(call))
              \/ x.op = "return"
              \/ x.op = "goto"
              \/ GetStep(x, live, M)
  BY HeadIs
<1>2. ~GetStep(x, live, M)
  BY DEF GetStep
<1> QED BY <1>1, <1>2

(* The jump of a deletion.                                                 *)
LEMMA HeadGoto ==
  ASSUME Types, Plan, call # "idle", prog # <<>>, NEW x, x = Head(prog), x.op = "goto"
  PROVE  /\ Doing /\ EndsIn(x.alt, How(call)) /\ Undone(call, x.alt, live) /\ Undone(call, Tail(prog), live)
<1>1. PICK M \in Sets :
           /\ Rest(Tail(prog), M)
           /\ \/ PlainStep(x, live, M)
              \/ x.op = "return"
              \/ /\ Doing /\ M = live
                 /\ EndsIn(x.alt, How(call)) /\ Undone(call, x.alt, live)
              \/ GetStep(x, live, M)
  BY HeadIs
<1>2. ~PlainStep(x, live, M) /\ ~GetStep(x, live, M)
  BY DEF PlainStep, GetStep
<1>3. Doing /\ M = live /\ EndsIn(x.alt, How(call)) /\ Undone(call, x.alt, live)
  BY <1>1, <1>2
<1> QED BY <1>1, <1>3 DEF Rest

(* The end of a deletion.                                                  *)
LEMMA HeadReturn ==
  ASSUME Types, Plan, call # "idle", prog # <<>>, NEW x, x = Head(prog), x.op = "return"
  PROVE  call \in Deletions /\ Undone(call, Tail(prog), live)
<1>1. PICK M \in Sets :
           /\ Rest(Tail(prog), M)
           /\ \/ PlainStep(x, live, M)
              \/ Doing /\ call \in Deletions /\ M = live
              \/ x.op = "goto"
              \/ GetStep(x, live, M)
  BY HeadIs
<1>2. ~PlainStep(x, live, M) /\ ~GetStep(x, live, M)
  BY DEF PlainStep, GetStep
<1> QED BY <1>1, <1>2 DEF Rest

-----------------------------------------------------------------------------
(* What is built on t is one of its users.                                 *)
LEMMA UsesFacts ==
  ASSUME NEW s, s # "id", NEW t \in Uses(s)
  PROVE  s \in Users(t) /\ t \notin {"on_evch", "req_data", "conn_data"}
BY SMT DEF Uses, Users, OwnChannel

(* Releases keep the order.                                                *)
LEMMA OrderedPlain ==
  ASSUME NEW A, Ordered(A), NEW x, NEW B, PlainStep(x, A, B)
  PROVE  Ordered(B)
<1>1. CASE x.r \in A /\ Users(x.r) \cap A = {} /\ B = A \ Lost(x.r)
  <2>1. Lost(x.r) \subseteq {x.r, "on_evch"}
    BY DEF Lost
  <2>2. ASSUME NEW s \in B \ {"id"}, NEW t \in Uses(s) PROVE t \in B
    <3>1. t \in A /\ s \in A /\ s # "id"
      BY <1>1, <2>2 DEF Ordered
    <3>2. s \in Users(t) /\ t # "on_evch"
      BY <2>2, <3>1, UsesFacts
    <3>3. t # x.r
      BY <1>1, <3>1, <3>2
    <3> QED BY <1>1, <2>1, <3>1, <3>2, <3>3
  <2>3. ASSUME {"id", "on_evch"} \subseteq B PROVE "evch" \in B
    <3>1. "evch" \in A /\ "on_evch" \in A
      BY <1>1, <2>3 DEF Ordered
    <3>2. Users("evch") = {"on_evch"}
      BY DEF Users
    <3>3. x.r # "evch"
      BY <1>1, <3>1, <3>2
    <3> QED BY <1>1, <2>1, <3>1, <3>3
  <2> QED BY <2>2, <2>3 DEF Ordered
<1>2. CASE \E r \in {"req_data", "conn_data"} : B \in {A \ {r}, (A \ {r}) \cup {"conn_data"}, A}
  <2>1. PICK r \in {"req_data", "conn_data"} : B \in {A \ {r}, (A \ {r}) \cup {"conn_data"}, A}
    BY <1>2
  <2>2. Uses("conn_data") = {}
    BY DEF Uses
  <2>3. ASSUME NEW s \in B \ {"id"}, NEW t \in Uses(s) PROVE t \in B
    <3>1. s # "conn_data" /\ s # "id"
      BY <2>2, <2>3
    <3>2. s \in A \ {"id"}
      BY <2>1, <2>3, <3>1
    <3>3. t \in A /\ t \notin {"req_data", "conn_data"}
      BY <2>3, <3>2, UsesFacts DEF Ordered
    <3> QED BY <2>1, <3>3
  <2>4. {"id", "on_evch"} \subseteq B => "evch" \in B
    BY <2>1 DEF Ordered
  <2> QED BY <2>3, <2>4 DEF Ordered
<1> QED BY <1>1, <1>2 DEF PlainStep

(* What is acquired has what it is built on.                               *)
LEMMA OrderedGet ==
  ASSUME NEW A, Ordered(A), NEW x, NEW B, GetStep(x, A, B)
  PROVE  Ordered(B)
<1>1. BuiltOn(x.r, A) /\ B = A \cup ({x.r} \ {"none"})
  BY DEF GetStep
<1>2. ASSUME NEW s \in B \ {"id"} PROVE Uses(s) \subseteq B
  <2>1. CASE s \in A
    BY <1>1, <1>2, <2>1 DEF Ordered
  <2>2. CASE s = x.r /\ s = "on_evch"
    <3>1. Uses("on_evch") = {}
      BY DEF Uses
    <3> QED BY <2>2, <3>1
  <2>3. CASE s = x.r /\ s # "on_evch"
    <3>1. Uses(s) \subseteq A
      BY <1>1, <1>2, <2>3 DEF BuiltOn
    <3> QED BY <1>1, <3>1
  <2> QED BY <1>1, <1>2, <2>1, <2>2, <2>3
<1>3. ASSUME {"id", "on_evch"} \subseteq B PROVE "evch" \in B
  <2>1. x.r = "id" => "on_evch" \notin A
    BY <1>1 DEF BuiltOn
  <2>2. x.r = "on_evch" => "evch" \in A
    BY <1>1 DEF BuiltOn
  <2> QED BY <1>1, <1>3, <2>1, <2>2 DEF Ordered
<1> QED BY <1>2, <1>3 DEF Ordered

-----------------------------------------------------------------------------
(* The program of a plan is a program.                                     *)
LEMMA PlanIsProgram ==
  ASSUME NEW c, NEW p, NEW A, Planned(c, p, A) \/ Undone(c, p, A)
  PROVE  p \in Seq(Instr2)
BY DEF Planned, Undone, Traced

(* What a step of the call in progress must keep.                          *)
LEMMA StepKeeps ==
  ASSUME Inv, call # "idle", config' = config, handles' = handles, call' = call,
         live' \in Sets, Ordered(live'), stuck' \subseteq Fallible, failed' \in BOOLEAN,
         err' \in Codes, ret' \in Codes, Reports',
         IF call \in Deletions \/ ret' # "0" THEN Undone(call, prog', live') ELSE Planned(call, prog', live')
  PROVE  Inv'
<1>1. held' = held /\ handle' = handle
  BY SMT DEF handles
<1>2. side' = side /\ shared' = shared /\ hasRcq' = hasRcq /\ hasData' = hasData /\ odp' = odp
  BY Configured
<1>3. Plan'
  <2>1. PICK c, p, A : c = call' /\ p = prog' /\ A = live'
    OBVIOUS
  <2>2. Planned(c, p, A)' = Planned(c, p, A) /\ Undone(c, p, A)' = Undone(c, p, A)
    BY PlanSame
  <2>3. IF c \in Deletions \/ ret' # "0" THEN Undone(c, p, A)' ELSE Planned(c, p, A)'
    BY ZenonT(30), <2>1, <2>2
  <2> QED BY <2>1, <2>3 DEF Plan
<1>4. prog' \in Seq(Instr2)
  BY PlanIsProgram
<1>5. Types'
  BY <1>1, <1>2, <1>4 DEF Inv, Types
<1>6. Order'
  BY <1>1, <1>2 DEF Inv, Order
<1>7. Ordered(live)'
  BY OrderedSame
<1> QED BY <1>3, <1>5, <1>6, <1>7 DEF Inv

(* Errors are not lost when the program goes on.                           *)
LEMMA TailReports ==
  ASSUME Inv, call # "idle", prog # <<>>, Head(prog).op # "return", prog' = Tail(prog),
         call' = call, ret' = ret, failed' => err' # "0",
         call \notin Deletions \cup {"idle", "get_context"} /\ ret = "0" => ~failed'
  PROVE  Reports'
<1>1. ASSUME call \in Deletions PROVE prog' # <<>> /\ EndsIn(prog', {"return"})
  <2> DEFINE W == {"return"}
  <2>1. prog \in Seq(Instr2) /\ EndsIn(prog, W)
    BY <1>1 DEF Inv, Types, Reports
  <2> HIDE DEF W
  <2>2. IF Tail(prog) = <<>> THEN Head(prog).op \in W ELSE EndsIn(Tail(prog), W)
    BY <2>1, TailEnds
  <2> QED BY <2>2 DEF W
<1> QED BY <1>1 DEF Reports

(* An acquisition that succeeds.                                           *)
LEMMA GetOkKeeps == ASSUME Inv, GetOk PROVE Inv'
<1> DEFINE x == Head(prog)
<1>1. /\ prog # <<>> /\ x.op \in {"get", "reg"} /\ live' = live \cup ({x.r} \ {"none"}) /\ prog' = Tail(prog)
      /\ config' = config /\ handles' = handles /\ call' = call /\ ret' = ret /\ err' = err
      /\ stuck' = stuck /\ failed' = failed
  BY DEF GetOk, Instr
<1>2. Types /\ Plan /\ Ordered(live) /\ call # "idle"
  BY <1>1 DEF Inv, Types
<1> HIDE DEF x
<1>3. call \notin Deletions /\ ret = "0" /\ \E M \in Sets : GetStep(x, live, M) /\ Planned(call, Tail(prog), M)
  BY <1>1, <1>2, HeadGet DEF x
<1>4. PICK M \in Sets : GetStep(x, live, M) /\ Planned(call, Tail(prog), M)
  BY <1>3
<1>5. M = live'
  BY <1>1, <1>4 DEF GetStep
<1>6. Ordered(live')
  BY <1>2, <1>4, <1>5, OrderedGet
<1>7. Reports'
  BY <1>1, <1>3 DEF Inv, Reports
<1>8. /\ stuck' \subseteq Fallible /\ failed' \in BOOLEAN /\ err' \in Codes /\ ret' \in Codes
  BY <1>1, <1>2 DEF Types
<1> QED BY ZenonT(30), <1>1, <1>2, <1>3, <1>4, <1>5, <1>6, <1>7, <1>8, StepKeeps

(* An acquisition that fails.                                              *)
LEMMA GetFailsKeeps == ASSUME Inv, GetFails PROVE Inv'
<1> DEFINE x == Head(prog)
<1>1. /\ prog # <<>> /\ x.op \in {"get", "reg"} /\ live' = live /\ prog' = x.alt
      /\ config' = config /\ handles' = handles /\ call' = call /\ err' = err
      /\ stuck' = stuck /\ failed' = failed
  BY DEF GetFails, Instr
<1>2. ret' \in Codes \ {"0"}
  <2>1. GetErrors(x.r) \subseteq Codes \ {"0"}
    BY DEF GetErrors, Codes
  <2> QED BY <2>1 DEF GetFails
<1>3. Types /\ Plan /\ Ordered(live) /\ call # "idle"
  BY <1>1 DEF Inv, Types
<1> HIDE DEF x
<1>4. call \notin Deletions /\ Undone(call, x.alt, live)
  BY <1>1, <1>3, HeadGet DEF x
<1>5. Reports'
  BY <1>1, <1>2, <1>4 DEF Inv, Reports
<1>6. /\ stuck' \subseteq Fallible /\ failed' \in BOOLEAN /\ err' \in Codes /\ live' \in Sets
  BY <1>1, <1>3 DEF Types
<1> QED BY <1>1, <1>2, <1>3, <1>4, <1>5, <1>6, StepKeeps

(* A registration that is tried once more.                                 *)
LEMMA RegRetryKeeps == ASSUME Inv, RegRetry PROVE Inv'
<1> DEFINE x == Head(prog)
<1>1. /\ prog # <<>> /\ x.op \in {"get", "reg"} /\ live' = live /\ prog' = <<Get(x.r, x.alt)>> \o Tail(prog)
      /\ config' = config /\ handles' = handles /\ call' = call /\ err' = err /\ ret' = ret
      /\ stuck' = stuck /\ failed' = failed
  BY DEF RegRetry, Instr
<1>2. Types /\ Plan /\ Ordered(live) /\ call # "idle"
  BY <1>1 DEF Inv, Types
<1> HIDE DEF x
<1>3. call \notin Deletions /\ ret = "0" /\ Planned(call, <<Get(x.r, x.alt)>> \o Tail(prog), live)
  BY <1>1, <1>2, HeadGet DEF x
<1>4. Reports'
  BY <1>1, <1>3 DEF Inv, Reports
<1>5. /\ stuck' \subseteq Fallible /\ failed' \in BOOLEAN /\ err' \in Codes /\ live' \in Sets /\ ret' \in Codes
  BY <1>1, <1>2 DEF Types
<1> QED BY <1>1, <1>2, <1>3, <1>4, <1>5, StepKeeps

(* A step that goes on, whatever it releases: what is left of the proof is *)
(* what is live, and what is reported.                                     *)
LEMMA GoesOn ==
  ASSUME Inv, prog # <<>>, call # "idle", NEW x, x = Head(prog), x.op \in {"rel", "drop", "move", "do"},
         \A M : PlainStep(x, live, M) => M = live',
         prog' = Tail(prog), config' = config, handles' = handles, call' = call, ret' = ret,
         stuck' \subseteq Fallible, failed' \in BOOLEAN, err' \in Codes, failed' => err' # "0",
         (call \notin Deletions /\ ret = "0" /\ (x.op = "rel" => x.r \in May(call))) =>
            (call # "get_context" => ~failed')
  PROVE  Inv'
<1>1. Types /\ Plan /\ Ordered(live)
  BY DEF Inv
<1>2. PICK M \in Sets : /\ Rest(Tail(prog), M) /\ PlainStep(x, live, M)
                        /\ ~Doing /\ x.op = "rel" => x.r \in May(call)
  BY <1>1, HeadPlain
<1>3. M = live'
  BY <1>2
<1>4. Ordered(live')
  BY <1>1, <1>2, <1>3, OrderedPlain
<1>5. IF call \in Deletions \/ ret' # "0" THEN Undone(call, prog', live') ELSE Planned(call, prog', live')
  BY <1>2, <1>3 DEF Rest, Doing
<1>6. Reports'
  <2>1. call \notin Deletions \cup {"idle", "get_context"} /\ ret = "0" => ~failed'
    BY <1>2 DEF Doing
  <2>2. Head(prog).op # "return"
    OBVIOUS
  <2> QED BY <2>1, <2>2, TailReports
<1>7. ret' \in Codes /\ live' \in Sets
  BY <1>1, <1>2, <1>3 DEF Types
<1> QED BY <1>4, <1>5, <1>6, <1>7, StepKeeps

(* A release that succeeds.                                                *)
LEMMA RelOkKeeps == ASSUME Inv, RelOk PROVE Inv'
<1> DEFINE x == Head(prog)
<1>1. /\ prog # <<>> /\ x.op = "rel" /\ live' = live \ Lost(x.r) /\ prog' = Tail(prog)
      /\ config' = config /\ handles' = handles /\ call' = call /\ ret' = ret /\ err' = err
      /\ stuck' = stuck /\ failed' = failed
  BY DEF RelOk, Instr
<1>2. Types /\ Reports /\ call # "idle"
  BY <1>1 DEF Inv, Types
<1>3. \A M : PlainStep(x, live, M) => M = live'
  BY <1>1 DEF PlainStep
<1>4. /\ stuck' \subseteq Fallible /\ failed' \in BOOLEAN /\ err' \in Codes
  BY <1>1, <1>2 DEF Types
<1>5. (failed' => err' # "0") /\ (call \notin Deletions \cup {"idle", "get_context"} /\ ret = "0" => ~failed')
  BY <1>1, <1>2 DEF Reports
<1> HIDE DEF x
<1> QED BY <1>1, <1>2, <1>3, <1>4, <1>5, GoesOn DEF x

(* Only these releases can fail: the status of the others is ignored or    *)
(* they have none, and only the channels and the protection domain can be  *)
(* busy.                                                                   *)
LEMMA FailsIsFallible == ASSUME NEW r, r \in ReleaseMayFail \/ Busy(r) PROVE r \in Fallible
<1>1. CASE r \in ReleaseMayFail
  BY <1>1, LifecycleAssumption
<1>2. CASE Busy(r)
  <2>1. PICK q \in {"cq", "rcq", "mr", "raw_mr"} : r \in Uses(q) \ {"raw"}
    BY <1>2 DEF Busy
  <2>2. r \in {"channel", "cq_channel", "rcq_channel", "pd"}
    BY SMT, <2>1 DEF Uses, OwnChannel
  <2> QED BY <2>2 DEF Fallible
<1> QED BY <1>1, <1>2

(* A release that fails.                                                   *)
LEMMA RelFailsKeeps == ASSUME Inv, RelFails PROVE Inv'
<1> DEFINE x == Head(prog)
<1>1. /\ prog # <<>> /\ x.op = "rel" /\ live' = live \ Lost(x.r) /\ prog' = Tail(prog)
      /\ config' = config /\ handles' = handles /\ call' = call /\ ret' = ret
      /\ (x.r \in ReleaseMayFail \/ Busy(x.r)) /\ NoteError(RelError(x.r))
      /\ stuck' = stuck \cup {x.r} /\ failed' = TRUE
  BY DEF RelFails, Instr
<1>2. Types /\ Reports /\ call # "idle"
  BY <1>1 DEF Inv, Types
<1>3. \A M : PlainStep(x, live, M) => M = live'
  BY <1>1 DEF PlainStep
<1>4. x.r \in Fallible
  BY <1>1, FailsIsFallible
<1>5. err' \in Codes \ {"0"}
  <2>1. RelError(x.r) \in Codes \ {"0"}
    BY DEF RelError, Codes
  <2> QED BY <1>1, <1>2, <2>1 DEF NoteError, Types
<1>6. stuck' \subseteq Fallible /\ failed' \in BOOLEAN
  BY <1>1, <1>2, <1>4 DEF Types
<1>7. x.r \notin Quiet
  BY <1>4 DEF Quiet
<1>8. (call \notin Deletions /\ ret = "0" /\ (x.op = "rel" => x.r \in May(call))) =>
         (call # "get_context" => ~failed')
  BY <1>1, <1>7 DEF May
<1> HIDE DEF x
<1> QED BY <1>1, <1>2, <1>3, <1>5, <1>6, <1>8, GoesOn DEF x

(* Private data that is freed.                                             *)
LEMMA DropDataKeeps == ASSUME Inv, DropData PROVE Inv'
<1> DEFINE x == Head(prog)
<1>1. /\ prog # <<>> /\ x.op = "drop" /\ live' = live \ {x.r} /\ prog' = Tail(prog)
      /\ config' = config /\ handles' = handles /\ call' = call /\ ret' = ret /\ err' = err
      /\ stuck' = stuck /\ failed' = failed
  BY DEF DropData, Instr
<1>2. Types /\ Reports /\ call # "idle"
  BY <1>1 DEF Inv, Types
<1>3. \A M : PlainStep(x, live, M) => M = live'
  BY <1>1 DEF PlainStep
<1>4. /\ stuck' \subseteq Fallible /\ failed' \in BOOLEAN /\ err' \in Codes
  BY <1>1, <1>2 DEF Types
<1>5. (failed' => err' # "0") /\ (call \notin Deletions \cup {"idle", "get_context"} /\ ret = "0" => ~failed')
  BY <1>1, <1>2 DEF Reports
<1> HIDE DEF x
<1> QED BY <1>1, <1>2, <1>3, <1>4, <1>5, GoesOn DEF x

(* Private data that the connection takes over.                            *)
LEMMA MoveDataKeeps == ASSUME Inv, MoveData PROVE Inv'
<1> DEFINE x == Head(prog)
<1>1. /\ prog # <<>> /\ x.op = "move" /\ prog' = Tail(prog)
      /\ live' = (IF "req_data" \in live THEN (live \ {"req_data"}) \cup {"conn_data"} ELSE live)
      /\ config' = config /\ handles' = handles /\ call' = call /\ ret' = ret /\ err' = err
      /\ stuck' = stuck /\ failed' = failed
  BY DEF MoveData, Instr
<1>2. Types /\ Reports /\ call # "idle"
  BY <1>1 DEF Inv, Types
<1>3. \A M : PlainStep(x, live, M) => M = live'
  BY <1>1 DEF PlainStep
<1>4. /\ stuck' \subseteq Fallible /\ failed' \in BOOLEAN /\ err' \in Codes
  BY <1>1, <1>2 DEF Types
<1>5. (failed' => err' # "0") /\ (call \notin Deletions \cup {"idle", "get_context"} /\ ret = "0" => ~failed')
  BY <1>1, <1>2 DEF Reports
<1> HIDE DEF x
<1>6. x.op # "rel" /\ x.op \in {"rel", "drop", "move", "do"}
  BY <1>1
<1> QED BY <1>1, <1>2, <1>3, <1>4, <1>5, <1>6, GoesOn DEF x

(* A call whose failure is only noted.                                     *)
LEMMA DoCallKeeps == ASSUME Inv, DoCall PROVE Inv'
<1> DEFINE x == Head(prog)
<1>1. /\ prog # <<>> /\ x.op = "do" /\ prog' = Tail(prog) /\ live' = live
      /\ config' = config /\ handles' = handles /\ call' = call /\ ret' = ret
      /\ (err' = err \/ NoteError("RPMA_E_PROVIDER"))
      /\ stuck' = stuck /\ failed' = failed
  BY DEF DoCall, Instr
<1>2. Types /\ Reports /\ call # "idle"
  BY <1>1 DEF Inv, Types
<1>3. \A M : PlainStep(x, live, M) => M = live'
  BY <1>1 DEF PlainStep
<1>4. err' \in Codes /\ (err # "0" => err' # "0")
  BY <1>1, <1>2 DEF Types, NoteError, Codes
<1>5. /\ stuck' \subseteq Fallible /\ failed' \in BOOLEAN
  BY <1>1, <1>2 DEF Types
<1>6. (failed' => err' # "0") /\ (call \notin Deletions \cup {"idle", "get_context"} /\ ret = "0" => ~failed')
  BY <1>1, <1>2, <1>4 DEF Reports
<1> HIDE DEF x
<1> QED BY <1>1, <1>2, <1>3, <1>4, <1>5, <1>6, GoesOn DEF x

(* The jump of a deletion.                                                 *)
LEMMA CheckErrKeeps == ASSUME Inv, CheckErr PROVE Inv'
<1> DEFINE x == Head(prog)
<1>1. /\ prog # <<>> /\ x.op = "goto" /\ prog' = (IF err = "0" THEN Tail(prog) ELSE x.alt)
      /\ live' = live /\ config' = config /\ handles' = handles /\ call' = call /\ ret' = ret /\ err' = err
      /\ stuck' = stuck /\ failed' = failed
  BY DEF CheckErr, Instr
<1>2. Types /\ Plan /\ Ordered(live) /\ Reports /\ call # "idle"
  BY <1>1 DEF Inv, Types
<1>3. x.op # "return"
  BY <1>1
<1> HIDE DEF x
<1>4. Doing /\ EndsIn(x.alt, How(call)) /\ Undone(call, x.alt, live) /\ Undone(call, Tail(prog), live)
  BY <1>1, <1>2, HeadGoto DEF x
<1>5. Undone(call, prog', live')
  BY <1>1, <1>4
<1>6. (failed' => err' # "0") /\ (call \notin Deletions \cup {"idle", "get_context"} /\ ret = "0" => ~failed')
  BY <1>1, <1>2 DEF Reports
<1>7. Reports'
  <2>1. CASE err = "0"
    <3>1. prog' = Tail(prog)
      BY <1>1, <2>1
    <3> QED BY <1>1, <1>2, <1>3, <1>6, <3>1, TailReports DEF x
  <2>2. CASE err # "0"
    <3>1. prog' = x.alt
      BY <1>1, <2>2
    <3>2. call \in Deletions => prog' # <<>> /\ EndsIn(prog', {"return"})
      BY <1>4, <3>1 DEF How, EndsIn
    <3> QED BY <1>1, <1>6, <3>2 DEF Reports
  <2> QED BY <2>1, <2>2
<1>8. /\ stuck' \subseteq Fallible /\ failed' \in BOOLEAN /\ err' \in Codes /\ live' \in Sets /\ ret' \in Codes
  BY <1>1, <1>2 DEF Types
<1>9. call \in Deletions \/ ret' # "0"
  BY <1>1, <1>4 DEF Doing
<1>10. Ordered(live')
  BY <1>1, <1>2
<1> QED BY <1>1, <1>2, <1>5, <1>7, <1>8, <1>9, <1>10, StepKeeps

(* The end of a deletion.                                                  *)
LEMMA SetRetKeeps == ASSUME Inv, SetRet PROVE Inv'
<1> DEFINE x == Head(prog)
<1>1. /\ prog # <<>> /\ x.op = "return" /\ prog' = Tail(prog)
      /\ live' = live /\ config' = config /\ handles' = handles /\ call' = call /\ ret' = err /\ err' = err
      /\ stuck' = stuck /\ failed' = failed
  BY DEF SetRet, Instr
<1>2. Types /\ Plan /\ Ordered(live) /\ Reports /\ call # "idle"
  BY <1>1 DEF Inv, Types
<1> HIDE DEF x
<1>3. call \in Deletions /\ Undone(call, Tail(prog), live)
  BY <1>1, <1>2, HeadReturn DEF x
<1>4. Reports'
  <2> DEFINE W == {"return"}
  <2>1. prog \in Seq(Instr2) /\ EndsIn(prog, W)
    BY <1>1, <1>2, <1>3 DEF Types, Reports
  <2> HIDE DEF W
  <2>2. IF Tail(prog) = <<>> THEN Head(prog).op \in W ELSE EndsIn(Tail(prog), W)
    BY <1>1, <2>1, TailEnds
  <2>3. IF prog' = <<>> THEN ret' = err' ELSE EndsIn(prog', W)
    BY <1>1, <2>2
  <2>4. failed' => err' # "0"
    BY <1>1, <1>2 DEF Reports
  <2> QED BY <1>1, <1>3, <2>3, <2>4 DEF Reports, W
<1>5. /\ stuck' \subseteq Fallible /\ failed' \in BOOLEAN /\ err' \in Codes /\ live' \in Sets /\ ret' \in Codes
  BY <1>1, <1>2 DEF Types
<1>6. Ordered(live') /\ Undone(call, prog', live')
  BY <1>1, <1>2, <1>3
<1> QED BY ZenonT(30), <1>1, <1>2, <1>3, <1>4, <1>5, <1>6, StepKeeps

(* The end of a call: the handles own what it has left.                    *)
LEMMA ReturnKeeps == ASSUME Inv, Return PROVE Inv'
<1> DEFINE ok == ret = "0"
<1>1. /\ call # "idle" /\ prog = <<>> /\ call' = "idle"
      /\ live' = live /\ config' = config /\ prog' = prog /\ ret' = ret /\ err' = err
      /\ stuck' = stuck /\ failed' = failed
  BY DEF Return
<1>2. held' = HeldAfter(call, ok) /\ handle' = HandleAfter(call, ok)
  BY DEF Return, HeldAfter, HandleAfter
<1>3. Types /\ Plan /\ Ordered(live) /\ Order /\ Reports /\ call \in Calls
  BY <1>1 DEF Inv, Types
<1>4. live \in Ends(call, ok)
  <2>1. CASE ~Doing
    <3>1. PICK e \in Ends(call, TRUE) : Traced(<<>>, Running(Ends(call, FALSE), May(call)), live, e)
      BY <1>1, <1>3, <2>1 DEF Plan, Planned, Doing
    <3>2. live = e /\ ok = TRUE
      BY <2>1, <3>1, AtTheEnd DEF Doing
    <3> QED BY <3>2
  <2>2. CASE Doing
    <3>1. PICK e \in Ends(call, FALSE) : Traced(<<>>, Deleting(e, How(call)), live, e)
      BY <1>1, <1>3, <2>2 DEF Plan, Undone, Doing
    <3>2. live = e
      BY <3>1, AtTheEnd
    <3>3. CASE ~ok
      <4>1. ok = FALSE
        BY <3>3
      <4> QED BY <3>2, <4>1
    <3>4. CASE ok
      <4>1. ok = TRUE /\ call \in Deletions
        BY <2>2, <3>4 DEF Doing
      <4> QED BY <3>2, <4>1, DeletionEnds
    <3> QED BY <3>3, <3>4
  <2> QED BY <2>1, <2>2
<1>5. Plan'
  <2>1. PICK hd, hn : hd = held' /\ hn = handle'
    OBVIOUS
  <2>2. live \in States(hd, hn)
    BY <1>2, <1>4, <2>1 DEF Ends
  <2>3. live' \in States(hd, hn)'
    BY <1>1, <2>2, StatesSame
  <2> QED BY <1>1, <2>1, <2>3 DEF Plan
<1>6. ok \in BOOLEAN
  OBVIOUS
<1>7. side' = side /\ shared' = shared /\ hasRcq' = hasRcq /\ hasData' = hasData /\ odp' = odp
  BY <1>1, Configured
<1> HIDE DEF ok
<1>8. /\ held' \subseteq Handles /\ handle' \in {"none", "req", "conn", "gone"}
      /\ {"ep", "mr"} \cap held' # {} \/ handle' \in {"req", "conn"} => "peer" \in held'
      /\ "ep" \in held' => side = "passive"
  <2>1. /\ held \subseteq Handles /\ handle \in {"none", "req", "conn", "gone"}
        /\ {"ep", "mr"} \cap held # {} \/ handle \in {"req", "conn"} => "peer" \in held
        /\ "ep" \in held => side = "passive"
    BY <1>3 DEF Types, Order
  <2>2. CASE call \in {"get_context", "peer_new", "ep_shutdown", "mr_dereg"}
    <3>1. handle' = handle
      BY ZenonT(30), <1>2, <1>6, <2>2, AfterAre
    <3>2. held' \in {held, held \cup {"ctx"}, held \cup {"peer"}, held \ {"ep"}, held \ {"mr"}}
      BY ZenonT(30), <1>2, <1>6, <2>2, AfterAre
    <3> QED BY <2>1, <3>1, <3>2 DEF Handles
  <2>3. CASE call \in {"ep_listen", "mr_reg"}
    <3>1. handle' = handle
      BY ZenonT(30), <1>2, <1>6, <2>3, AfterAre
    <3>2. held' \in {held, held \cup {"mr"}} \/ (call = "ep_listen" /\ held' = held \cup {"ep"})
      BY ZenonT(30), <1>2, <1>6, <2>3, AfterAre
    <3>3. "peer" \in held /\ (call = "ep_listen" => side = "passive")
      BY <1>3, <2>3 DEF Order
    <3> QED BY <2>1, <3>1, <3>2, <3>3 DEF Handles
  <2>4. CASE call = "peer_delete"
    <3>1. handle' = handle /\ held' = held \ {"peer"}
      BY <1>2, <1>6, <2>4, AfterAre
    <3>2. {"ep", "mr"} \cap held = {} /\ handle \in {"none", "gone"}
      BY <1>3, <2>4 DEF Order
    <3> QED BY <2>1, <3>1, <3>2
  <2>5. CASE call \in {"req_new", "next_conn_req", "req_connect", "next_event", "req_delete", "conn_delete"}
    <3>1. held' = held /\ handle' \in {"req", "conn", "gone"}
      BY ZenonT(30), <1>2, <1>6, <2>5, AfterAre
    <3>2. "peer" \in held
      BY <1>3, <2>5 DEF Order
    <3> QED BY <2>1, <3>1, <3>2
  <2> QED BY <1>3, <2>2, <2>3, <2>4, <2>5 DEF Calls, Deletions
<1>9. Types'
  BY <1>1, <1>3, <1>7, <1>8 DEF Types
<1>10. Order'
  BY <1>1, <1>7, <1>8 DEF Order
<1>11. Reports'
  BY <1>1, <1>3 DEF Reports, Deletions
<1>12. Ordered(live)'
  <2>1. PICK A : A = live
    OBVIOUS
  <2>2. Ordered(A)'
    BY <1>1, <1>3, <2>1, OrderedSame
  <2> QED BY <1>1, <2>1, <2>2
<1> QED BY <1>5, <1>9, <1>10, <1>11, <1>12 DEF Inv

-----------------------------------------------------------------------------
(* The start of a call: the plan of its program.                           *)
LEMMA StartKeeps ==
  ASSUME Inv, call = "idle", NEW c \in Calls, NEW p, NEW A \in Sets, NEW x \in Codes,
         call' = c, prog' = p, live' = A, ret' = x, err' = "0", failed' = FALSE,
         config' = config, stuck' = stuck, handles' = handles,
         Ordered(A), Order',
         c \in Deletions \/ x # "0" => Undone(c, p, A),
         c \notin Deletions /\ x = "0" => Planned(c, p, A),
         c \in Deletions => EndsIn(p, {"return"})
  PROVE  Inv'
<1>1. side' = side /\ shared' = shared /\ hasRcq' = hasRcq /\ hasData' = hasData /\ odp' = odp
  BY Configured
<1>2. held' = held /\ handle' = handle
  BY SMT DEF handles
<1>3. c # "idle"
  BY DEF Calls, Deletions
<1>4. Types'
  <2>1. "0" \in Codes
    BY DEF Codes
  <2>2. p \in Seq(Instr2)
    BY PlanIsProgram
  <2> QED BY <1>1, <1>2, <1>3, <2>1, <2>2 DEF Inv, Types
<1>5. Plan'
  <2>1. Undone(c, p, A)' <=> Undone(c, p, A)
    BY PlanSame
  <2>2. Planned(c, p, A)' <=> Planned(c, p, A)
    BY PlanSame
  <2> QED BY <1>3, <2>1, <2>2 DEF Plan
<1>6. Ordered(live)'
  <2>1. Ordered(A)'
    BY OrderedSame
  <2> QED BY <2>1
<1>7. Reports'
  <2>1. c \in Deletions => p # <<>>
    BY DEF EndsIn
  <2> QED BY <2>1 DEF Reports
<1> QED BY <1>4, <1>5, <1>6, <1>7 DEF Inv

(* A call that makes something, ...                                        *)
LEMMA BeginMakes ==
  ASSUME Inv, NEW c \in Calls \ Deletions, NEW p, NEW A \in Sets, Begin(c, p), live' = A,
         Planned(c, p, A), Ordered(A), Order'
  PROVE  Inv'
<1>1. /\ call = "idle" /\ call' = c /\ prog' = p /\ err' = "0" /\ failed' = FALSE /\ ret' = "0"
      /\ config' = config /\ stuck' = stuck /\ handles' = handles
  BY DEF Begin
<1>2. "0" \in Codes
  BY DEF Codes
<1> QED BY <1>1, <1>2, StartKeeps

(* ... and one that deletes.                                               *)
LEMMA BeginDeletes ==
  ASSUME Inv, NEW c \in Deletions, NEW p, Begin(c, p), live' = live,
         Undone(c, p, live), EndsIn(p, {"return"}), Order'
  PROVE  Inv'
<1>1. /\ call = "idle" /\ call' = c /\ prog' = p /\ err' = "0" /\ failed' = FALSE /\ ret' = "0"
      /\ config' = config /\ stuck' = stuck /\ handles' = handles
  BY DEF Begin
<1>2. "0" \in Codes /\ c \in Calls
  BY DEF Codes, Calls
<1>3. PICK A : A = live
  OBVIOUS
<1>4. A \in Sets /\ Ordered(A) /\ live' = A /\ Undone(c, p, A)
  BY <1>3 DEF Inv, Types
<1> QED BY <1>1, <1>2, <1>4, StartKeeps

(* The state in which a call begins.                                       *)
LEMMA BeginIs ==
  ASSUME Inv, NEW c, NEW p, Begin(c, p)
  PROVE  /\ Idle /\ Order /\ live \in Sets /\ Ordered(live)
         /\ call' = c /\ held' = held /\ handle' = handle /\ side' = side
<1>1. config' = config /\ handles' = handles
  BY DEF Begin
<1>2. held' = held /\ handle' = handle
  BY SMT, <1>1 DEF handles
<1>3. side' = side
  BY <1>1, Configured
<1> QED BY <1>2, <1>3 DEF Begin, Inv, Idle, Types

-----------------------------------------------------------------------------
(* Every call of the application keeps the invariant.                      *)
(* A call of rpma_utils_get_ibv_context().                                 *)
LEMMA CallGetContextKeeps == ASSUME Inv, CallGetContext PROVE Inv'
<1> DEFINE p == GetContext
           A == live
<1>1. /\ "ctx" \notin held
      /\ Begin("get_context", p) /\ live' = A
  BY DEF CallGetContext
<1>2. /\ Idle /\ Order /\ live \in Sets /\ Ordered(live)
      /\ call' = "get_context" /\ held' = held /\ handle' = handle /\ side' = side
  BY <1>1, BeginIs
<1>3. Order'
  BY <1>1, <1>2 DEF Order
<1>4. Planned("get_context", p, A)
  BY <1>1, <1>2, GetContextPlan
<1>5. "get_context" \in Calls \ Deletions
  BY DEF Calls, Deletions
<1>6. A \in Sets /\ Ordered(A)
  BY <1>2
<1> HIDE DEF p, A
<1> QED BY <1>1, <1>3, <1>4, <1>5, <1>6, BeginMakes

(* A call of rpma_peer_new().                                              *)
LEMMA CallPeerNewKeeps == ASSUME Inv, CallPeerNew PROVE Inv'
<1> DEFINE p == PeerNew
           A == live
<1>1. /\ "ctx" \in held /\ "peer" \notin held /\ handle = "none"
      /\ Begin("peer_new", p) /\ live' = A
  BY DEF CallPeerNew
<1>2. /\ Idle /\ Order /\ live \in Sets /\ Ordered(live)
      /\ call' = "peer_new" /\ held' = held /\ handle' = handle /\ side' = side
  BY <1>1, BeginIs
<1>3. Order'
  BY <1>1, <1>2 DEF Order
<1>4. Planned("peer_new", p, A)
  BY <1>1, <1>2, PeerNewPlan
<1>5. "peer_new" \in Calls \ Deletions
  BY DEF Calls, Deletions
<1>6. A \in Sets /\ Ordered(A)
  BY <1>2
<1> HIDE DEF p, A
<1> QED BY <1>1, <1>3, <1>4, <1>5, <1>6, BeginMakes

(* A call of rpma_peer_delete().                                           *)
LEMMA CallPeerDeleteKeeps == ASSUME Inv, CallPeerDelete PROVE Inv'
<1> DEFINE p == PeerDelete \o <<ReturnErr>>
           A == live
<1>1. /\ "peer" \in held /\ held \cap {"ep", "mr"} = {} /\ handle \in {"none", "gone"}
      /\ Begin("peer_delete", p) /\ live' = A
  BY DEF CallPeerDelete
<1>2. /\ Idle /\ Order /\ live \in Sets /\ Ordered(live)
      /\ call' = "peer_delete" /\ held' = held /\ handle' = handle /\ side' = side
  BY <1>1, BeginIs
<1>3. Order'
  BY <1>1, <1>2 DEF Order
<1>4. Undone("peer_delete", p, A) /\ EndsIn(p, {"return"})
  BY <1>1, <1>2, PeerDeletePlan
<1>5. "peer_delete" \in Deletions
  BY DEF Deletions
<1> HIDE DEF p
<1> QED BY <1>1, <1>3, <1>4, <1>5, BeginDeletes

(* A call of rpma_ep_listen().                                             *)
LEMMA CallEpListenKeeps == ASSUME Inv, CallEpListen PROVE Inv'
<1> DEFINE p == EpListen
           A == live
<1>1. /\ side = "passive" /\ "peer" \in held /\ "ep" \notin held /\ handle = "none"
      /\ Begin("ep_listen", p) /\ live' = A
  BY DEF CallEpListen
<1>2. /\ Idle /\ Order /\ live \in Sets /\ Ordered(live)
      /\ call' = "ep_listen" /\ held' = held /\ handle' = handle /\ side' = side
  BY <1>1, BeginIs
<1>3. Order'
  BY <1>1, <1>2 DEF Order
<1>4. Planned("ep_listen", p, A)
  BY <1>1, <1>2, EpListenPlan
<1>5. "ep_listen" \in Calls \ Deletions
  BY DEF Calls, Deletions
<1>6. A \in Sets /\ Ordered(A)
  BY <1>2
<1> HIDE DEF p, A
<1> QED BY <1>1, <1>3, <1>4, <1>5, <1>6, BeginMakes

(* A call of rpma_ep_shutdown().                                           *)
LEMMA CallEpShutdownKeeps == ASSUME Inv, CallEpShutdown PROVE Inv'
<1> DEFINE p == EpShutdown \o <<ReturnErr>>
           A == live
<1>1. /\ "ep" \in held /\ handle # "req"
      /\ Begin("ep_shutdown", p) /\ live' = A
  BY DEF CallEpShutdown
<1>2. /\ Idle /\ Order /\ live \in Sets /\ Ordered(live)
      /\ call' = "ep_shutdown" /\ held' = held /\ handle' = handle /\ side' = side
  BY <1>1, BeginIs
<1>3. Order'
  BY <1>1, <1>2 DEF Order
<1>4. Undone("ep_shutdown", p, A) /\ EndsIn(p, {"return"})
  BY <1>1, <1>2, EpShutdownPlan
<1>5. "ep_shutdown" \in Deletions
  BY DEF Deletions
<1> HIDE DEF p
<1> QED BY <1>1, <1>3, <1>4, <1>5, BeginDeletes

(* A call of rpma_mr_reg().                                                *)
LEMMA CallMrRegKeeps == ASSUME Inv, CallMrReg PROVE Inv'
<1> DEFINE p == MrReg("mr")
           A == live
<1>1. /\ "peer" \in held /\ "mr" \notin held
      /\ Begin("mr_reg", p) /\ live' = A
  BY DEF CallMrReg
<1>2. /\ Idle /\ Order /\ live \in Sets /\ Ordered(live)
      /\ call' = "mr_reg" /\ held' = held /\ handle' = handle /\ side' = side
  BY <1>1, BeginIs
<1>3. Order'
  BY <1>1, <1>2 DEF Order
<1>4. Planned("mr_reg", p, A)
  BY <1>1, <1>2, MrRegPlan
<1>5. "mr_reg" \in Calls \ Deletions
  BY DEF Calls, Deletions
<1>6. A \in Sets /\ Ordered(A)
  BY <1>2
<1> HIDE DEF p, A
<1> QED BY <1>1, <1>3, <1>4, <1>5, <1>6, BeginMakes

(* A call of rpma_mr_dereg().                                              *)
LEMMA CallMrDeregKeeps == ASSUME Inv, CallMrDereg PROVE Inv'
<1> DEFINE p == MrDereg("mr") \o <<ReturnErr>>
           A == live
<1>1. /\ "mr" \in held
      /\ Begin("mr_dereg", p) /\ live' = A
  BY DEF CallMrDereg
<1>2. /\ Idle /\ Order /\ live \in Sets /\ Ordered(live)
      /\ call' = "mr_dereg" /\ held' = held /\ handle' = handle /\ side' = side
  BY <1>1, BeginIs
<1>3. Order'
  BY <1>1, <1>2 DEF Order
<1>4. Undone("mr_dereg", p, A) /\ EndsIn(p, {"return"})
  BY <1>1, <1>2, MrDeregPlan
<1>5. "mr_dereg" \in Deletions
  BY DEF Deletions
<1> HIDE DEF p
<1> QED BY <1>1, <1>3, <1>4, <1>5, BeginDeletes

(* A call of rpma_conn_req_new().                                          *)
LEMMA CallReqNewKeeps == ASSUME Inv, CallReqNew PROVE Inv'
<1> DEFINE p == ReqNew
           A == live
<1>1. /\ handle = "none" /\ side = "active" /\ "peer" \in held
      /\ Begin("req_new", p) /\ live' = A
  BY DEF CallReqNew
<1>2. /\ Idle /\ Order /\ live \in Sets /\ Ordered(live)
      /\ call' = "req_new" /\ held' = held /\ handle' = handle /\ side' = side
  BY <1>1, BeginIs
<1>3. Order'
  BY <1>1, <1>2 DEF Order
<1>4. Planned("req_new", p, A)
  BY <1>1, <1>2, ReqNewPlan
<1>5. "req_new" \in Calls \ Deletions
  BY DEF Calls, Deletions
<1>6. A \in Sets /\ Ordered(A)
  BY <1>2
<1> HIDE DEF p, A
<1> QED BY <1>1, <1>3, <1>4, <1>5, <1>6, BeginMakes

(* A call of rpma_ep_next_conn_req(): its event brings the CM ID.          *)
LEMMA CallNextConnReqKeeps == ASSUME Inv, CallNextConnReq PROVE Inv'
<1> DEFINE p == NextConnReq
           A == live \cup {"id"}
<1>1. /\ handle = "none" /\ "ep" \in held
      /\ Begin("next_conn_req", p) /\ live' = A
  BY DEF CallNextConnReq
<1>2. /\ Idle /\ Order /\ live \in Sets /\ Ordered(live)
      /\ call' = "next_conn_req" /\ held' = held /\ handle' = handle /\ side' = side
  BY <1>1, BeginIs
<1>3. Order'
  BY <1>1, <1>2 DEF Order
<1>4. Planned("next_conn_req", p, A)
  BY <1>1, <1>2, NextConnReqPlan
<1>5. "next_conn_req" \in Calls \ Deletions
  BY DEF Calls, Deletions
<1>6. A \in Sets /\ Ordered(A)
  <2>1. live = PartsOf(held)
    BY <1>1, <1>2, IdleIs
  <2>2. "on_evch" \notin live
    BY <2>1, PartsOfFacts DEF Owned, NewParts
  <2>3. A \in Sets
    BY <1>2 DEF Sets, Resources
  <2>4. Ordered(A)
    BY <1>2, <2>2 DEF Ordered
  <2> QED BY <2>3, <2>4
<1> HIDE DEF p, A
<1> QED BY <1>1, <1>3, <1>4, <1>5, <1>6, BeginMakes

(* A call of rpma_conn_req_delete().                                       *)
LEMMA CallReqDeleteKeeps == ASSUME Inv, CallReqDelete PROVE Inv'
<1> DEFINE p == ReqDelete(side = "passive") \o <<ReturnErr>>
           A == live
<1>1. /\ handle = "req"
      /\ Begin("req_delete", p) /\ live' = A
  BY DEF CallReqDelete
<1>2. /\ Idle /\ Order /\ live \in Sets /\ Ordered(live)
      /\ call' = "req_delete" /\ held' = held /\ handle' = handle /\ side' = side
  BY <1>1, BeginIs
<1>3. Order'
  BY <1>1, <1>2 DEF Order
<1>4. Undone("req_delete", p, A) /\ EndsIn(p, {"return"})
  BY <1>1, <1>2, ReqDeletePlan
<1>5. "req_delete" \in Deletions
  BY DEF Deletions
<1> HIDE DEF p
<1> QED BY <1>1, <1>3, <1>4, <1>5, BeginDeletes

(* A call of rpma_conn_req_connect().                                      *)
LEMMA CallReqConnectKeeps == ASSUME Inv, CallReqConnect PROVE Inv'
<1> DEFINE p == ReqConnect
           A == live
<1>1. /\ handle = "req"
      /\ Begin("req_connect", p) /\ live' = A
  BY DEF CallReqConnect
<1>2. /\ Idle /\ Order /\ live \in Sets /\ Ordered(live)
      /\ call' = "req_connect" /\ held' = held /\ handle' = handle /\ side' = side
  BY <1>1, BeginIs
<1>3. Order'
  BY <1>1, <1>2 DEF Order
<1>4. Planned("req_connect", p, A)
  BY <1>1, <1>2, ReqConnectPlan
<1>5. "req_connect" \in Calls \ Deletions
  BY DEF Calls, Deletions
<1>6. A \in Sets /\ Ordered(A)
  BY <1>2
<1> HIDE DEF p, A
<1> QED BY <1>1, <1>3, <1>4, <1>5, <1>6, BeginMakes

(* A call of rpma_conn_next_event().                                       *)
LEMMA CallNextEventKeeps == ASSUME Inv, CallNextEvent PROVE Inv'
<1> DEFINE p == NextEvent
           A == live
<1>1. /\ handle = "conn"
      /\ Begin("next_event", p) /\ live' = A
  BY DEF CallNextEvent
<1>2. /\ Idle /\ Order /\ live \in Sets /\ Ordered(live)
      /\ call' = "next_event" /\ held' = held /\ handle' = handle /\ side' = side
  BY <1>1, BeginIs
<1>3. Order'
  BY <1>1, <1>2 DEF Order
<1>4. Planned("next_event", p, A)
  BY <1>1, <1>2, NextEventPlan
<1>5. "next_event" \in Calls \ Deletions
  BY DEF Calls, Deletions
<1>6. A \in Sets /\ Ordered(A)
  BY <1>2
<1> HIDE DEF p, A
<1> QED BY <1>1, <1>3, <1>4, <1>5, <1>6, BeginMakes

(* A call of rpma_conn_delete().                                           *)
LEMMA CallConnDeleteKeeps == ASSUME Inv, CallConnDelete PROVE Inv'
<1> DEFINE p == ConnDelete(<<ReturnErr>>)
           A == live
<1>1. /\ handle = "conn"
      /\ Begin("conn_delete", p) /\ live' = A
  BY DEF CallConnDelete
<1>2. /\ Idle /\ Order /\ live \in Sets /\ Ordered(live)
      /\ call' = "conn_delete" /\ held' = held /\ handle' = handle /\ side' = side
  BY <1>1, BeginIs
<1>3. Order'
  BY <1>1, <1>2 DEF Order
<1>4. Undone("conn_delete", p, A) /\ EndsIn(p, {"return"})
  BY <1>1, <1>2, ConnDeletePlan
<1>5. "conn_delete" \in Deletions
  BY DEF Deletions
<1> HIDE DEF p
<1> QED BY <1>1, <1>3, <1>4, <1>5, BeginDeletes

(* A call of rpma_conn_req_connect() that refuses its arguments.           *)
LEMMA CallReqConnectInvalKeeps == ASSUME Inv, CallReqConnectInval PROVE Inv'
<1>1. /\ handle = "req" /\ call = "idle" /\ call' = "req_connect" /\ prog' = ReqDelete(side = "passive")
      /\ err' = "0" /\ failed' = FALSE /\ ret' = "RPMA_E_INVAL"
      /\ config' = config /\ live' = live /\ stuck' = stuck /\ handles' = handles
  BY DEF CallReqConnectInval
<1>2. held' = held /\ handle' = handle
  BY SMT, <1>1 DEF handles
<1>3. Idle /\ Order /\ side' = side
  BY <1>1, Configured DEF Inv, Idle
<1>4. Order'
  BY <1>1, <1>2, <1>3 DEF Order
<1>5. PICK p, A : p = ReqDelete(side = "passive") /\ A = live
  OBVIOUS
<1>6. A \in Sets /\ Ordered(A) /\ live' = A
  BY <1>1, <1>5 DEF Inv, Types
<1>7. Undone("req_connect", p, A)
  BY <1>1, <1>3, <1>5, ReqDeletePlan
<1>8. "RPMA_E_INVAL" \in Codes /\ "req_connect" \in Calls /\ "req_connect" \notin Deletions
  BY DEF Codes, Calls, Deletions
<1> QED BY ZenonT(30), <1>1, <1>4, <1>5, <1>6, <1>7, <1>8, StartKeeps

-----------------------------------------------------------------------------
(* Before the first call there is nothing.                                 *)
LEMMA InitInv == Init => Inv
<1> SUFFICES ASSUME Init PROVE Inv
  OBVIOUS
<1>1. Types
  <2>1. <<>> \in Seq(Instr2)
    BY SMTT(30)
  <2> QED BY <2>1 DEF Init, Types, Sets, Codes, Handles
<1>2. Plan
  <2>1. {} \in Owns(handle) /\ live = PartsOf(held) \cup {}
    BY DEF Init, Owns, PartsOf
  <2> QED BY <2>1, StatesRule DEF Init, Plan
<1>3. Ordered(live)
  BY DEF Init, Ordered
<1>4. Order
  BY DEF Init, Order
<1>5. Reports
  BY DEF Init, Reports, Deletions
<1> QED BY <1>1, <1>2, <1>3, <1>4, <1>5 DEF Inv

(* A step that changes nothing.                                            *)
LEMMA StutterKeeps == ASSUME Inv, UNCHANGED vars PROVE Inv'
<1>1. /\ config' = config /\ live' = live /\ stuck' = stuck /\ call' = call /\ prog' = prog
      /\ err' = err /\ failed' = failed /\ ret' = ret /\ handles' = handles
  BY SMT DEF vars
<1>2. /\ side' = side /\ shared' = shared /\ hasRcq' = hasRcq /\ hasData' = hasData /\ odp' = odp
      /\ held' = held /\ handle' = handle
  BY SMT, <1>1 DEF config, handles
<1>3. Types'
  BY ZenonT(30), <1>1, <1>2 DEF Inv, Types
<1>4. Ordered(live)'
  <2>1. PICK A : A = live
    OBVIOUS
  <2>2. Ordered(A)'
    BY <1>1, <2>1, OrderedSame DEF Inv
  <2> QED BY <1>1, <2>1, <2>2
<1>5. Order' /\ Reports'
  BY <1>1, <1>2 DEF Inv, Order, Reports
<1>6. Plan'
  <2>1. PICK c, p, A, hd, hn : c = call /\ p = prog /\ A = live /\ hd = held /\ hn = handle
    OBVIOUS
  <2>2. /\ Undone(c, p, A)' <=> Undone(c, p, A)
        /\ Planned(c, p, A)' <=> Planned(c, p, A)
    BY <1>1, PlanSame
  <2>3. States(hd, hn)' = States(hd, hn)
    BY <1>1, StatesSame
  <2>4. IF c = "idle" THEN A \in States(hd, hn)
        ELSE IF c \in Deletions \/ ret # "0" THEN Undone(c, p, A) ELSE Planned(c, p, A)
    BY <2>1 DEF Inv, Plan
  <2>5. IF c = "idle" THEN A \in States(hd, hn)'
        ELSE IF c \in Deletions \/ ret' # "0" THEN Undone(c, p, A)' ELSE Planned(c, p, A)'
    BY <1>1, <2>2, <2>3, <2>4
  <2> QED BY <1>1, <1>2, <2>1, <2>5 DEF Plan
<1> QED BY <1>3, <1>4, <1>5, <1>6 DEF Inv

(* The inductive invariant: every call carries out a plan that ends in     *)
(* what its handles own, whatever fails on the way.                        *)
THEOREM LifecycleInvariant == Spec => []Inv
<1>1. ASSUME Inv, [Next]_vars PROVE Inv'
  <2>1. CASE Call
    <3>1. CASE CallGetContext \/ CallPeerNew \/ CallPeerDelete \/ CallEpListen \/ CallEpShutdown
      BY ZenonT(30), <1>1, <3>1, CallGetContextKeeps, CallPeerNewKeeps, CallPeerDeleteKeeps, CallEpListenKeeps,
         CallEpShutdownKeeps
    <3>2. CASE CallMrReg \/ CallMrDereg \/ CallReqNew \/ CallNextConnReq \/ CallReqDelete
      BY ZenonT(30), <1>1, <3>2, CallMrRegKeeps, CallMrDeregKeeps, CallReqNewKeeps, CallNextConnReqKeeps,
         CallReqDeleteKeeps
    <3>3. CASE CallReqConnect \/ CallReqConnectInval \/ CallNextEvent \/ CallConnDelete
      BY <1>1, <3>3, CallReqConnectKeeps, CallReqConnectInvalKeeps, CallNextEventKeeps,
         CallConnDeleteKeeps
    <3> QED BY <2>1, <3>1, <3>2, <3>3 DEF Call
  <2>2. CASE GetOk \/ GetFails \/ RegRetry
    BY <1>1, <2>2, GetOkKeeps, GetFailsKeeps, RegRetryKeeps
  <2>3. CASE RelOk \/ RelFails
    BY ZenonT(30), <1>1, <2>3, RelOkKeeps, RelFailsKeeps
  <2>4. CASE DropData \/ MoveData \/ DoCall
    BY <1>1, <2>4, DropDataKeeps, MoveDataKeeps, DoCallKeeps
  <2>5. CASE CheckErr \/ SetRet \/ Return
    BY <1>1, <2>5, CheckErrKeeps, SetRetKeeps, ReturnKeeps
  <2>6. CASE Done \/ UNCHANGED vars
    BY <1>1, <2>6, StutterKeeps DEF Done
  <2> QED BY ZenonT(30), <1>1, <2>1, <2>2, <2>3, <2>4, <2>5, <2>6 DEF Next
<1> QED BY <1>1, InitInv, PTL DEF Spec

(* What the application's handles own, as the properties write it.         *)
LEMMA HeldPartsAre == ASSUME held \subseteq Handles PROVE HeldParts = PartsOf(held)
<1>1. /\ Parts["ctx"] = {} /\ Parts["peer"] = PeerParts /\ Parts["ep"] = EpParts
      /\ Parts["mr"] = MrParts
  BY SMT DEF Parts, PeerParts, EpParts, MrParts
<1>2. ASSUME NEW r PROVE r \in HeldParts <=> \E h \in held : r \in Parts[h]
  BY DEF HeldParts
<1>3. ASSUME NEW r
      PROVE  r \in PartsOf(held) <=>
                \/ "peer" \in held /\ r \in PeerParts
                \/ "ep" \in held /\ r \in EpParts
                \/ "mr" \in held /\ r \in MrParts
  BY DEF PartsOf
<1>4. ASSUME NEW r PROVE r \in HeldParts <=> r \in PartsOf(held)
  BY SMTT(30), <1>1, <1>2, <1>3 DEF Handles
<1> QED BY <1>4

(* Between two calls of the application, its handles own what the library  *)
(* has acquired, and nothing else is left: no error path of a constructor  *)
(* leaks and none takes away too much, whichever calls failed and in       *)
(* whatever order the application has called.                              *)
THEOREM OwnershipTheorem == Spec => []OwnsItsParts
<1>1. Inv => OwnsItsParts
  <2> SUFFICES ASSUME Inv, call = "idle" PROVE OwnsItsParts
    BY DEF OwnsItsParts
  <2>1. Idle /\ held \subseteq Handles /\ handle \in {"none", "req", "conn", "gone"}
    BY DEF Inv, Idle, Types
  <2>2. PICK own \in Owns(handle) : live = PartsOf(held) \cup own /\ own \subseteq Owned
    BY <2>1, IdleIs
  <2>3. HeldParts = PartsOf(held) /\ PartsOf(held) \cap Owned = {}
    BY <2>1, HeldPartsAre, PartsOfFacts
  <2>4. HeldParts \subseteq live /\ live \ HeldParts = own
    BY <2>2, <2>3
  <2>5. "req_data" \notin ReqParts /\ "conn_data" \notin ConnParts
    BY DEF ReqParts, ConnParts, CqParts
  <2>6. "req_data" \in live <=> "req_data" \in own
    BY <2>2, <2>3 DEF Owned
  <2>7. CASE handle = "none"
    <3>1. own = {}
      BY <2>7 DEF Owns
    <3> QED BY <2>4, <2>7, <3>1 DEF OwnsItsParts
  <2>8. CASE handle = "req"
    <3>1. own = ReqParts \cup (IF hasData /\ side = "passive" THEN {"req_data"} ELSE {})
      BY <2>8 DEF Owns
    <3>2. own \ {"req_data"} = ReqParts
      BY <2>5, <3>1
    <3>3. "req_data" \in own <=> hasData /\ side = "passive"
      BY <2>5, <3>1
    <3> QED BY <2>4, <2>6, <2>8, <3>2, <3>3 DEF OwnsItsParts
  <2>9. CASE handle = "conn"
    <3>1. own = ConnParts \/ own = ConnParts \cup {"conn_data"}
      BY <2>9 DEF Owns
    <3>2. own \ {"conn_data"} = ConnParts
      BY <2>5, <3>1
    <3> QED BY <2>4, <2>9, <3>2 DEF OwnsItsParts
  <2>10. CASE handle = "gone"
    <3>1. own \subseteq (IF side = "passive" THEN {"id"} ELSE {})
      BY <2>10 DEF Owns
    <3> QED BY <2>4, <2>10, <3>1 DEF OwnsItsParts
  <2> QED BY <2>1, <2>7, <2>8, <2>9, <2>10
<1> QED BY <1>1, LifecycleInvariant, PTL

(* Whatever a deletion, a goto chain or the undoing of a constructor that  *)
(* could not finish releases is there: nothing is released twice, and      *)
(* nothing that was never acquired.                                        *)
THEOREM ReleaseTheorem == Spec => []NoDoubleRelease
<1>1. Inv => NoDoubleRelease
  <2> SUFFICES ASSUME Inv, Instr("rel") PROVE Head(prog).r \in live
    BY DEF NoDoubleRelease
  <2>1. PICK x : x = Head(prog)
    OBVIOUS
  <2>2. Types /\ Plan /\ prog # <<>> /\ x.op = "rel" /\ call # "idle"
    BY <2>1 DEF Inv, Types, Instr
  <2>3. PICK M : PlainStep(x, live, M)
    BY <2>1, <2>2, HeadPlain
  <2> QED BY <2>1, <2>2, <2>3 DEF PlainStep
<1> QED BY <1>1, LifecycleInvariant, PTL

(* What is live has what it is built on: the code destroys the QP before   *)
(* its CQs, a CQ before its completion channel, the CM ID before the event *)
(* channel it is on, a registration before its memory and its protection   *)
(* domain, on every path and after every failure.                          *)
THEOREM OrderTheorem == Spec => []ReleaseOrder
<1>1. Inv => ReleaseOrder
  <2> SUFFICES ASSUME Inv, NEW r \in live PROVE Uses(r) \subseteq live
    BY DEF ReleaseOrder
  <2>1. Ordered(live)
    BY DEF Inv
  <2>2. CASE r # "id"
    BY <2>1, <2>2 DEF Ordered
  <2>3. CASE r = "id"
    <3>1. Uses(r) = IF "on_evch" \in live THEN {"evch"} ELSE {}
      BY <2>3 DEF Uses
    <3> QED BY <2>1, <2>3, <3>1 DEF Ordered
  <2> QED BY <2>2, <2>3
<1> QED BY <1>1, LifecycleInvariant, PTL

(* A call in which a release has failed does not return 0, but for         *)
(* rpma_utils_get_ibv_context(): neither "first error wins" nor the goto   *)
(* chain of rpma_conn_delete() loses the error.                            *)
THEOREM ReportTheorem == Spec => []DeletionReports
<1>1. Inv => DeletionReports
  BY DEF Inv, Reports, DeletionReports
<1> QED BY <1>1, LifecycleInvariant, PTL

(* The functions return RPMA_E_* codes only, and the variables have the    *)
(* values the code can give them.                                          *)
THEOREM TypeTheorem == Spec => []TypeOK
<1>1. Inv => TypeOK
  <2> SUFFICES ASSUME Types PROVE TypeOK
    BY DEF Inv
  <2>1. \A i \in DOMAIN prog :
           prog[i].op \in {"get", "reg", "rel", "drop", "do", "move", "goto", "return"}
    <3> SUFFICES ASSUME NEW i \in DOMAIN prog PROVE prog[i].op \in Ops
      BY DEF Ops
    <3>1. prog[i] \in Instr2
      <4>1. PICK S : S = Instr2
        OBVIOUS
      <4>2. prog \in Seq(S)
        BY <4>1 DEF Types
      <4> QED BY SMTT(30), <4>1, <4>2
    <3> QED BY SMT, <3>1 DEF Instr2
  <2>2. call \in DOMAIN Makes \cup DOMAIN Takes \cup {"idle", "req_new", "next_conn_req", "req_delete", "req_connect",
                 "next_event", "conn_delete"}
    BY TablesAre DEF Types, Calls, Deletions
  <2>3. {shared, hasRcq, hasData, odp, failed} \subseteq BOOLEAN
    BY DEF Types
  <2> QED BY <2>1, <2>2, <2>3 DEF Types, TypeOK, Sets, Codes, Handles
<1> QED BY <1>1, LifecycleInvariant, PTL
=============================================================================
