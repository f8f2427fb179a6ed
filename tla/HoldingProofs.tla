---------------------------- MODULE HoldingProofs ----------------------------
(***************************************************************************)
(* What requests hold: the locks of the conductor's handlers, and the      *)
(* machines which an action is given of the pools it has selected.  For    *)
(* any number of threads, pools, machines, actions and instances.          *)
(***************************************************************************)
EXTENDS LockOrder, PoolSelections, FiniteSetTheorems, TLAPS

\* Most steps below are first-order consequences of a few facts: Zenon is tried first, and
\* the steps which need records, functions or arithmetic name SMT.
USE Zenon

-----------------------------------------------------------------------------
(***************************************************************************)
(* The order of the locks                                                  *)
(*                                                                         *)
(* The steps of a handler are pairs of what is done and a lock.  What it   *)
(* is made of takes locks in the order of their ranks, and releases what   *)
(* it takes.                                                               *)
(***************************************************************************)

LockOps == {"acquire", "release", "cancel", "canceled"}

\* What a handler which has these steps before it holds: it releases the lock, and
\* does not take it before.
Releases(s, l) ==
  \E j \in 1..Len(s) : /\ s[j] = <<"release", l>>
                       /\ \A k \in 1..j : s[k] # <<"acquire", l>>

\* The locks which are taken are of a higher rank than those which are held.
InOrder(s, rank) ==
  \A i, j \in 1..Len(s) : \A l, m :
    /\ i < j /\ s[i] = <<"acquire", l>> /\ s[j] = <<"release", m>>
    /\ \A k \in i..j : s[k] # <<"acquire", m>>
    => rank[m] < rank[l]

\* A lock which is taken is released.
GivesBack(s) ==
  \A i \in 1..Len(s) : \A l : s[i] = <<"acquire", l>> =>
    \E j \in (i + 1)..Len(s) : /\ s[j] = <<"release", l>>
                               /\ \A k \in (i + 1)..j : s[k] # <<"acquire", l>>

\* Only what is taken is released.
OwnOnly(s) ==
  \A j \in 1..Len(s) : \A l : s[j] = <<"release", l>> =>
    \E i \in 1..(j - 1) : s[i] = <<"acquire", l>>

\* The locks of the steps are of a rank above n.
Above(s, rank, n) ==
  \A i \in 1..Len(s) : \A l :
    s[i] \in {<<"acquire", l>>, <<"release", l>>} => rank[l] \in Int /\ n < rank[l]

\* The steps of a part of a handler.
Block(s, rank, n) ==
  /\ s \in Seq(LockOps \X DOMAIN rank)
  /\ InOrder(s, rank) /\ GivesBack(s) /\ OwnOnly(s) /\ Above(s, rank, n)

-----------------------------------------------------------------------------
LEMMA BeforeBoth ==
  ASSUME NEW n \in Nat, NEW i \in Int, NEW j \in Int, NEW h \in 1..((j - n) - 1),
         n + h \notin i..j
  PROVE  i \notin 1..n /\ h < i - n
BY SMT

\* One part after the other.
LEMMA ThenBlock ==
  ASSUME NEW s, NEW t, NEW rank, NEW n, Block(s, rank, n), Block(t, rank, n)
  PROVE  Block(s \o t, rank, n)
<1> DEFINE u == s \o t
<1>1. /\ u \in Seq(LockOps \X DOMAIN rank) /\ Len(u) = Len(s) + Len(t)
      /\ Len(s) \in Nat /\ Len(t) \in Nat
      /\ \A i \in 1..Len(s) : u[i] = s[i]
      /\ \A i \in 1..Len(t) : u[Len(s) + i] = t[i]
      /\ \A i \in 1..Len(u) : i \notin 1..Len(s) => i - Len(s) \in 1..Len(t)
      /\ \A i \in (Len(s) + 1)..Len(u) : u[i] = t[i - Len(s)]
  <2>1. s \in Seq(LockOps \X DOMAIN rank) /\ t \in Seq(LockOps \X DOMAIN rank)
    BY DEF Block
  <2> QED
    BY SMT, <2>1
<1>2. Len(s) \in Nat /\ Len(t) \in Nat /\ Len(u) = Len(s) + Len(t)
  BY <1>1
<1> HIDE DEF u
<1>3. GivesBack(u)
  <2> SUFFICES ASSUME NEW i \in 1..Len(u), NEW l, u[i] = <<"acquire", l>>
               PROVE  \E j \in (i + 1)..Len(u) :
                        /\ u[j] = <<"release", l>>
                        /\ \A k \in (i + 1)..j : u[k] # <<"acquire", l>>
    BY DEF GivesBack
  <2>1. CASE i \in 1..Len(s)
    <3>1. PICK j \in (i + 1)..Len(s) : /\ s[j] = <<"release", l>>
                                       /\ \A k \in (i + 1)..j : s[k] # <<"acquire", l>>
      BY <1>1, <2>1 DEF Block, GivesBack
    <3>2. /\ j \in (i + 1)..Len(u) /\ j \in 1..Len(s)
          /\ \A k \in (i + 1)..j : k \in 1..Len(s)
      BY SMT, <1>1, <2>1
    <3> QED
      BY <1>1, <3>1, <3>2
  <2>2. CASE i \notin 1..Len(s)
    <3>1. i - Len(s) \in 1..Len(t) /\ t[i - Len(s)] = <<"acquire", l>>
      BY SMT, <1>1, <2>2
    <3>2. PICK j \in ((i - Len(s)) + 1)..Len(t) :
            /\ t[j] = <<"release", l>>
            /\ \A k \in ((i - Len(s)) + 1)..j : t[k] # <<"acquire", l>>
      BY <3>1 DEF Block, GivesBack
    <3>3. Len(s) + j \in (i + 1)..Len(u) /\ j \in 1..Len(t)
      BY SMT, <1>1, <2>2, <3>1
    <3>4. u[Len(s) + j] = <<"release", l>>
      BY <1>1, <3>2, <3>3
    <3>5. ASSUME NEW k \in (i + 1)..(Len(s) + j)
          PROVE  u[k] # <<"acquire", l>>
      <4>1. k - Len(s) \in ((i - Len(s)) + 1)..j /\ k \in (Len(s) + 1)..Len(u)
        BY SMT, <1>1, <2>2, <3>1, <3>3
      <4> QED
        BY <1>1, <3>2, <4>1
    <3> QED
      BY <3>3, <3>4, <3>5
  <2> QED
    BY <2>1, <2>2
<1>4. OwnOnly(u)
  <2> SUFFICES ASSUME NEW j \in 1..Len(u), NEW l, u[j] = <<"release", l>>
               PROVE  \E i \in 1..(j - 1) : u[i] = <<"acquire", l>>
    BY DEF OwnOnly
  <2>1. CASE j \in 1..Len(s)
    <3>0. OwnOnly(s) /\ s[j] = <<"release", l>>
      BY <1>1, <2>1 DEF Block
    <3>1. PICK i \in 1..(j - 1) : s[i] = <<"acquire", l>>
      BY <2>1, <3>0 DEF OwnOnly
    <3>2. i \in 1..Len(s)
      BY SMT, <1>1, <2>1
    <3> QED
      BY <1>1, <3>1, <3>2
  <2>2. CASE j \notin 1..Len(s)
    <3>1. j - Len(s) \in 1..Len(t) /\ t[j - Len(s)] = <<"release", l>>
      BY SMT, <1>1, <2>2
    <3>2. PICK i \in 1..((j - Len(s)) - 1) : t[i] = <<"acquire", l>>
      BY <3>1 DEF Block, OwnOnly
    <3>3. Len(s) + i \in 1..(j - 1) /\ i \in 1..Len(t)
      BY SMT, <1>1, <2>2, <3>1
    <3> QED
      BY <1>1, <3>2, <3>3
  <2> QED
    BY <2>1, <2>2
<1>5. InOrder(u, rank)
  <2> SUFFICES ASSUME NEW i \in 1..Len(u), NEW j \in 1..Len(u), NEW l, NEW m,
                      i < j, u[i] = <<"acquire", l>>, u[j] = <<"release", m>>,
                      \A k \in i..j : u[k] # <<"acquire", m>>
               PROVE  rank[m] < rank[l]
    BY DEF InOrder
  <2>1. CASE j \in 1..Len(s)
    <3>1. i \in 1..Len(s) /\ \A k \in i..j : k \in 1..Len(s)
      BY SMT, <1>1, <2>1
    <3>2. \A k \in i..j : s[k] # <<"acquire", m>>
      BY <1>1, <3>1
    <3>3. s[i] = <<"acquire", l>> /\ s[j] = <<"release", m>>
      BY <1>1, <2>1, <3>1
    <3> QED
      BY <2>1, <3>1, <3>2, <3>3 DEF Block, InOrder
  <2>2. CASE j \notin 1..Len(s)
    <3>1. j - Len(s) \in 1..Len(t) /\ t[j - Len(s)] = <<"release", m>>
      BY SMT, <1>1, <2>2
    <3>2. PICK h \in 1..((j - Len(s)) - 1) : t[h] = <<"acquire", m>>
      BY <3>1 DEF Block, OwnOnly
    <3>3. h \in 1..Len(t) /\ u[Len(s) + h] = <<"acquire", m>>
      <4>1. h \in 1..Len(t)
        BY SMT, <1>2, <3>1
      <4> QED
        BY <1>1, <3>2, <4>1
    <3>4. Len(s) + h \notin i..j
      BY <3>3
    <3>5. i \notin 1..Len(s) /\ h < i - Len(s)
      <4>1. i \in Int /\ j \in Int
        BY SMT
      <4> QED
        BY <1>2, <3>4, <4>1, BeforeBoth
    <3>6. /\ i - Len(s) \in 1..Len(t) /\ i - Len(s) < j - Len(s)
          /\ t[i - Len(s)] = <<"acquire", l>>
      BY SMT, <1>1, <3>1, <3>5
    <3>7. ASSUME NEW k \in (i - Len(s))..(j - Len(s))
          PROVE  t[k] # <<"acquire", m>>
      <4>1. k \in 1..Len(t) /\ Len(s) + k \in i..j
        BY SMT, <1>1, <3>1, <3>6
      <4> QED
        BY <1>1, <4>1
    <3> QED
      BY <3>1, <3>6, <3>7 DEF Block, InOrder
  <2> QED
    BY <2>1, <2>2
<1>6. Above(u, rank, n)
  <2> SUFFICES ASSUME NEW i \in 1..Len(u), NEW l,
                      u[i] \in {<<"acquire", l>>, <<"release", l>>}
               PROVE  rank[l] \in Int /\ n < rank[l]
    BY DEF Above
  <2>1. CASE i \in 1..Len(s)
    <3>1. Above(s, rank, n) /\ s[i] \in {<<"acquire", l>>, <<"release", l>>}
      BY <1>1, <2>1 DEF Block
    <3> QED
      BY SMT, <2>1, <3>1 DEF Above
  <2>2. CASE i \notin 1..Len(s)
    <3>1. i - Len(s) \in 1..Len(t) /\ i \in (Len(s) + 1)..Len(u)
      BY SMT, <1>2, <2>2
    <3>2. Above(t, rank, n) /\ t[i - Len(s)] \in {<<"acquire", l>>, <<"release", l>>}
      BY <1>1, <3>1 DEF Block
    <3> QED
      BY SMT, <3>1, <3>2 DEF Above
  <2> QED
    BY <2>1, <2>2
<1> QED
  BY <1>1, <1>3, <1>4, <1>5, <1>6 DEF Block, u

LEMMA StepOfLock ==
  ASSUME NEW rank, NEW l \in DOMAIN rank
  PROVE  <<"acquire", l>> \in LockOps \X DOMAIN rank /\ <<"release", l>> \in LockOps \X DOMAIN rank
BY DEF LockOps

\* A part with a lock around it: all its locks are of a higher rank.
LEMMA UnderBlock ==
  ASSUME NEW s, NEW rank, NEW n \in Int, NEW l \in DOMAIN rank, NEW r \in Int, rank[l] = r,
         n < r, Block(s, rank, r)
  PROVE  Block(<<<<"acquire", l>>>> \o s \o <<<<"release", l>>>>, rank, n)
<1> DEFINE u == <<<<"acquire", l>>>> \o s \o <<<<"release", l>>>>
<1>1. /\ u \in Seq(LockOps \X DOMAIN rank) /\ Len(u) = Len(s) + 2 /\ Len(s) \in Nat
      /\ u[1] = <<"acquire", l>> /\ u[Len(s) + 2] = <<"release", l>>
      /\ \A i \in 1..Len(s) : u[i + 1] = s[i]
  <2>1. s \in Seq(LockOps \X DOMAIN rank)
    BY DEF Block
  <2>2. <<"acquire", l>> \in LockOps \X DOMAIN rank /\ <<"release", l>> \in LockOps \X DOMAIN rank
    BY StepOfLock
  <2> QED
    BY SMT, <2>1, <2>2
<1>2. ASSUME NEW i \in 1..Len(u)
      PROVE  \/ i = 1
             \/ i = Len(u)
             \/ i - 1 \in 1..Len(s) /\ u[i] = s[i - 1]
  <2>1. i # 1 /\ i # Len(u) => i - 1 \in 1..Len(s) /\ (i - 1) + 1 = i
    BY SMT, <1>1
  <2> QED
    BY <1>1, <2>1
<1> HIDE DEF u
\* The part itself has no step about the lock.
<1>3. \A i \in 1..Len(s) : s[i] # <<"acquire", l>> /\ s[i] # <<"release", l>>
  <2>1. ~(rank[l] < rank[l])
    BY SMT
  <2> QED
    BY SMT, <2>1 DEF Block, Above
<1>4. GivesBack(u)
  <2> SUFFICES ASSUME NEW i \in 1..Len(u), NEW m, u[i] = <<"acquire", m>>
               PROVE  \E j \in (i + 1)..Len(u) :
                        /\ u[j] = <<"release", m>>
                        /\ \A k \in (i + 1)..j : u[k] # <<"acquire", m>>
    BY DEF GivesBack
  <2>1. CASE i = 1
    <3>1. m = l
      BY SMT, <1>1, <2>1
    <3>2. Len(u) \in (i + 1)..Len(u) /\ u[Len(u)] = <<"release", l>>
      BY SMT, <1>1, <2>1
    <3>3. ASSUME NEW k \in (i + 1)..Len(u)
          PROVE  u[k] # <<"acquire", l>>
      <4>1. k \in 1..Len(u) /\ k # 1
        BY SMT, <1>1, <2>1
      <4>2. u[Len(u)] # <<"acquire", l>>
        BY SMT, <3>2
      <4> QED
        BY <1>2, <1>3, <4>1, <4>2
    <3> QED
      BY <3>1, <3>2, <3>3
  <2>2. CASE i - 1 \in 1..Len(s) /\ u[i] = s[i - 1]
    <3>1. PICK j \in ((i - 1) + 1)..Len(s) :
            /\ s[j] = <<"release", m>>
            /\ \A k \in ((i - 1) + 1)..j : s[k] # <<"acquire", m>>
      BY <2>2 DEF Block, GivesBack
    <3>2. j + 1 \in (i + 1)..Len(u) /\ j \in 1..Len(s)
      BY SMT, <1>1, <2>2
    <3>3. ASSUME NEW k \in (i + 1)..(j + 1)
          PROVE  u[k] # <<"acquire", m>>
      <4>1. k - 1 \in ((i - 1) + 1)..j /\ k - 1 \in 1..Len(s) /\ (k - 1) + 1 = k
        BY SMT, <1>1, <2>2, <3>2
      <4> QED
        BY <1>1, <3>1, <4>1
    <3> QED
      BY <1>1, <3>1, <3>2, <3>3
  <2>3. CASE i = Len(u)
    BY SMT, <1>1, <2>3
  <2> QED
    BY <1>2, <2>1, <2>2, <2>3
<1>5. OwnOnly(u)
  <2> SUFFICES ASSUME NEW j \in 1..Len(u), NEW m, u[j] = <<"release", m>>
               PROVE  \E i \in 1..(j - 1) : u[i] = <<"acquire", m>>
    BY DEF OwnOnly
  <2>1. j # 1
    BY SMT, <1>1
  <2>2. CASE j - 1 \in 1..Len(s) /\ u[j] = s[j - 1]
    <3>1. PICK i \in 1..((j - 1) - 1) : s[i] = <<"acquire", m>>
      BY <2>2 DEF Block, OwnOnly
    <3>2. i + 1 \in 1..(j - 1) /\ i \in 1..Len(s)
      BY SMT, <1>1, <2>2
    <3> QED
      BY <1>1, <3>1, <3>2
  <2>3. CASE j = Len(u)
    <3>1. m = l /\ 1 \in 1..(j - 1)
      BY SMT, <1>1, <2>3
    <3> QED
      BY <1>1, <3>1
  <2> QED
    BY <1>2, <2>1, <2>2, <2>3
<1>6. Above(u, rank, n)
  <2> SUFFICES ASSUME NEW i \in 1..Len(u), NEW m,
                      u[i] \in {<<"acquire", m>>, <<"release", m>>}
               PROVE  rank[m] \in Int /\ n < rank[m]
    BY DEF Above
  <2>1. CASE i - 1 \in 1..Len(s) /\ u[i] = s[i - 1]
    <3>1. rank[m] \in Int /\ r < rank[m]
      BY SMT, <2>1 DEF Block, Above
    <3> QED
      BY SMT, <3>1
  <2>2. CASE i = 1 \/ i = Len(u)
    <3>1. m = l
      BY SMT, <1>1, <2>2
    <3> QED
      BY <3>1
  <2> QED
    BY <1>2, <2>1, <2>2
<1>7. InOrder(u, rank)
  <2> SUFFICES ASSUME NEW i \in 1..Len(u), NEW j \in 1..Len(u), NEW x, NEW m,
                      i < j, u[i] = <<"acquire", x>>, u[j] = <<"release", m>>,
                      \A k \in i..j : u[k] # <<"acquire", m>>
               PROVE  rank[m] < rank[x]
    BY DEF InOrder
  <2>1. i \in i..j /\ j # 1 /\ i # Len(u)
    BY SMT, <1>1
  <2>2. CASE j = Len(u)
    <3>1. m = l
      BY SMT, <1>1, <2>2
    <3>2. i # 1
      BY <1>1, <2>1, <3>1
    <3>3. i - 1 \in 1..Len(s) /\ u[i] = s[i - 1]
      BY <1>2, <2>1, <3>2
    <3> QED
      BY SMT, <3>1, <3>3 DEF Block, Above
  <2>3. CASE j - 1 \in 1..Len(s) /\ u[j] = s[j - 1]
    <3>1. PICK h \in 1..((j - 1) - 1) : s[h] = <<"acquire", m>>
      BY <2>3 DEF Block, OwnOnly
    <3>2. h \in 1..Len(s) /\ h + 1 \notin i..j
      <4>1. h \in 1..Len(s)
        BY SMT, <1>1, <2>3
      <4> QED
        BY <1>1, <3>1, <4>1
    <3>3. i # 1
      BY SMT, <2>3, <3>2
    <3>4. i - 1 \in 1..Len(s) /\ u[i] = s[i - 1]
      BY <1>2, <2>1, <3>3
    <3>5. i - 1 < j - 1
      BY SMT
    <3>6. ASSUME NEW k \in (i - 1)..(j - 1)
          PROVE  s[k] # <<"acquire", m>>
      <4>1. k \in 1..Len(s) /\ k + 1 \in i..j
        BY SMT, <1>1, <2>3, <3>4
      <4> QED
        BY <1>1, <4>1
    <3>7. InOrder(s, rank) /\ s[i - 1] = <<"acquire", x>> /\ s[j - 1] = <<"release", m>>
      BY <2>3, <3>4 DEF Block
    <3> QED
      BY <2>3, <3>4, <3>5, <3>6, <3>7 DEF InOrder
  <2> QED
    BY <1>2, <2>1, <2>2, <2>3
<1> QED
  BY <1>1, <1>4, <1>5, <1>6, <1>7 DEF Block, u

\* What takes no lock.
LEMMA PlainBlock ==
  ASSUME NEW rank, NEW s \in Seq(LockOps \X DOMAIN rank), NEW n,
         \A i \in 1..Len(s) : \A l : s[i] # <<"acquire", l>> /\ s[i] # <<"release", l>>
  PROVE  Block(s, rank, n)
BY DEF Block, InOrder, GivesBack, OwnOnly, Above

\* What is left of a handler's steps after the first.
LEMMA TailInOrder ==
  ASSUME NEW rank, NEW s \in Seq(LockOps \X DOMAIN rank), s # <<>>, InOrder(s, rank), GivesBack(s)
  PROVE  /\ InOrder(Tail(s), rank) /\ GivesBack(Tail(s))
         /\ Tail(s) \in Seq(LockOps \X DOMAIN rank)
         /\ \A l : s[1] = <<"acquire", l>> => Releases(Tail(s), l)
         /\ \A l : Releases(s, l) /\ s[1] # <<"release", l>> => Releases(Tail(s), l)
<1> DEFINE u == Tail(s)
<1>1. /\ u \in Seq(LockOps \X DOMAIN rank) /\ Len(u) = Len(s) - 1 /\ Len(s) \in Nat \ {0}
      /\ \A i \in 1..Len(u) : u[i] = s[i + 1]
  BY SMT
<1>2. \A i \in 2..Len(s) : i - 1 \in 1..Len(u) /\ u[i - 1] = s[i]
  <2> SUFFICES ASSUME NEW i \in 2..Len(s)
               PROVE  i - 1 \in 1..Len(u) /\ u[i - 1] = s[i]
    OBVIOUS
  <2>1. i - 1 \in 1..Len(u) /\ (i - 1) + 1 = i
    BY SMT, <1>1
  <2> QED
    BY <1>1, <2>1
<1> HIDE DEF u
<1>3. InOrder(u, rank)
  <2> SUFFICES ASSUME NEW i \in 1..Len(u), NEW j \in 1..Len(u), NEW l, NEW m,
                      i < j, u[i] = <<"acquire", l>>, u[j] = <<"release", m>>,
                      \A k \in i..j : u[k] # <<"acquire", m>>
               PROVE  rank[m] < rank[l]
    BY DEF InOrder
  <2>1. i + 1 \in 1..Len(s) /\ j + 1 \in 1..Len(s) /\ i + 1 < j + 1
    BY SMT, <1>1
  <2>2. ASSUME NEW k \in (i + 1)..(j + 1)
        PROVE  s[k] # <<"acquire", m>>
    <3>1. k - 1 \in i..j /\ k \in 2..Len(s)
      BY SMT, <1>1
    <3> QED
      BY <1>2, <3>1
  <2>3. s[i + 1] = <<"acquire", l>> /\ s[j + 1] = <<"release", m>>
    BY <1>1
  <2> QED
    BY <2>1, <2>2, <2>3 DEF InOrder
<1>4. ASSUME NEW i \in 1..Len(s), NEW j \in (i + 1)..Len(s), NEW l,
             s[j] = <<"release", l>>, \A k \in (i + 1)..j : s[k] # <<"acquire", l>>
      PROVE  /\ j - 1 \in i..Len(u) /\ u[j - 1] = <<"release", l>>
             /\ \A k \in i..(j - 1) : u[k] # <<"acquire", l>>
  <2>1. j - 1 \in i..Len(u) /\ j \in 2..Len(s)
    BY SMT, <1>1
  <2>2. ASSUME NEW k \in i..(j - 1)
        PROVE  u[k] # <<"acquire", l>>
    <3>1. k + 1 \in (i + 1)..j /\ k \in 1..Len(u)
      BY SMT, <1>1
    <3> QED
      BY <1>1, <1>4, <3>1
  <2> QED
    BY <1>2, <1>4, <2>1, <2>2
<1>5. GivesBack(u)
  <2> SUFFICES ASSUME NEW i \in 1..Len(u), NEW l, u[i] = <<"acquire", l>>
               PROVE  \E j \in (i + 1)..Len(u) :
                        /\ u[j] = <<"release", l>>
                        /\ \A k \in (i + 1)..j : u[k] # <<"acquire", l>>
    BY DEF GivesBack
  <2>1. i + 1 \in 1..Len(s) /\ s[i + 1] = <<"acquire", l>>
    BY SMT, <1>1
  <2>2. PICK j \in ((i + 1) + 1)..Len(s) :
          /\ s[j] = <<"release", l>>
          /\ \A k \in ((i + 1) + 1)..j : s[k] # <<"acquire", l>>
    BY <2>1 DEF GivesBack
  <2> QED
    BY <1>4, <2>1, <2>2
<1>6. ASSUME NEW l, s[1] = <<"acquire", l>>
      PROVE  Releases(u, l)
  <2>1. 1 \in 1..Len(s)
    BY SMT, <1>1
  <2>2. PICK j \in (1 + 1)..Len(s) : /\ s[j] = <<"release", l>>
                                     /\ \A k \in (1 + 1)..j : s[k] # <<"acquire", l>>
    BY <1>6, <2>1 DEF GivesBack
  <2> QED
    BY <1>4, <2>1, <2>2 DEF Releases
<1>7. ASSUME NEW l, Releases(s, l), s[1] # <<"release", l>>
      PROVE  Releases(u, l)
  <2>1. PICK j \in 1..Len(s) : /\ s[j] = <<"release", l>>
                               /\ \A k \in 1..j : s[k] # <<"acquire", l>>
    BY <1>7 DEF Releases
  <2>2. j # 1
    BY <1>7, <2>1
  <2>3. 1 \in 1..Len(s) /\ j \in (1 + 1)..Len(s) /\ \A k \in (1 + 1)..j : k \in 1..j
    BY SMT, <1>1, <2>2
  <2> QED
    BY <1>4, <2>1, <2>3 DEF Releases
<1> QED
  BY <1>1, <1>3, <1>5, <1>6, <1>7 DEF u

-----------------------------------------------------------------------------
(***************************************************************************)
(* The locks of the conductor                                              *)
(*                                                                         *)
(* Handlers of requests take an action's lock before that of its           *)
(* execution, handlers of reports the other way round.                     *)
(***************************************************************************)

RequestRank ==
  [l \in Locks |-> IF l = "transfer" THEN 1 ELSE IF l = "deployment" THEN 2 ELSE 3]

ReportRank ==
  [l \in Locks |->
     IF l \in Executions THEN 1 ELSE IF l \in Tasks THEN 2
     ELSE IF l = "deployment" THEN 3 ELSE 4]

Blocks(P, rank, n) == \A s \in P : Block(s, rank, n)

LEMMA RankFacts ==
  /\ DOMAIN RequestRank = Locks /\ DOMAIN ReportRank = Locks
  /\ \A l \in Locks : RequestRank[l] \in 1..4 /\ ReportRank[l] \in 1..4
  /\ RequestRank["transfer"] = 1 /\ RequestRank["deployment"] = 2
  /\ RequestRank["transfer execution"] = 3 /\ RequestRank["deployment execution"] = 3
  /\ \A a \in {"transfer", "deployment"} :
       /\ ReportRank[ExecutionOf(a)] = 1 /\ ReportRank[TaskOf(a)] = 2
       /\ ExecutionOf(a) \in Locks /\ TaskOf(a) \in Locks
       /\ ReportRank[a] \in {3, 4}
  /\ ReportRank["deployment"] = 3 /\ ReportRank["transfer"] = 4
  /\ {"transfer", "deployment", "transfer execution", "deployment execution"}
       \subseteq Locks
BY SMT DEF RequestRank, ReportRank, Locks, Executions, Tasks,
           ActionLocks, ExecutionOf, TaskOf

LEMMA ThenBlocks ==
  ASSUME NEW P, NEW Q, NEW rank, NEW n, Blocks(P, rank, n), Blocks(Q, rank, n)
  PROVE  Blocks(Then(P, Q), rank, n)
<1> SUFFICES ASSUME NEW s \in Then(P, Q)
             PROVE  Block(s, rank, n)
  BY DEF Blocks
<1>1. PICK p \in P, q \in Q : s = p \o q
  BY SMT DEF Then
<1> QED
  BY <1>1, ThenBlock DEF Blocks

LEMMA UnderBlocks ==
  ASSUME NEW P, NEW rank, NEW n \in Int, NEW l \in DOMAIN rank, NEW r \in Int, rank[l] = r,
         n < r, Blocks(P, rank, r)
  PROVE  Blocks(Under(l, P), rank, n)
<1> SUFFICES ASSUME NEW p \in P
             PROVE  Block(<<<<"acquire", l>>>> \o p \o <<<<"release", l>>>>, rank, n)
  BY DEF Blocks, Under
<1> QED
  BY UnderBlock DEF Blocks

LEMMA NoLockBlocks ==
  ASSUME NEW rank, NEW n
  PROVE  /\ Blocks(Skip, rank, n)
         /\ \A a : ExecutionOf(a) \in DOMAIN rank =>
              Blocks(_cancel_tasks_execution(a), rank, n)
<1>1. Blocks(Skip, rank, n)
  <2>1. <<>> \in Seq(LockOps \X DOMAIN rank) /\ 1..Len(<<>>) = {}
    BY SMT
  <2>2. Block(<<>>, rank, n)
    BY <2>1, PlainBlock
  <2> QED
    BY <2>2 DEF Blocks, Skip
<1>2. ASSUME NEW a, ExecutionOf(a) \in DOMAIN rank
      PROVE  Blocks(_cancel_tasks_execution(a), rank, n)
  <2> DEFINE e == ExecutionOf(a)
             s == <<<<"cancel", e>>, <<"canceled", e>>>>
  <2>1. <<"cancel", e>> \in LockOps \X DOMAIN rank /\ <<"canceled", e>> \in LockOps \X DOMAIN rank
    BY <1>2 DEF LockOps
  <2>2. s \in Seq(LockOps \X DOMAIN rank) /\ Len(s) = 2
        /\ s[1] = <<"cancel", e>> /\ s[2] = <<"canceled", e>>
    BY SMT, <2>1
  <2> HIDE DEF s
  <2>3. ASSUME NEW i \in 1..Len(s), NEW l
        PROVE  s[i] # <<"acquire", l>> /\ s[i] # <<"release", l>>
    <3>1. i = 1 \/ i = 2
      BY SMT, <2>2
    <3> QED
      BY SMT, <2>2, <3>1
  <2>4. Block(s, rank, n)
    BY <2>2, <2>3, PlainBlock
  <2> QED
    BY <2>4 DEF Blocks, _cancel_tasks_execution, s
<1> QED
  BY <1>1, <1>2

LEMMA RequestBlocks == Blocks(RequestHandlers, RequestRank, 0)
<1> DEFINE B(P, n) == Blocks(P, RequestRank, n)
<1>1. /\ \A n : B(Skip, n)
      /\ \A n : B(_cancel_tasks_execution("transfer"), n)
      /\ \A n : B(_cancel_tasks_execution("deployment"), n)
  BY NoLockBlocks, RankFacts
<1>2. /\ \A n : B(_begin_tasks("transfer"), n)
      /\ \A n : B(_begin_tasks("deployment"), n)
  BY <1>1 DEF _begin_tasks, Blocks
<1>3. /\ {0, 1, 2, 3} \subseteq Int /\ 0 < 1 /\ 0 < 2 /\ 1 < 2 /\ 0 < 3 /\ 1 < 3 /\ 2 < 3
  BY SMT
<1>4. ASSUME NEW P, B(P, 1)
      PROVE  B(Under("transfer", P), 0)
  BY <1>3, <1>4, RankFacts, UnderBlocks
<1>5. ASSUME NEW P, NEW n \in {0, 1}, B(P, 2)
      PROVE  B(Under("deployment", P), n)
  BY <1>3, <1>5, RankFacts, UnderBlocks
<1>6. ASSUME NEW P, NEW n \in {0, 1, 2}, B(P, 3)
      PROVE  /\ B(Under("transfer execution", P), n)
             /\ B(Under("deployment execution", P), n)
  BY <1>3, <1>6, RankFacts, UnderBlocks
<1>7. /\ B(execute_transfer_tasks_locks, 0)
      /\ B(delete_transfer_locks, 0)
      /\ B(confirm_transfer_minions_allocation, 0)
      /\ B(report_transfer_minions_allocation_error, 0)
  BY <1>1, <1>2, <1>4
  DEF execute_transfer_tasks_locks, delete_transfer_locks,
      confirm_transfer_minions_allocation, transfer_synchronized,
      report_transfer_minions_allocation_error
<1>8. B(get_transfer_tasks_execution, 1)
  BY <1>1, <1>6 DEF get_transfer_tasks_execution, tasks_execution_synchronized
<1>9. B(delete_transfer_disks, 0) /\ B(update_transfer, 0)
  <2>1. B(Then(_begin_tasks("transfer"), get_transfer_tasks_execution), 1)
    BY <1>2, <1>8, ThenBlocks
  <2> QED
    BY <1>4, <2>1
    DEF delete_transfer_disks, update_transfer, transfer_synchronized
<1>10. /\ B(delete_transfer_tasks_execution, 0)
       /\ B(cancel_transfer_tasks_execution, 0)
  BY <1>1, <1>6
  DEF delete_transfer_tasks_execution, cancel_transfer_tasks_execution,
      tasks_execution_synchronized
<1>11. /\ B(get_deployment, 1) /\ B(_execute_deployment, 1)
  <2>1. B(deployment_synchronized(Skip), 1)
    BY <1>1, <1>5 DEF deployment_synchronized
  <2> QED
    BY <1>2, <2>1 DEF get_deployment, _execute_deployment, Blocks
<1>12. B(deploy_transfer_instances_locks, 0)
  <2>1. B(Skip \cup _execute_deployment, 1)
    BY <1>1, <1>11 DEF Blocks
  <2>2. B(Then(Skip \cup _execute_deployment, get_deployment), 1)
    BY <1>11, <2>1, ThenBlocks
  <2> QED
    BY <1>4, <2>2 DEF deploy_transfer_instances_locks, transfer_synchronized
<1>13. B(confirm_deployer_completed, 0)
  <2>1. /\ B(Under("deployment", Skip), 0)
        /\ B(Under("transfer", _execute_deployment), 0)
    BY <1>1, <1>4, <1>5, <1>11
  <2> QED
    BY <2>1, ThenBlocks DEF confirm_deployer_completed
<1>14. /\ B(report_deployer_failure, 0) /\ B(delete_deployment, 0)
       /\ B(confirm_deployment_minions_allocation, 0)
       /\ B(report_deployment_minions_allocation_error, 0)
  BY <1>1, <1>2, <1>5
  DEF report_deployer_failure, delete_deployment,
      confirm_deployment_minions_allocation, deployment_synchronized,
      report_deployment_minions_allocation_error
<1>15. B(cancel_deployment, 0)
  <2>1. B(Under("deployment execution",
                      _cancel_tasks_execution("deployment")), 2)
    BY <1>1, <1>6
  <2> QED
    BY <1>5, <2>1 DEF cancel_deployment, deployment_synchronized
<1> QED
  BY <1>7, <1>9, <1>10, <1>12, <1>13, <1>14, <1>15 DEF RequestHandlers, Blocks

LEMMA ReportBlocks == Blocks(ReportHandlers, ReportRank, 0)
<1> DEFINE B(P, n) == Blocks(P, ReportRank, n)
<1>1. ASSUME NEW a \in {"transfer", "deployment"}
      PROVE  \A n : B(Skip, n) /\ B(_cancel_tasks_execution(a), n)
  BY NoLockBlocks, RankFacts
<1>2. {0, 1, 2, 3, 4} \subseteq Int /\ 0 < 1 /\ 0 < 2 /\ 1 < 2 /\ 2 < 3 /\ 2 < 4 /\ 3 < 4
  BY SMT
<1>3. ASSUME NEW a \in {"transfer", "deployment"}, NEW P, B(P, 2)
      PROVE  B(Under(TaskOf(a), P), 0) /\ B(Under(TaskOf(a), P), 1)
  BY <1>2, <1>3, RankFacts, UnderBlocks
<1>4. ASSUME NEW a \in {"transfer", "deployment"}, NEW P, B(P, 2)
      PROVE  B(parent_tasks_execution_synchronized(a, P), 0)
  <2>1. B(Under(TaskOf(a), P), 1)
    BY <1>3, <1>4
  <2> QED
    BY <1>2, <2>1, RankFacts, UnderBlocks DEF parent_tasks_execution_synchronized
<1>5. ASSUME NEW P, B(P, 4)
      PROVE  B(Under("transfer", P), 2) /\ B(Under("transfer", P), 3)
  BY <1>2, <1>5, RankFacts, UnderBlocks
<1>6. ASSUME NEW P, B(P, 3)
      PROVE  B(Under("deployment", P), 2)
  BY <1>2, <1>6, RankFacts, UnderBlocks
<1>7. ASSUME NEW a \in {"transfer", "deployment"}
      PROVE  /\ B(set_task_host(a), 0) /\ B(add_task_event(a), 0)
             /\ B(confirm_task_cancellation(a), 0)
  BY <1>1, <1>3, <1>4
  DEF set_task_host, add_task_event, confirm_task_cancellation,
      task_synchronized
<1>8. ASSUME NEW a \in {"transfer", "deployment"}
      PROVE  B(set_task_error(a), 0)
  <2>1. B(Under(a, _cancel_tasks_execution(a)), 2)
    BY <1>1, <1>5, <1>6
  <2> QED
    BY <1>4, <2>1 DEF set_task_error
<1>9. ASSUME NEW a \in {"transfer", "deployment"}
      PROVE  B(task_completed(a), 0)
  <2>1. B(Under("transfer", _handle_post_task_actions("transfer")), 2)
    <3>1. _handle_post_task_actions("transfer") = Skip
      BY SMT DEF _handle_post_task_actions
    <3> QED
      BY <1>1, <1>5, <3>1
  <2>2. B(Under("deployment", _handle_post_task_actions("deployment")), 2)
    <3>1. B(_update_volumes_info_for_deployment_parent_transfer, 3)
      BY <1>1, <1>5 DEF _update_volumes_info_for_deployment_parent_transfer
    <3>2. B(_handle_post_task_actions("deployment"), 3)
      BY <1>1, <3>1 DEF _handle_post_task_actions, Blocks
    <3> QED
      BY <1>6, <3>2
  <2>3. B(Under(a, _handle_post_task_actions(a)), 2)
    BY <2>1, <2>2
  <2> QED
    BY <1>4, <2>3 DEF task_completed
<1> QED
  BY <1>7, <1>8, <1>9 DEF ReportHandlers, ActionLocks, Blocks

-----------------------------------------------------------------------------
\* The order which the handler of a thread keeps to.
RankOf(p) == IF p \in reports THEN ReportRank ELSE RequestRank

LockInv ==
  /\ LockTypeOK
  /\ DOMAIN steps = Procs
  /\ \A p \in Procs :
       /\ steps[p] \in Seq(LockOps \X Locks)
       /\ InOrder(steps[p], RankOf(p)) /\ GivesBack(steps[p])
       /\ \A l \in Locks : owner[l] = p => Releases(steps[p], l)

\* A thread waits only for locks of a higher rank than those it has.
LEMMA WaitsUpwards ==
  ASSUME LockInv, NEW p \in Procs, NEW q \in Procs, Waits(p), Waits(q),
         owner[Head(steps[p])[2]] = q
  PROVE  /\ Head(steps[p])[2] \in Locks /\ Head(steps[q])[2] \in Locks
         /\ RankOf(q)[Head(steps[p])[2]] < RankOf(q)[Head(steps[q])[2]]
<1>1. ASSUME NEW r \in Procs, Waits(r)
      PROVE  /\ Head(steps[r])[2] \in Locks /\ 1 \in 1..Len(steps[r])
             /\ steps[r][1] = <<"acquire", Head(steps[r])[2]>>
  <2>1. steps[r] \in Seq(LockOps \X Locks) /\ steps[r] # <<>>
        /\ Head(steps[r])[1] = "acquire"
    BY <1>1 DEF LockInv, Waits
  <2>2. Head(steps[r]) \in LockOps \X Locks /\ steps[r][1] = Head(steps[r])
        /\ 1 \in 1..Len(steps[r])
    BY SMT, <2>1
  <2> QED
    BY SMT, <2>1, <2>2
<1> DEFINE l == Head(steps[q])[2]
           m == Head(steps[p])[2]
<1>2. Releases(steps[q], m)
  BY <1>1 DEF LockInv
<1>3. PICK j \in 1..Len(steps[q]) :
        /\ steps[q][j] = <<"release", m>>
        /\ \A k \in 1..j : steps[q][k] # <<"acquire", m>>
  BY <1>2 DEF Releases
<1>4. steps[q][1] = <<"acquire", l>> /\ 1 \in 1..Len(steps[q])
  BY <1>1
<1>5. 1 < j
  <2>1. j # 1
    BY SMT, <1>3, <1>4
  <2> QED
    BY SMT, <2>1
<1>6. InOrder(steps[q], RankOf(q))
  BY DEF LockInv
<1> HIDE DEF l, m
<1>7. RankOf(q)[m] < RankOf(q)[l]
  BY <1>3, <1>4, <1>5, <1>6 DEF InOrder
<1> QED
  BY <1>1, <1>7 DEF l, m

\* So handlers which keep to one order never wait for one another in a circle: none of
\* them waits for a lock of the highest rank, none for one of the next, and so on.
LEMMA NoCircle ==
  ASSUME LockInv, NEW S \in SUBSET Procs, NEW rank,
         \A p \in S : RankOf(p) = rank,
         \A l \in Locks : rank[l] \in 1..4
  PROVE  ~Stuck(S)
<1> SUFFICES ASSUME Stuck(S)
             PROVE  FALSE
  OBVIOUS
<1> DEFINE Awaits(p) == rank[Head(steps[p])[2]]
<1>1. ASSUME NEW p \in S
      PROVE  \E q \in S : Awaits(p) \in 1..4 /\ Awaits(q) \in 1..4 /\ Awaits(p) < Awaits(q)
  <2>1. PICK q \in S : WaitsFor(p, q)
    BY DEF Stuck
  <2>2. Waits(p) /\ Waits(q) /\ owner[Head(steps[p])[2]] = q
    BY <2>1 DEF Stuck, WaitsFor
  <2> QED
    BY <2>2, WaitsUpwards
<1> HIDE DEF Awaits
<1>2. \A p \in S : Awaits(p) \in 1..3
  <2> SUFFICES ASSUME NEW p \in S PROVE Awaits(p) \in 1..3
    OBVIOUS
  <2>1. PICK q \in S : Awaits(p) \in 1..4 /\ Awaits(q) \in 1..4 /\ Awaits(p) < Awaits(q)
    BY <1>1
  <2> QED
    BY SMT, <2>1
<1>3. \A p \in S : Awaits(p) \in 1..2
  <2> SUFFICES ASSUME NEW p \in S PROVE Awaits(p) \in 1..2
    OBVIOUS
  <2>1. PICK q \in S : Awaits(p) < Awaits(q)
    BY <1>1
  <2>2. Awaits(p) \in 1..3 /\ Awaits(q) \in 1..3
    BY <1>2
  <2> QED
    BY SMT, <2>1, <2>2
<1>4. \A p \in S : Awaits(p) \in 1..1
  <2> SUFFICES ASSUME NEW p \in S PROVE Awaits(p) \in 1..1
    OBVIOUS
  <2>1. PICK q \in S : Awaits(p) < Awaits(q)
    BY <1>1
  <2>2. Awaits(p) \in 1..2 /\ Awaits(q) \in 1..2
    BY <1>3
  <2> QED
    BY SMT, <2>1, <2>2
<1>5. PICK p \in S : TRUE
  BY DEF Stuck
<1>6. PICK q \in S : Awaits(p) < Awaits(q)
  BY <1>1
<1>7. Awaits(p) \in 1..1 /\ Awaits(q) \in 1..1
  BY <1>4
<1> QED
  BY SMT, <1>6, <1>7

LEMMA LockPromises ==
  ASSUME LockInv
  PROVE  LockTypeOK /\ CircleHasBothKinds
<1>1. ASSUME NEW S \in SUBSET Procs, Stuck(S), S \cap reports = {}
      PROVE  FALSE
  <2>1. \A p \in S : RankOf(p) = RequestRank
    BY <1>1 DEF RankOf
  <2> QED
    BY <1>1, <2>1, NoCircle, RankFacts
<1>2. ASSUME NEW S \in SUBSET Procs, Stuck(S), S \ reports = {}
      PROVE  FALSE
  <2>1. \A p \in S : RankOf(p) = ReportRank
    BY <1>2 DEF RankOf
  <2> QED
    BY <1>2, <2>1, NoCircle, RankFacts
<1> QED
  BY <1>1, <1>2 DEF LockInv, CircleHasBothKinds

-----------------------------------------------------------------------------
LEMMA InitLocks ==
  ASSUME LockInit
  PROVE  LockInv
<1>1. ASSUME NEW p \in Procs
      PROVE  /\ steps[p] \in Seq(LockOps \X Locks)
             /\ InOrder(steps[p], RankOf(p)) /\ GivesBack(steps[p])
             /\ \A l \in Locks : owner[l] # p
  <2>1. steps[p] = <<>>
    BY SMT DEF LockInit
  <2>2. steps[p] \in Seq(LockOps \X Locks) /\ 1..Len(steps[p]) = {}
    BY SMT, <2>1
  <2>3. \A l \in Locks : owner[l] # p
    BY ProcsAssumption DEF LockInit, Free
  <2> QED
    BY <2>2, <2>3 DEF InOrder, GivesBack
<1>2. DOMAIN steps = Procs /\ reports \subseteq Procs
  BY SMT DEF LockInit
<1>3. owner \in [Locks -> Procs \cup {Free}]
  BY DEF LockInit
<1> QED
  BY <1>1, <1>2, <1>3 DEF LockInv, LockTypeOK

\* A step of one thread does not concern the others.
LEMMA LockStepOf ==
  ASSUME LockInv, NEW p \in Procs, LockTypeOK', DOMAIN steps' = DOMAIN steps,
         \A q \in Procs : q # p => steps'[q] = steps[q],
         \A q \in Procs : q # p => (q \in reports' <=> q \in reports),
         \A l \in Locks : owner'[l] \in {owner[l], Free, p},
         steps'[p] \in Seq(LockOps \X Locks),
         InOrder(steps'[p], RankOf(p)'), GivesBack(steps'[p]),
         \A l \in Locks : owner'[l] = p => Releases(steps'[p], l)
  PROVE  LockInv'
<1>1. ASSUME NEW q \in Procs, q # p
      PROVE  /\ steps'[q] \in Seq(LockOps \X Locks)
             /\ InOrder(steps'[q], RankOf(q)') /\ GivesBack(steps'[q])
             /\ \A l \in Locks : owner'[l] = q => Releases(steps'[q], l)
  <2>1. steps'[q] = steps[q] /\ RankOf(q)' = RankOf(q)
    BY <1>1 DEF RankOf, ReportRank, RequestRank, Locks, Executions, Tasks,
                ActionLocks
  <2>2. \A l \in Locks : owner'[l] = q => owner[l] = q
    BY <1>1, ProcsAssumption DEF Free
  <2> QED
    BY <2>1, <2>2 DEF LockInv
<1> QED
  BY <1>1 DEF LockInv

LEMMA HandleStep ==
  ASSUME LockInv, NEW p \in Procs, Handle(p)
  PROVE  LockInv'
<1>1. PICK h \in RequestHandlers \cup ReportHandlers :
        /\ steps' = [steps EXCEPT ![p] = h] /\ UNCHANGED owner
        /\ reports' \subseteq reports \cup {p} /\ reports \subseteq reports' \cup {p}
        /\ \/ h \in RequestHandlers /\ p \notin reports'
           \/ h \in ReportHandlers /\ p \in reports'
  BY SMT DEF Handle
<1>2. /\ DOMAIN steps' = DOMAIN steps /\ steps'[p] = h
      /\ \A q \in Procs : q # p => steps'[q] = steps[q]
  BY SMT, <1>1 DEF LockInv
<1>3. Block(h, RankOf(p)', 0)
  <2>1. \/ Block(h, RequestRank, 0) /\ p \notin reports'
        \/ Block(h, ReportRank, 0) /\ p \in reports'
    BY <1>1, RequestBlocks, ReportBlocks DEF Blocks
  <2> QED
    BY <2>1 DEF RankOf, RequestRank, ReportRank
<1>4. h \in Seq(LockOps \X Locks)
  BY <1>1, RequestBlocks, ReportBlocks, RankFacts DEF Blocks, Block
\* The thread has no lock.
<1>5. \A l \in Locks : owner[l] # p
  <2>1. steps[p] = <<>>
    BY DEF Handle
  <2>2. 1..Len(steps[p]) = {}
    BY SMT, <2>1
  <2> QED
    BY <2>2 DEF LockInv, Releases
<1>6. LockTypeOK'
  BY <1>1 DEF LockInv, LockTypeOK
<1> QED
  BY <1>1, <1>2, <1>3, <1>4, <1>5, <1>6, LockStepOf DEF Block

LEMMA LockStep ==
  ASSUME LockInv, NEW p \in Procs, Step(p)
  PROVE  LockInv'
<1> DEFINE s == steps[p]
           what == Head(s)[1]
           l == Head(s)[2]
<1>1. /\ s \in Seq(LockOps \X Locks) /\ s # <<>>
      /\ InOrder(s, RankOf(p)) /\ GivesBack(s)
  BY DEF LockInv, Step
<1>2. /\ DOMAIN steps' = DOMAIN steps /\ steps'[p] = Tail(s) /\ UNCHANGED reports
      /\ \A q \in Procs : q # p => steps'[q] = steps[q]
  BY SMT DEF LockInv, Step
<1>3. DOMAIN RankOf(p) = Locks /\ RankOf(p)' = RankOf(p)
  BY <1>2, RankFacts DEF RankOf, RequestRank, ReportRank, Locks, Executions,
                         Tasks, ActionLocks
<1>4. s[1] = <<what, l>> /\ l \in Locks
  <2>1. s[1] = Head(s) /\ Head(s) \in LockOps \X Locks
    BY SMT, <1>1
  <2> QED
    BY SMT, <2>1
<1> HIDE DEF s, what, l
<1>5. owner' = IF what = "acquire" THEN [owner EXCEPT ![l] = p]
               ELSE IF what = "release" THEN [owner EXCEPT ![l] = Free] ELSE owner
  BY DEF Step, s, what, l
<1>6. owner \in [Locks -> Procs \cup {Free}]
  BY DEF LockInv, LockTypeOK
<1>7. /\ owner' \in [Locks -> Procs \cup {Free}]
      /\ \A m \in Locks :
           owner'[m] = IF m = l /\ what = "acquire" THEN p
                       ELSE IF m = l /\ what = "release" THEN Free ELSE owner[m]
  BY SMT, <1>4, <1>5, <1>6
<1>8. LockTypeOK'
  BY <1>2, <1>7 DEF LockInv, LockTypeOK
<1>9. /\ InOrder(Tail(s), RankOf(p)) /\ GivesBack(Tail(s))
      /\ Tail(s) \in Seq(LockOps \X Locks)
      /\ \A m : s[1] = <<"acquire", m>> => Releases(Tail(s), m)
      /\ \A m : Releases(s, m) /\ s[1] # <<"release", m>> => Releases(Tail(s), m)
  BY <1>1, <1>3, TailInOrder
<1>10. ASSUME NEW m \in Locks, owner'[m] = p
       PROVE  Releases(Tail(s), m)
  <2>1. CASE m = l /\ what = "acquire"
    BY <1>4, <1>9, <2>1
  <2>2. CASE ~(m = l /\ what = "acquire")
    <3>1. ~(m = l /\ what = "release") /\ owner[m] = p
      BY <1>7, <1>10, <2>2, ProcsAssumption DEF Free
    <3>2. s[1] # <<"release", m>>
      BY SMT, <1>4, <3>1
    <3>3. Releases(s, m)
      BY <3>1 DEF LockInv, s
    <3> QED
      BY <1>9, <3>2, <3>3
  <2> QED
    BY <2>1, <2>2
<1> QED
  BY <1>2, <1>3, <1>7, <1>8, <1>9, <1>10, LockStepOf

LEMMA RaiseStep ==
  ASSUME LockInv, NEW p \in Procs, Raise(p)
  PROVE  LockInv'
<1>1. /\ DOMAIN steps' = DOMAIN steps /\ steps'[p] = <<>> /\ UNCHANGED reports
      /\ \A q \in Procs : q # p => steps'[q] = steps[q]
  BY SMT DEF LockInv, Raise
<1>2. steps'[p] \in Seq(LockOps \X Locks) /\ 1..Len(steps'[p]) = {}
  BY SMT, <1>1
<1>3. owner \in [Locks -> Procs \cup {Free}]
  BY DEF LockInv, LockTypeOK
<1>4. /\ owner' \in [Locks -> Procs \cup {Free}]
      /\ \A l \in Locks : owner'[l] = IF owner[l] = p THEN Free ELSE owner[l]
  BY SMT, <1>3 DEF Raise
<1>5. \A l \in Locks : owner'[l] # p /\ owner'[l] \in {owner[l], Free}
  BY <1>4, ProcsAssumption DEF Free
<1>6. LockTypeOK'
  BY <1>1, <1>4 DEF LockInv, LockTypeOK
<1>7. InOrder(steps'[p], RankOf(p)') /\ GivesBack(steps'[p])
  BY <1>2 DEF InOrder, GivesBack
<1> QED
  BY <1>1, <1>2, <1>5, <1>6, <1>7, LockStepOf

LEMMA NextLocks ==
  ASSUME LockInv, [LockNext]_lockVars
  PROVE  LockInv'
<1>1. CASE UNCHANGED lockVars
  BY <1>1 DEF lockVars, LockInv, RankOf, RequestRank, ReportRank, LockTypeOK
<1> QED
  BY <1>1, HandleStep, LockStep, RaiseStep DEF LockNext

-----------------------------------------------------------------------------
(***************************************************************************)
(* The machines of the pools                                               *)
(*                                                                         *)
(* Whatever the actions have selected, and wherever the request of one has *)
(* failed: first, that an action which is over, or was refused, holds no   *)
(* machine of any pool.  The invariant says so of the actions which have   *)
(* not asked yet as well, and that machines are rows with a pool, a status *)
(* and an action.                                                          *)
(***************************************************************************)

IsRow(x) == x = [pool |-> x.pool, status |-> x.status, action |-> x.action]

HeldInv ==
  /\ DOMAIN machine = Machines /\ \A m \in Machines : IsRow(machine[m])
  /\ DOMAIN at = Actions /\ at = [a \in Actions |-> at[a]]
  /\ \A a \in Actions : at[a] \in {"new", "over"} =>
       \A m \in Machines : machine[m].action # a

\* Machines are marked as an action's only by its own request, which is neither new
\* nor over by then.
LEMMA OthersKept ==
  ASSUME HeldInv, NEW a \in Actions,
         DOMAIN machine' = Machines, \A m \in Machines : IsRow(machine'[m]),
         \A m \in Machines : machine'[m].action \in {machine[m].action, "none", a},
         "none" \notin Actions,
         NEW place, at' = [at EXCEPT ![a] = place],
         place \in {"new", "over"} => \A m \in Machines : machine'[m].action # a
  PROVE  HeldInv'
<1>1. /\ DOMAIN at' = Actions /\ at' = [b \in Actions |-> at'[b]]
      /\ at'[a] = place /\ \A b \in Actions : b # a => at'[b] = at[b]
  BY DEF HeldInv
<1>2. ASSUME NEW b \in Actions, at'[b] \in {"new", "over"}, NEW m \in Machines
      PROVE  machine'[m].action # b
  <2>1. CASE b = a
    BY <1>1, <1>2, <2>1
  <2>2. CASE b # a
    BY <1>1, <1>2, <2>2 DEF HeldInv
  <2> QED
    BY <2>1, <2>2
<1> QED
  BY <1>1, <1>2 DEF HeldInv

\* The rows which there are no machines for, and those which are marked.
LEMMA RowFacts ==
  /\ IsRow(NoMachine) /\ NoMachine.action = "none"
  /\ \A p, status, a : /\ IsRow(Machine(p, status, a))
                       /\ Machine(p, status, a).action = a
BY DEF IsRow, NoMachine, Machine

\* A row whose status is set is a row, of the same action.
LEMMA StatusKeepsRow ==
  ASSUME NEW x, IsRow(x), NEW status
  PROVE  /\ IsRow([x EXCEPT !.status = status])
         /\ [x EXCEPT !.status = status].action = x.action
<1>1. PICK p, s, a : x = [pool |-> p, status |-> s, action |-> a]
  BY DEF IsRow
<1>2. [x EXCEPT !.status = status] = [pool |-> p, status |-> status, action |-> a]
  BY SMT, <1>1
<1> QED
  BY <1>1, <1>2 DEF IsRow

\* What the owners of pools do gives no action a machine.
LEMMA PoolSteps ==
  ASSUME HeldInv, "none" \notin Actions, UNCHANGED at,
         DOMAIN machine' = Machines,
         \A m \in Machines :
           \/ machine'[m] = machine[m]
           \/ IsRow(machine'[m]) /\ machine'[m].action = "none"
  PROVE  HeldInv'
BY DEF HeldInv

LEMMA RequestSteps ==
  ASSUME HeldInv, "none" \notin Actions, NEW a \in Actions,
         \/ validate_minion_pool_selections_for_action(a)
         \/ \E r \in todo[a] : \/ RefusesAllocation(a, r)
                               \/ _make_minion_machine_allocation_subflow_for_action(a, r)
                               \/ AllocationFails(a, r)
         \/ _run_machine_allocation_subflow_for_action(a)
  PROVE  HeldInv'
<1>1. CASE \/ validate_minion_pool_selections_for_action(a)
           \/ \E r \in todo[a] : RefusesAllocation(a, r)
           \/ _run_machine_allocation_subflow_for_action(a)
  <2>1. UNCHANGED machine
    BY <1>1 DEF validate_minion_pool_selections_for_action, RefusesAllocation,
       _run_machine_allocation_subflow_for_action
  <2>2. \E place \in {"allocating", "cleanup", "flow"} : at' = [at EXCEPT ![a] = place]
    BY <1>1 DEF validate_minion_pool_selections_for_action, RefusesAllocation,
       _run_machine_allocation_subflow_for_action
  <2>3. PICK place \in {"allocating", "cleanup", "flow"} : at' = [at EXCEPT ![a] = place]
    BY <2>2
  <2>4. place \notin {"new", "over"}
    BY <2>3
  <2>5. DOMAIN machine' = Machines /\ \A m \in Machines : IsRow(machine'[m])
    BY <2>1 DEF HeldInv
  <2> QED
    BY <2>1, <2>3, <2>4, <2>5, OthersKept
<1>2. ASSUME NEW r \in todo[a],
             \/ _make_minion_machine_allocation_subflow_for_action(a, r)
             \/ AllocationFails(a, r)
      PROVE  HeldInv'
  <2>1. \E marked : machine' = Marked(a, r.pool, marked)
    BY <1>2 DEF _make_minion_machine_allocation_subflow_for_action, AllocationFails
  <2>2. PICK marked : machine' = Marked(a, r.pool, marked)
    BY <2>1
  <2>3. DOMAIN machine' = Machines
    BY <2>2 DEF Marked
  <2>4. \A m \in Machines : IsRow(machine'[m])
                            /\ machine'[m].action \in {machine[m].action, a}
    BY SMT, <2>2, RowFacts DEF Marked, HeldInv
  <2>5. \E place \in {"allocating", "cleanup"} : at' = [at EXCEPT ![a] = place]
    BY <1>2 DEF _make_minion_machine_allocation_subflow_for_action, AllocationFails
  <2>6. PICK place \in {"allocating", "cleanup"} : at' = [at EXCEPT ![a] = place]
    BY <2>5
  <2>7. place \notin {"new", "over"}
    BY <2>6
  <2> QED
    BY <2>3, <2>4, <2>6, <2>7, OthersKept
<1> QED
  BY <1>1, <1>2

LEMMA FlowSteps ==
  ASSUME HeldInv, "none" \notin Actions, NEW a \in Actions,
         \/ _cleanup_machines_with_statuses_for_action(a)
         \/ FlowSucceeds(a) \/ FlowFails(a) \/ ExecutionEnds(a)
  PROVE  HeldInv'
<1>1. \A m \in Machines : IsRow(machine[m]) /\ DOMAIN machine = Machines
  BY DEF HeldInv
<1>2. \A m \in Machines : /\ IsRow([machine[m] EXCEPT !.status = "IN_USE"])
                          /\ [machine[m] EXCEPT !.status = "IN_USE"].action
                               = machine[m].action
  BY <1>1, StatusKeepsRow
<1>3. /\ DOMAIN machine' = Machines
      /\ \A m \in Machines : \/ machine'[m] = machine[m]
                             \/ machine'[m] = NoMachine
                             \/ machine'[m] = [machine[m] EXCEPT !.status = "IN_USE"]
  <2>1. CASE \/ _cleanup_machines_with_statuses_for_action(a) \/ FlowFails(a)
    BY <2>1 DEF _cleanup_machines_with_statuses_for_action, FlowFails
  <2>2. CASE FlowSucceeds(a)
    BY <2>2 DEF FlowSucceeds
  <2>3. CASE ExecutionEnds(a)
    BY <2>3 DEF ExecutionEnds, HeldInv
  <2> QED
    BY <2>1, <2>2, <2>3
<1>4. \A m \in Machines : IsRow(machine'[m])
                          /\ machine'[m].action \in {machine[m].action, "none"}
  BY <1>1, <1>2, <1>3, RowFacts
<1>5. \E place \in {"deallocate", "confirmed"} : at' = [at EXCEPT ![a] = place]
  BY DEF _cleanup_machines_with_statuses_for_action, FlowSucceeds, FlowFails,
     ExecutionEnds
<1>6. PICK place \in {"deallocate", "confirmed"} : at' = [at EXCEPT ![a] = place]
  BY <1>5
<1>7. place \notin {"new", "over"}
  BY <1>6
<1> QED
  BY <1>3, <1>4, <1>6, <1>7, OthersKept

LEMMA DeallocateStep ==
  ASSUME HeldInv, "none" \notin Actions, NEW a \in Actions,
         deallocate_minion_machines_for_action(a)
  PROVE  HeldInv'
<1>1. /\ at' = [at EXCEPT ![a] = "over"] /\ DOMAIN machine' = Machines
      /\ \A m \in Machines :
           \/ machine'[m] = machine[m] /\ machine[m].action # a
           \/ machine'[m] = NoMachine
           \/ machine'[m] = Machine(machine[m].pool, "AVAILABLE", "none")
  BY DEF deallocate_minion_machines_for_action, AllocatedTo
<1>2. \A m \in Machines : IsRow(machine'[m]) /\ machine'[m].action # a
                          /\ machine'[m].action \in {machine[m].action, "none"}
  BY SMT, <1>1, RowFacts DEF HeldInv
<1> QED
  BY <1>1, <1>2, OthersKept

-----------------------------------------------------------------------------
LEMMA InitHeldInv == ASSUME SelectionsInit, "none" \notin Actions PROVE HeldInv
<1>1. machine = [m \in Machines |-> NoMachine] /\ at = [a \in Actions |-> "new"]
  BY DEF SelectionsInit
<1> QED
  BY <1>1, RowFacts DEF HeldInv

LEMMA NextHeldInv ==
  ASSUME HeldInv, "none" \notin Actions, [SelectionsNext]_selectionVars
  PROVE  HeldInv'
<1>1. CASE UNCHANGED selectionVars
  BY <1>1 DEF selectionVars, HeldInv
<1>2. CASE \E p \in Pools : \/ allocate_minion_pool(p) \/ deallocate_minion_pool(p)
                            \/ PoolDeallocated(p)
  <2>1. /\ UNCHANGED at /\ DOMAIN machine' = Machines
        /\ \A m \in Machines : \/ machine'[m] = machine[m] \/ machine'[m] = NoMachine
                               \/ \E p : machine'[m] = Machine(p, "AVAILABLE", "none")
    BY SMT, <1>2 DEF allocate_minion_pool, deallocate_minion_pool, PoolDeallocated,
       HeldInv
  <2> QED
    BY SMT, <2>1, RowFacts, PoolSteps
<1>3. CASE \E u \in Patches :
             \/ update_minion_pool(u)
             \/ \E p \in Pools :
                  \/ \E field \in {"minimum", "maximum"}, value \in {1, 2} :
                       _validate_update_body(u, p, field, value)
                  \/ _validate_update_body(u, p, "os_type", "windows")
  <2>1. UNCHANGED <<machine, at>>
    BY <1>3 DEF update_minion_pool, _validate_update_body
  <2> QED
    BY <2>1 DEF HeldInv
<1> QED
  BY <1>1, <1>2, <1>3, RequestSteps, FlowSteps, DeallocateStep
     DEF SelectionsNext

\* The invariant, where no action has the name by which a machine has none.
THEOREM HeldInvariant == "none" \notin Actions /\ SelectionsSpec => []HeldInv
<1>1. CASE "none" \notin Actions
  BY <1>1, InitHeldInv, NextHeldInv, PTL DEF SelectionsSpec
<1> QED
  BY <1>1

\* An action which is over, or was refused by any of its pools, holds no machine of
\* the others (_cleanup_machines_with_statuses_for_action and
\* deallocate_minion_machines_for_action after any failure).
THEOREM OverHoldsNone == "none" \notin Actions /\ SelectionsSpec => []OverHoldsNothing
<1>1. HeldInv => OverHoldsNothing
  BY DEF HeldInv, OverHoldsNothing, AllocatedTo
<1> QED
  BY <1>1, HeldInvariant, PTL

-----------------------------------------------------------------------------
(* What an action's request has got.                                       *)
(*                                                                         *)
(* A pool which is not allocated has no machine that is used, an update    *)
(* which was accepted is still right for its pool, and a request holds the *)
(* machines it was given until it is over: only together do these keep a   *)
(* pool within its maximum, with identifiers left for new machines.        *)

PoolStatuses == {"DEALLOCATED", "ALLOCATED", "POOL_MAINTENANCE"}

Places == {"new", "allocating", "cleanup", "deallocate", "flow", "confirmed", "over"}

IsPool(x) ==
  /\ x = [endpoint |-> x.endpoint, platform |-> x.platform, os_type |-> x.os_type,
          minimum |-> x.minimum, maximum |-> x.maximum, status |-> x.status]
  /\ x.minimum \in {1, 2} /\ x.maximum \in {1, 2} /\ x.minimum <= x.maximum
  /\ x.status \in PoolStatuses

PoolsType == pools = [p \in Pools |-> pools[p]] /\ \A p \in Pools : IsPool(pools[p])

MachineRows == [pool : Pools, action : Actions \cup {"none"},
                status : {"AVAILABLE", "UNINITIALIZED", "RESERVED", "IN_USE"}]

\* A machine is available if it is no action's.
IsMachine(x) ==
  x = NoMachine \/ (x \in MachineRows /\ (x.status = "AVAILABLE" <=> x.action = "none"))

MachinesType ==
  machine = [m \in Machines |-> machine[m]] /\ \A m \in Machines : IsMachine(machine[m])

RequestsType ==
  /\ at \in [Actions -> Places] /\ selection \in [Actions -> Selections]
  /\ todo = [a \in Actions |-> todo[a]] /\ \A a \in Actions : todo[a] \subseteq Roles(a)
  /\ allocations = [a \in Actions |-> allocations[a]]
  /\ \A a \in Actions : \A g \in allocations[a] : g.machine \in Machines

\* An update which was accepted is still right for its pool.
PatchInv ==
  /\ patch = [u \in Patches |-> patch[u]]
  /\ \A u \in Patches : Asked(u) =>
       \/ /\ patch[u].field = "minimum" /\ patch[u].value \in {1, 2}
          /\ patch[u].value <= pools[patch[u].pool].maximum
       \/ /\ patch[u].field = "maximum" /\ patch[u].value \in {1, 2}
          /\ pools[patch[u].pool].minimum <= patch[u].value
       \/ patch[u].field = "os_type"

PoolInv ==
  \A p \in Pools :
    /\ Cardinality(MachinesOf(p)) <= pools[p].maximum
    /\ pools[p].status = "DEALLOCATED" => MachinesOf(p) = {}
    /\ pools[p].status # "ALLOCATED" => MachinesOf(p) = Available(p)

Side(role) == IF role = "origin" THEN "source" ELSE "destination"

HasMachine(a, i, r) ==
  \E g \in allocations[a] :
    g.instance = i /\ g.role = r.role /\ machine[g.machine].pool = r.pool

\* The machines which the request of an action has so far.
Given(a) ==
  /\ \A r \in Roles(a) : InstancesFor(a, r) \subseteq Instances =>
       pools[r.pool].platform = Side(r.role)
  /\ \A r \in Roles(a) \ todo[a] :
       /\ InstancesFor(a, r) \subseteq Instances
       /\ \A i \in InstancesFor(a, r) : HasMachine(a, i, r)
  /\ \A g \in allocations[a] : machine[g.machine].action = a
  /\ \A g, h \in allocations[a] : g # h => g.machine # h.machine

RequestInv(a) ==
  /\ at[a] = "new" => allocations[a] = {}
  /\ at[a] \in {"allocating", "flow", "confirmed"} => Given(a)
  /\ at[a] \in {"flow", "confirmed"} => todo[a] = {}
  /\ at[a] = "confirmed" => \A m \in AllocatedTo(a) : machine[m].status = "IN_USE"

SelType == PoolsType /\ MachinesType /\ RequestsType
SelInv == SelType /\ PatchInv /\ PoolInv /\ \A a \in Actions : RequestInv(a)

\* An update is made before another one is accepted.
OneUpdate == \A u, v \in Patches : Asked(u) /\ Asked(v) => u = v

-----------------------------------------------------------------------------
(* The machines there are.                                                 *)

\* The sets of machines and of instances are finite.
LEMMA FiniteMachines ==
  ASSUME NEW S \in SUBSET Machines
  PROVE  IsFiniteSet(S) /\ Cardinality(S) \in Nat
BY SelectionsAssumption, FS_Subset, FS_CardinalityType

\* A finite set has subsets of every size below its own.
LEMMA SubsetOfSize ==
  ASSUME NEW S, IsFiniteSet(S), NEW n \in Nat, n <= Cardinality(S)
  PROVE  \E T \in SUBSET S : Cardinality(T) = n
<1>1. Cardinality(S) \in Nat /\ ExistsBijection(1..Cardinality(S), S)
  BY FS_CardinalityType
<1>2. PICK f : f \in Bijection(1..Cardinality(S), S)
  BY <1>1 DEF ExistsBijection
<1>3. /\ f \in [1..Cardinality(S) -> S]
      /\ \A i, j \in 1..Cardinality(S) : f[i] = f[j] => i = j
  BY <1>2 DEF Bijection, Injection, IsInjective
<1>4. 1..n \subseteq 1..Cardinality(S)
  BY SMT, <1>1
<1> DEFINE T == {f[i] : i \in 1..n}
<1> DEFINE g == [i \in 1..n |-> f[i]]
<1>5. g \in Bijection(1..n, T)
  <2>1. g \in [1..n -> T] /\ \A t \in T : \E i \in 1..n : g[i] = t
    OBVIOUS
  <2>2. \A i, j \in 1..n : g[i] = g[j] => i = j
    BY <1>3, <1>4
  <2> QED
    BY <2>1, <2>2 DEF Bijection, Injection, Surjection, IsInjective
<1>6. IsFiniteSet(1..n) /\ Cardinality(1..n) = n
  BY SMT, FS_Interval
<1>7. Cardinality(T) = n
  BY SMT, <1>5, <1>6, FS_Bijection DEF ExistsBijection
<1>8. T \in SUBSET S
  BY <1>3, <1>4
<1> QED
  BY <1>7, <1>8

Unused == {m \in Machines : machine[m] = NoMachine}

\* There are identifiers for as many machines as a pool may still have: the machines of
\* a pool are numbered, so that all of them are different pairs of a pool and a number.
LEMMA RoomForMachines ==
  ASSUME MachinesType, \A p \in Pools : Cardinality(MachinesOf(p)) <= 2, NEW p \in Pools
  PROVE  2 - Cardinality(MachinesOf(p)) <= Cardinality(Unused)
<1> DEFINE Number(q) == CHOOSE f \in [MachinesOf(q) -> 1..Cardinality(MachinesOf(q))] :
                          \A m, k \in MachinesOf(q) : f[m] = f[k] => m = k
<1>1. ASSUME NEW q \in Pools
      PROVE  /\ Number(q) \in [MachinesOf(q) -> 1..Cardinality(MachinesOf(q))]
             /\ \A m, k \in MachinesOf(q) : Number(q)[m] = Number(q)[k] => m = k
  <2>1. IsFiniteSet(MachinesOf(q)) /\ Cardinality(MachinesOf(q)) \in Nat
    BY FiniteMachines DEF MachinesOf
  <2>2. /\ IsFiniteSet(1..Cardinality(MachinesOf(q)))
        /\ Cardinality(1..Cardinality(MachinesOf(q))) = Cardinality(MachinesOf(q))
    BY SMT, <2>1, FS_Interval
  <2>3. PICK f : f \in Bijection(MachinesOf(q), 1..Cardinality(MachinesOf(q)))
    BY <2>1, <2>2, FS_SameCardinalityBij DEF ExistsBijection
  <2>4. /\ f \in [MachinesOf(q) -> 1..Cardinality(MachinesOf(q))]
        /\ \A m, k \in MachinesOf(q) : f[m] = f[k] => m = k
    BY <2>3 DEF Bijection, Injection, IsInjective
  <2> QED
    BY <2>4
<1> HIDE DEF Number
<1> DEFINE Used == Machines \ Unused
<1> DEFINE n == Cardinality(MachinesOf(p))
<1> DEFINE Spare == {p} \X ((n + 1)..2)
<1> DEFINE Pairs == (Pools \X (1..2)) \ Spare
<1>2. \A m \in Used : machine[m].pool \in Pools /\ m \in MachinesOf(machine[m].pool)
  BY DEF Unused, MachinesType, IsMachine, MachineRows, MachinesOf
<1> DEFINE place == [m \in Used |-> <<machine[m].pool, Number(machine[m].pool)[m]>>]
<1>3. n \in Nat /\ n <= 2
  BY FiniteMachines DEF MachinesOf
<1>4. place \in Injection(Used, Pairs)
  <2>1. ASSUME NEW m \in Used
        PROVE  <<machine[m].pool, Number(machine[m].pool)[m]>> \in Pairs
    <3>1. /\ machine[m].pool \in Pools
          /\ Number(machine[m].pool)[m] \in 1..Cardinality(MachinesOf(machine[m].pool))
      BY SMT, <1>1, <1>2
    <3>2. /\ Cardinality(MachinesOf(machine[m].pool)) \in Nat
          /\ Cardinality(MachinesOf(machine[m].pool)) <= 2
      BY <3>1, FiniteMachines DEF MachinesOf
    <3> QED
      BY SMT, <1>3, <3>1, <3>2
  <2>2. ASSUME NEW m \in Used, NEW k \in Used, place[m] = place[k]
        PROVE  m = k
    <3>1. machine[m].pool = machine[k].pool
      BY <2>2
    <3>2. Number(machine[m].pool)[m] = Number(machine[m].pool)[k]
      BY <2>2, <3>1
    <3> QED
      BY <1>1, <1>2, <3>1, <3>2
  <2>3. place \in [Used -> Pairs]
    BY <2>1
  <2> HIDE DEF place, Pairs
  <2> QED
    BY <2>2, <2>3 DEF Injection, IsInjective
<1>5. IsFiniteSet(Pairs) /\ Cardinality(Pairs) = 2 * Cardinality(Pools) - (2 - n)
  <2> DEFINE Two == 1..2
  <2> DEFINE Rest == (n + 1)..2
  <2>1. /\ IsFiniteSet(Two) /\ Cardinality(Two) = 2
        /\ IsFiniteSet(Rest) /\ Cardinality(Rest) = 2 - n
    <3>1. 1 \in Int /\ 2 \in Int /\ n + 1 \in Int
      BY SMT, <1>3
    <3>2. /\ IsFiniteSet(1..2) /\ Cardinality(1..2) = IF 1 > 2 THEN 0 ELSE 2 - 1 + 1
          /\ IsFiniteSet((n + 1)..2)
          /\ Cardinality((n + 1)..2) = IF n + 1 > 2 THEN 0 ELSE 2 - (n + 1) + 1
      BY <3>1, FS_Interval
    <3> QED
      BY SMT, <1>3, <3>2
  <2>2. Rest \subseteq Two
    BY SMT, <1>3
  <2>3. Pairs = (Pools \X Two) \ Spare /\ Spare = {p} \X Rest
    OBVIOUS
  <2> HIDE DEF Two, Rest, Pairs, Spare
  <2>4. /\ IsFiniteSet(Pools \X Two)
        /\ Cardinality(Pools \X Two) = Cardinality(Pools) * Cardinality(Two)
    BY <2>1, SelectionsAssumption, FS_Product
  <2>5. IsFiniteSet({p}) /\ Cardinality({p}) = 1
    BY FS_Singleton
  <2>6. /\ IsFiniteSet({p} \X Rest)
        /\ Cardinality({p} \X Rest) = Cardinality({p}) * Cardinality(Rest)
    BY <2>1, <2>5, FS_Product
  <2>7. (Pools \X Two) \cap Spare = Spare
    BY <2>2, <2>3
  <2>8. /\ IsFiniteSet((Pools \X Two) \ Spare)
        /\ Cardinality((Pools \X Two) \ Spare)
             = Cardinality(Pools \X Two) - Cardinality((Pools \X Two) \cap Spare)
    BY <2>4, FS_Difference
  <2>9. Cardinality(Pools) \in Nat
    BY SelectionsAssumption, FS_CardinalityType
  <2>10. Cardinality(Spare) = 2 - n
    BY SMT, <1>3, <2>1, <2>3, <2>5, <2>6
  <2>11. Cardinality(Pools \X Two) = 2 * Cardinality(Pools)
    BY SMT, <2>1, <2>4, <2>9
  <2>12. IsFiniteSet(Pairs) /\ Cardinality(Pairs) = Cardinality(Pools \X Two) - Cardinality(Spare)
    BY <2>3, <2>7, <2>8
  <2> QED
    BY <2>10, <2>11, <2>12
<1>6. Cardinality(Used) <= 2 * Cardinality(Pools) - (2 - n)
  BY SMT, <1>4, <1>5, FS_Injection
<1>7. Cardinality(Used) = Cardinality(Machines) - Cardinality(Unused)
  <2>1. Machines \cap Unused = Unused
    BY DEF Unused
  <2> QED
    BY <2>1, SelectionsAssumption, FS_Difference
<1>8. /\ Cardinality(Used) \in Nat /\ Cardinality(Unused) \in Nat
      /\ Cardinality(Machines) \in Nat /\ Cardinality(Pools) \in Nat
  BY SelectionsAssumption, FiniteMachines, FS_CardinalityType DEF Unused
<1> QED
  BY SMT, <1>3, <1>6, <1>7, <1>8, SelectionsAssumption

\* No pool has more than two machines, and there are identifiers for the new ones.
LEMMA FreshFacts ==
  ASSUME PoolsType, MachinesType, PoolInv, NEW p \in Pools,
         NEW n \in Nat, n <= 2 - Cardinality(MachinesOf(p))
  PROVE  Fresh(n) \subseteq Unused /\ Cardinality(Fresh(n)) = n
<1>1. ASSUME NEW q \in Pools PROVE Cardinality(MachinesOf(q)) <= 2
  <2>1. Cardinality(MachinesOf(q)) \in Nat
    BY FiniteMachines DEF MachinesOf
  <2> QED
    BY SMT, <2>1 DEF PoolInv, PoolsType, IsPool
<1>2. /\ n <= Cardinality(Unused) /\ IsFiniteSet(Unused)
  <2>1. Cardinality(MachinesOf(p)) \in Nat /\ Cardinality(Unused) \in Nat /\ IsFiniteSet(Unused)
    BY FiniteMachines DEF MachinesOf, Unused
  <2> QED
    BY SMT, <1>1, <2>1, RoomForMachines
<1>3. \E new \in SUBSET Unused : Cardinality(new) = n
  BY <1>2, SubsetOfSize
<1>4. Fresh(n) = CHOOSE new \in SUBSET Unused : Cardinality(new) = n
  BY DEF Fresh, Unused
<1> QED
  BY <1>3, <1>4

\* As many machines as are asked for, available or new, and no more than the pool may
\* have.
LEMMA PreferredFacts ==
  ASSUME PoolsType, MachinesType, PoolInv, NEW p \in Pools, NEW count \in Nat,
         count <= Cardinality(Available(p)) + ExtraSlots(p)
  PROVE  LET some == Preferred(count, Available(p))
         IN /\ some \subseteq Available(p) \cup Unused
            /\ Cardinality(some) = count
            /\ Cardinality(MachinesOf(p) \cup some) <= pools[p].maximum
<1> DEFINE some == Preferred(count, Available(p))
<1>1. /\ Available(p) \subseteq MachinesOf(p) /\ MachinesOf(p) \subseteq Machines
      /\ Unused \subseteq Machines /\ MachinesOf(p) \cap Unused = {}
  BY SMT, SelectionsAssumption DEF Available, MachinesOf, Unused, NoMachine
<1>2. /\ IsFiniteSet(Available(p)) /\ IsFiniteSet(MachinesOf(p))
      /\ Cardinality(Available(p)) \in Nat /\ Cardinality(MachinesOf(p)) \in Nat
  BY <1>1, FiniteMachines
<1>3. pools[p].maximum \in {1, 2} /\ Cardinality(MachinesOf(p)) <= pools[p].maximum
  BY DEF PoolsType, IsPool, PoolInv
<1>4. CASE count <= Cardinality(Available(p))
  <2>1. some \in SUBSET Available(p) /\ Cardinality(some) = count
    BY <1>2, <1>4, SubsetOfSize DEF Preferred
  <2>2. MachinesOf(p) \cup some = MachinesOf(p)
    BY <1>1, <2>1
  <2> QED
    BY <1>3, <2>1, <2>2
<1>5. CASE ~(count <= Cardinality(Available(p)))
  <2> DEFINE k == count - Cardinality(Available(p))
  <2>1. /\ k \in Nat /\ k <= 2 - Cardinality(MachinesOf(p))
        /\ k <= pools[p].maximum - Cardinality(MachinesOf(p))
    BY SMT, <1>2, <1>3, <1>5 DEF ExtraSlots
  <2>2. some = Available(p) \cup Fresh(k)
    BY <1>5 DEF Preferred
  <2>3. Fresh(k) \subseteq Unused /\ Cardinality(Fresh(k)) = k
    BY <2>1, FreshFacts
  <2>4. k = count - Cardinality(Available(p))
    OBVIOUS
  <2> HIDE DEF some, k
  <2>5. /\ IsFiniteSet(Fresh(k)) /\ Available(p) \cap Fresh(k) = {}
        /\ MachinesOf(p) \cap Fresh(k) = {}
    BY <1>1, <2>3, FiniteMachines
  <2>6. Cardinality({}) = 0
    BY FS_EmptySet
  <2>7. Cardinality(Available(p) \cup Fresh(k)) = Cardinality(Available(p)) + k - 0
    BY <1>2, <2>3, <2>5, <2>6, FS_Union
  <2>8. Cardinality(MachinesOf(p) \cup Fresh(k)) = Cardinality(MachinesOf(p)) + k - 0
    BY SMT, <1>2, <2>3, <2>5, <2>6, FS_Union
  <2>9. MachinesOf(p) \cup some = MachinesOf(p) \cup Fresh(k)
    BY <1>1, <2>2
  <2>10. Cardinality(some) = count
    BY SMT, <1>2, <2>1, <2>2, <2>4, <2>7
  <2>11. Cardinality(MachinesOf(p) \cup some) <= pools[p].maximum
    <3>1. Cardinality(MachinesOf(p) \cup some) = Cardinality(MachinesOf(p) \cup Fresh(k))
      BY <2>9
    <3> QED
      BY SMT, <1>2, <1>3, <2>1, <2>8, <3>1
  <2> QED
    BY <2>2, <2>3, <2>10, <2>11 DEF some
<1> QED
  BY <1>4, <1>5

\* Each of the instances has one of the machines of its own.
LEMMA AssignmentFacts ==
  ASSUME PoolsType, MachinesType, PoolInv, NEW p \in Pools,
         NEW wanted, IsFiniteSet(wanted),
         Cardinality(wanted) <= Cardinality(Available(p)) + ExtraSlots(p)
  PROVE  LET of == Assignment(wanted, Available(p))
             some == Preferred(Cardinality(wanted), Available(p))
         IN /\ of \in [wanted -> some]
            /\ \A i, j \in wanted : i # j => of[i] # of[j]
<1> DEFINE some == Preferred(Cardinality(wanted), Available(p))
<1>1. Cardinality(wanted) \in Nat
  BY FS_CardinalityType
<1>2. some \subseteq Available(p) \cup Unused /\ Cardinality(some) = Cardinality(wanted)
  BY <1>1, PreferredFacts
<1>3. IsFiniteSet(some)
  BY <1>2, FiniteMachines DEF Available, MachinesOf, Unused
<1> HIDE DEF some
<1>4. PICK f : f \in Bijection(wanted, some)
  BY <1>2, <1>3, FS_SameCardinalityBij DEF ExistsBijection
<1>5. f \in [wanted -> some] /\ \A i, j \in wanted : i # j => f[i] # f[j]
  BY <1>4 DEF Bijection, Injection, IsInjective
<1> QED
  BY <1>5 DEF Assignment, some

-----------------------------------------------------------------------------
(* What a step leaves as it is.                                            *)

\* A request goes on as before where others take steps.
LEMMA RequestKept ==
  ASSUME RequestsType, NEW a \in Actions, RequestInv(a), UNCHANGED selection,
         at'[a] = at[a], todo'[a] = todo[a], allocations'[a] = allocations[a],
         \A p \in Pools : pools'[p].platform = pools[p].platform,
         \A m \in Machines : machine[m].action = a => machine'[m] = machine[m],
         \A m \in Machines : machine'[m].action = a => machine[m].action = a
  PROVE  RequestInv(a)'
<1>1. /\ Roles(a)' = Roles(a)
      /\ \A r : InstancesFor(a, r)' = InstancesFor(a, r)
  BY DEF Roles, InstancesFor, Mapped
<1>2. \A r \in Roles(a) : r.pool \in Pools
  BY SMT DEF Roles
<1>3. AllocatedTo(a)' = AllocatedTo(a)
  BY DEF AllocatedTo
<1>4. \A m \in AllocatedTo(a) : machine'[m] = machine[m]
  BY DEF AllocatedTo
<1>5. ASSUME Given(a)
      PROVE  Given(a)'
  <2>1. \A g \in allocations[a] : machine'[g.machine] = machine[g.machine]
    BY <1>5 DEF Given, RequestsType
  <2>2. \A r : \A i : HasMachine(a, i, r) => HasMachine(a, i, r)'
    BY <2>1 DEF HasMachine
  <2>3. \A r \in Roles(a)' : InstancesFor(a, r)' \subseteq Instances =>
          pools'[r.pool].platform = Side(r.role)
    BY <1>1, <1>2, <1>5 DEF Given
  <2>4. \A r \in Roles(a)' \ todo'[a] :
          /\ InstancesFor(a, r)' \subseteq Instances
          /\ \A i \in InstancesFor(a, r)' : HasMachine(a, i, r)'
    BY SMT, <1>1, <1>5, <2>2 DEF Given
  <2>5. /\ \A g \in allocations'[a] : machine'[g.machine].action = a
        /\ \A g, h \in allocations'[a] : g # h => g.machine # h.machine
    BY <1>5, <2>1 DEF Given
  <2> QED
    BY <2>3, <2>4, <2>5 DEF Given, Side
<1> QED
  BY <1>3, <1>4, <1>5 DEF RequestInv

\* Pools are within their maxima where no machine is added, and machines which are
\* available stay so.
LEMMA PoolsKept ==
  ASSUME PoolsType, PoolInv, UNCHANGED pools,
         \A m \in Machines : \A p \in Pools : machine'[m].pool = p =>
           /\ machine[m].pool = p
           /\ machine[m].status = "AVAILABLE" => machine'[m].status = "AVAILABLE"
  PROVE  PoolInv'
<1> SUFFICES ASSUME NEW p \in Pools
             PROVE  (/\ Cardinality(MachinesOf(p)) <= pools[p].maximum
                     /\ pools[p].status = "DEALLOCATED" => MachinesOf(p) = {}
                     /\ pools[p].status # "ALLOCATED" => MachinesOf(p) = Available(p))'
  BY DEF PoolInv
<1>1. MachinesOf(p)' \subseteq MachinesOf(p) /\ MachinesOf(p) \subseteq Machines
  BY DEF MachinesOf
<1>2. /\ IsFiniteSet(MachinesOf(p)) /\ Cardinality(MachinesOf(p)) \in Nat
      /\ Cardinality(MachinesOf(p)') \in Nat
  BY <1>1, FiniteMachines
<1>3. Cardinality(MachinesOf(p)') <= Cardinality(MachinesOf(p))
  BY <1>1, <1>2, FS_Subset
<1>4. pools[p].maximum \in {1, 2}
  BY DEF PoolsType, IsPool
<1>5. MachinesOf(p) = Available(p) => MachinesOf(p)' = Available(p)'
  BY <1>1 DEF MachinesOf, Available
<1>6. /\ Cardinality(MachinesOf(p)) <= pools[p].maximum
      /\ pools[p].status = "DEALLOCATED" => MachinesOf(p) = {}
      /\ pools[p].status # "ALLOCATED" => MachinesOf(p) = Available(p)
  BY DEF PoolInv
<1> QED
  BY SMT, <1>1, <1>2, <1>3, <1>4, <1>5, <1>6

\* The bounds of pools change by updates alone.
LEMMA PatchKept ==
  ASSUME PatchInv, UNCHANGED patch,
         \A p \in Pools : /\ pools'[p].minimum = pools[p].minimum
                          /\ pools'[p].maximum = pools[p].maximum
  PROVE  PatchInv'
BY DEF PatchInv, Asked

\* A step of the request of an action, which takes machines that are available or its own.
LEMMA ActionStep ==
  ASSUME SelInv, NEW a \in Actions, UNCHANGED <<pools, selection, patch>>,
         at' = [at EXCEPT ![a] = at'[a]], at'[a] \in Places,
         todo' = [todo EXCEPT ![a] = todo'[a]], todo'[a] \subseteq Roles(a),
         allocations' = [allocations EXCEPT ![a] = allocations'[a]],
         \A g \in allocations'[a] : g.machine \in Machines,
         MachinesType',
         \A m \in Machines :
           \/ machine'[m] = machine[m]
           \/ machine[m].action \in {a, "none"} /\ machine'[m].action \in {a, "none"},
         PoolInv', RequestInv(a)'
  PROVE  SelInv'
<1>1. /\ PoolsType /\ MachinesType /\ RequestsType /\ PatchInv /\ PoolInv
      /\ \A b \in Actions : RequestInv(b)
  BY DEF SelInv, SelType
<1>2. PoolsType' /\ PatchInv'
  BY <1>1, PatchKept DEF PoolsType, IsPool
<1>3. \A b \in Actions : b # a =>
        at'[b] = at[b] /\ todo'[b] = todo[b] /\ allocations'[b] = allocations[b]
  BY <1>1 DEF RequestsType
<1>4. RequestsType'
  <2>1. \A b \in Actions : Roles(b)' = Roles(b)
    BY SMT DEF Roles, Mapped
  <2>2. at' \in [Actions -> Places] /\ selection' \in [Actions -> Selections]
    BY <1>1 DEF RequestsType
  <2>3. /\ todo' = [b \in Actions |-> todo'[b]]
        /\ allocations' = [b \in Actions |-> allocations'[b]]
    BY <1>1 DEF RequestsType
  <2>4. \A b \in Actions : todo'[b] \subseteq Roles(b)'
    BY SMT, <1>1, <1>3, <2>1 DEF RequestsType
  <2>5. \A b \in Actions : \A g \in allocations'[b] : g.machine \in Machines
    BY <1>1, <1>3 DEF RequestsType
  <2> QED
    BY <2>2, <2>3, <2>4, <2>5 DEF RequestsType
<1>5. ASSUME NEW b \in Actions, b # a
      PROVE  RequestInv(b)'
  <2>1. \A m \in Machines : /\ machine[m].action = b => machine'[m] = machine[m]
                            /\ machine'[m].action = b => machine[m].action = b
    BY <1>5, SelectionsAssumption
  <2> QED
    BY <1>1, <1>3, <1>5, <2>1, RequestKept
<1> QED
  BY <1>2, <1>4, <1>5 DEF SelInv, SelType

-----------------------------------------------------------------------------
(* The pools.                                                              *)

\* A step of the owner of a pool, which changes machines that are nobody's.
LEMMA OwnerStep ==
  ASSUME SelInv, UNCHANGED <<selection, at, todo, allocations>>,
         PoolsType', MachinesType', PatchInv', PoolInv',
         \A p \in Pools : pools'[p].platform = pools[p].platform,
         \A m \in Machines : \/ machine'[m] = machine[m]
                             \/ machine[m].action = "none" /\ machine'[m].action = "none"
  PROVE  SelInv'
<1>1. RequestsType /\ \A b \in Actions : RequestInv(b)
  BY DEF SelInv, SelType
<1>2. \A b \in Actions : Roles(b)' = Roles(b)
  BY DEF Roles, Mapped
<1>3. RequestsType'
  BY <1>1, <1>2 DEF RequestsType
<1>4. ASSUME NEW b \in Actions
      PROVE  RequestInv(b)'
  <2>1. \A m \in Machines : /\ machine[m].action = b => machine'[m] = machine[m]
                            /\ machine'[m].action = b => machine[m].action = b
    BY SelectionsAssumption
  <2> QED
    BY <1>1, <2>1, RequestKept
<1> QED
  BY <1>3, <1>4 DEF SelInv, SelType

\* A pool has a new status.
LEMMA StatusStep ==
  ASSUME PoolsType, NEW p \in Pools, NEW status \in PoolStatuses,
         pools' = [pools EXCEPT ![p].status = status]
  PROVE  /\ PoolsType'
         /\ \A q \in Pools : /\ pools'[q].minimum = pools[q].minimum
                             /\ pools'[q].maximum = pools[q].maximum
                             /\ pools'[q].platform = pools[q].platform
                             /\ pools'[q].status = IF q = p THEN status ELSE pools[q].status
<1>1. pools = [q \in Pools |-> pools[q]] /\ IsPool(pools[p])
  BY DEF PoolsType
<1>2. PICK x : /\ x = [endpoint |-> pools[p].endpoint, platform |-> pools[p].platform,
                       os_type |-> pools[p].os_type, minimum |-> pools[p].minimum,
                       maximum |-> pools[p].maximum, status |-> status]
  OBVIOUS
<1>3. pools'[p] = x /\ \A q \in Pools : q # p => pools'[q] = pools[q]
  <2>1. pools'[p] = [pools[p] EXCEPT !.status = status]
    BY <1>1
  <2>2. pools[p] = [endpoint |-> pools[p].endpoint, platform |-> pools[p].platform,
                    os_type |-> pools[p].os_type, minimum |-> pools[p].minimum,
                    maximum |-> pools[p].maximum, status |-> pools[p].status]
    BY <1>1 DEF IsPool
  <2>3. [pools[p] EXCEPT !.status = status] = x
    BY SMT, <1>2, <2>2
  <2> QED
    BY <1>1, <2>1, <2>3
<1>4. IsPool(x)
  BY <1>1, <1>2 DEF IsPool
<1>5. pools' = [q \in Pools |-> pools'[q]]
  BY <1>1
<1> QED
  BY SMT, <1>2, <1>3, <1>4, <1>5 DEF PoolsType

\* A machine of a pool, or none.
LEMMA MachineFacts ==
  /\ IsMachine(NoMachine) /\ NoMachine.action = "none" /\ NoMachine.pool = "none"
  /\ NoMachine.status = "none"
  /\ \A p, status, a : /\ Machine(p, status, a).pool = p
                       /\ Machine(p, status, a).status = status
                       /\ Machine(p, status, a).action = a
  /\ \A p \in Pools : IsMachine(Machine(p, "AVAILABLE", "none"))
  /\ \A p \in Pools, a \in Actions, status \in {"UNINITIALIZED", "RESERVED", "IN_USE"} :
       IsMachine(Machine(p, status, a))
BY SelectionsAssumption DEF IsMachine, NoMachine, Machine, MachineRows

LEMMA AllocatePool ==
  ASSUME SelInv, NEW p \in Pools, allocate_minion_pool(p)
  PROVE  SelInv'
<1>1. /\ PoolsType /\ MachinesType /\ PatchInv /\ PoolInv
  BY DEF SelInv, SelType
<1> DEFINE new == Fresh(pools[p].minimum)
<1>2. /\ pools[p].status = "DEALLOCATED"
      /\ machine' = [m \in Machines |-> IF m \in new THEN Machine(p, "AVAILABLE", "none")
                                        ELSE machine[m]]
      /\ pools' = [pools EXCEPT ![p].status = "ALLOCATED"]
      /\ UNCHANGED <<selection, at, todo, allocations, patch>>
  BY DEF allocate_minion_pool
<1>3. /\ PoolsType'
      /\ \A q \in Pools : /\ pools'[q].minimum = pools[q].minimum
                          /\ pools'[q].maximum = pools[q].maximum
                          /\ pools'[q].platform = pools[q].platform
                          /\ pools'[q].status = IF q = p THEN "ALLOCATED"
                                                ELSE pools[q].status
  BY <1>1, <1>2, StatusStep DEF PoolStatuses
<1>4. /\ MachinesOf(p) = {} /\ Cardinality(MachinesOf(p)) = 0
      /\ pools[p].minimum \in Nat /\ pools[p].minimum <= pools[p].maximum
      /\ pools[p].minimum <= 2
  <2>1. MachinesOf(p) = {}
    BY <1>1, <1>2 DEF PoolInv
  <2>2. Cardinality(MachinesOf(p)) = 0
    BY <2>1, FS_EmptySet
  <2>3. /\ pools[p].minimum \in Nat /\ pools[p].minimum <= pools[p].maximum
        /\ pools[p].minimum <= 2
    BY SMT, <1>1 DEF PoolsType, IsPool
  <2> QED
    BY <2>1, <2>2, <2>3
<1>5. new \subseteq Unused /\ Cardinality(new) = pools[p].minimum
  <2>1. pools[p].minimum <= 2 - Cardinality(MachinesOf(p))
    BY SMT, <1>4
  <2> QED
    BY <1>1, <1>4, <2>1, FreshFacts
<1> HIDE DEF new
<1>6. \A m \in new : m \in Machines /\ machine[m] = NoMachine
  BY <1>5 DEF Unused
<1>7. MachinesType'
  <2>1. machine' = [m \in Machines |-> machine'[m]]
    BY <1>2
  <2>2. \A m \in Machines : IsMachine(machine'[m])
    BY <1>1, <1>2, MachineFacts DEF MachinesType
  <2>3. \A m \in Machines : IsMachine(machine[m])' = IsMachine(machine'[m])
    BY DEF IsMachine, NoMachine, MachineRows
  <2> QED
    BY <2>1, <2>2, <2>3 DEF MachinesType
<1>8. /\ MachinesOf(p)' = new
      /\ \A q \in Pools : q # p => /\ MachinesOf(q)' = MachinesOf(q)
                                   /\ Available(q)' = Available(q)
  BY SMT, <1>2, <1>4, <1>6, MachineFacts, SelectionsAssumption DEF MachinesOf, Available
<1>9. PoolInv'
  BY SMT, <1>1, <1>3, <1>4, <1>5, <1>8 DEF PoolInv
<1>10. \A m \in Machines : \/ machine'[m] = machine[m]
                           \/ machine[m].action = "none" /\ machine'[m].action = "none"
  BY SMT, <1>2, <1>6, MachineFacts
<1>11. PatchInv'
  BY <1>1, <1>2, <1>3, PatchKept
<1> QED
  BY <1>2, <1>3, <1>7, <1>9, <1>10, <1>11, OwnerStep

LEMMA DeallocatePool ==
  ASSUME SelInv, NEW p \in Pools, deallocate_minion_pool(p) \/ PoolDeallocated(p)
  PROVE  SelInv'
<1>1. /\ PoolsType /\ MachinesType /\ PatchInv /\ PoolInv
  BY DEF SelInv, SelType
<1>2. UNCHANGED <<selection, at, todo, allocations, patch>>
  BY DEF deallocate_minion_pool, PoolDeallocated
<1>3. CASE deallocate_minion_pool(p)
  <2>1. /\ \A m \in MachinesOf(p) : machine[m].status = "AVAILABLE"
        /\ pools' = [pools EXCEPT ![p].status = "POOL_MAINTENANCE"] /\ UNCHANGED machine
    BY <1>3 DEF deallocate_minion_pool
  <2>2. /\ PoolsType'
        /\ \A q \in Pools : /\ pools'[q].minimum = pools[q].minimum
                            /\ pools'[q].maximum = pools[q].maximum
                            /\ pools'[q].platform = pools[q].platform
                            /\ pools'[q].status = IF q = p THEN "POOL_MAINTENANCE"
                                                  ELSE pools[q].status
    BY <1>1, <2>1, StatusStep DEF PoolStatuses
  <2>3. /\ MachinesOf(p) = Available(p)
        /\ \A q \in Pools : MachinesOf(q)' = MachinesOf(q) /\ Available(q)' = Available(q)
    BY <2>1 DEF MachinesOf, Available
  <2>4. PoolInv'
    BY SMT, <1>1, <2>2, <2>3 DEF PoolInv
  <2>5. MachinesType' /\ PatchInv'
    BY <1>1, <1>2, <2>1, <2>2, PatchKept DEF MachinesType, IsMachine, NoMachine,
       MachineRows
  <2> QED
    BY <1>2, <2>1, <2>2, <2>4, <2>5, OwnerStep
<1>4. CASE PoolDeallocated(p)
  <2>1. /\ pools[p].status = "POOL_MAINTENANCE"
        /\ pools' = [pools EXCEPT ![p].status = "DEALLOCATED"]
        /\ machine' = [m \in Machines |-> IF m \in MachinesOf(p) THEN NoMachine
                                          ELSE machine[m]]
    BY <1>4 DEF PoolDeallocated
  <2>2. /\ PoolsType'
        /\ \A q \in Pools : /\ pools'[q].minimum = pools[q].minimum
                            /\ pools'[q].maximum = pools[q].maximum
                            /\ pools'[q].platform = pools[q].platform
                            /\ pools'[q].status = IF q = p THEN "DEALLOCATED"
                                                  ELSE pools[q].status
    BY <1>1, <2>1, StatusStep DEF PoolStatuses
  <2>3. /\ MachinesOf(p)' = {} /\ Available(p)' = {}
        /\ \A q \in Pools : q # p => /\ MachinesOf(q)' = MachinesOf(q)
                                     /\ Available(q)' = Available(q)
    BY SMT, <2>1, MachineFacts, SelectionsAssumption DEF MachinesOf, Available
  <2>4. MachinesOf(p) = Available(p)
    BY <1>1, <2>1 DEF PoolInv
  <2>5. \A m \in MachinesOf(p) : machine[m].action = "none"
    BY <1>1, <2>4, MachineFacts DEF MachinesType, IsMachine, Available, MachinesOf
  <2>6. PoolInv'
    <3>1. Cardinality(MachinesOf(p)') = 0
      BY <2>3, FS_EmptySet
    <3>2. pools'[p].maximum \in {1, 2}
      BY <2>2 DEF PoolsType, IsPool
    <3>3. Cardinality(MachinesOf(p)') <= pools'[p].maximum
      BY SMT, <3>1, <3>2
    <3>4. ASSUME NEW q \in Pools, q # p
          PROVE  /\ Cardinality(MachinesOf(q)') <= pools'[q].maximum
                 /\ pools'[q].status = "DEALLOCATED" => MachinesOf(q)' = {}
                 /\ pools'[q].status # "ALLOCATED" => MachinesOf(q)' = Available(q)'
      <4>1. MachinesOf(q)' = MachinesOf(q) /\ Available(q)' = Available(q)
        BY <2>3, <3>4
      <4> QED
        BY <1>1, <2>2, <3>4, <4>1 DEF PoolInv
    <3> QED
      BY <2>3, <3>3, <3>4 DEF PoolInv
  <2>7. MachinesType'
    <3>1. \A m \in Machines : machine'[m] \in {machine[m], NoMachine}
      BY <2>1
    <3>2. machine' = [m \in Machines |-> machine'[m]]
      BY <2>1
    <3> QED
      BY <1>1, <3>1, <3>2 DEF MachinesType, IsMachine, NoMachine, MachineRows
  <2>8. \A m \in Machines : \/ machine'[m] = machine[m]
                            \/ machine[m].action = "none" /\ machine'[m].action = "none"
    BY <2>1, <2>5, MachineFacts
  <2>9. PatchInv'
    BY <1>1, <1>2, <2>2, PatchKept
  <2> QED
    BY <1>2, <2>2, <2>6, <2>7, <2>8, <2>9, OwnerStep
<1> QED
  BY <1>3, <1>4

\* An update is accepted if it is right for its pool as it is ...
LEMMA AcceptUpdate ==
  ASSUME SelInv, NEW u \in Patches, NEW p \in Pools, NEW field, NEW value,
         \/ field \in {"minimum", "maximum"} /\ value \in {1, 2}
         \/ field = "os_type",
         _validate_update_body(u, p, field, value)
  PROVE  SelInv'
<1>1. /\ PoolsType /\ MachinesType /\ PatchInv /\ PoolInv
  BY DEF SelInv, SelType
<1>2. /\ Numeric(Updated(pools[p], field, value))
      /\ patch' = [patch EXCEPT ![u] = Patch(p, field, value)]
      /\ UNCHANGED <<pools, machine, selection, at, todo, allocations>>
  BY DEF _validate_update_body
<1>3. /\ patch'[u] = Patch(p, field, value) /\ patch' = [v \in Patches |-> patch'[v]]
      /\ \A v \in Patches : v # u => patch'[v] = patch[v]
  BY <1>1, <1>2 DEF PatchInv
<1>4. /\ patch'[u].pool = p /\ patch'[u].field = field /\ patch'[u].value = value
  BY SMT, <1>3 DEF Patch
<1>5. /\ field = "minimum" => value <= pools[p].maximum
      /\ field = "maximum" => pools[p].minimum <= value
  <2>1. pools[p] = [endpoint |-> pools[p].endpoint, platform |-> pools[p].platform,
                    os_type |-> pools[p].os_type, minimum |-> pools[p].minimum,
                    maximum |-> pools[p].maximum, status |-> pools[p].status]
    BY <1>1 DEF PoolsType, IsPool
  <2>2. CASE field = "minimum"
    BY <1>2, <2>1, <2>2 DEF Numeric, Updated
  <2>3. CASE field = "maximum"
    BY <1>2, <2>1, <2>3 DEF Numeric, Updated
  <2> QED
    BY <2>2, <2>3
<1>6. PatchInv'
  BY <1>1, <1>2, <1>3, <1>4, <1>5 DEF PatchInv, Asked
<1>7. PoolsType' /\ MachinesType'
  BY <1>1, <1>2 DEF PoolsType, IsPool, MachinesType, IsMachine, NoMachine, MachineRows
<1>8. PoolInv'
  BY <1>1, <1>2, PoolsKept
<1> QED
  BY <1>2, <1>6, <1>7, <1>8, OwnerStep

\* ... and is still so when it is made, as there is no other.
LEMMA MakeUpdate ==
  ASSUME OneUpdate, SelInv, NEW u \in Patches, update_minion_pool(u)
  PROVE  SelInv'
<1>1. /\ PoolsType /\ MachinesType /\ PatchInv /\ PoolInv
  BY DEF SelInv, SelType
<1> DEFINE p == patch[u].pool
<1>2. /\ p \in Pools
      /\ pools' = [pools EXCEPT ![p] = IF pools[p].status = "DEALLOCATED"
                                         THEN Updated(pools[p], patch[u].field, patch[u].value)
                                         ELSE pools[p]]
      /\ patch' = [patch EXCEPT ![u] = Over]
      /\ UNCHANGED <<machine, selection, at, todo, allocations>>
  BY DEF update_minion_pool, Asked
<1>3. \A q \in Pools : q # p => pools'[q] = pools[q]
  BY <1>1, <1>2 DEF PoolsType
<1>4. /\ IsPool(pools'[p]) /\ pools'[p].platform = pools[p].platform
      /\ pools'[p].status = pools[p].status
      /\ pools[p].status # "DEALLOCATED" => pools'[p] = pools[p]
  <2> DEFINE x == pools[p]
  <2>1. /\ IsPool(x) /\ x = [endpoint |-> x.endpoint, platform |-> x.platform, os_type |-> x.os_type,
              minimum |-> x.minimum, maximum |-> x.maximum, status |-> x.status]
    BY <1>1, <1>2 DEF PoolsType, IsPool
  <2>2. \/ pools'[p] = x
        \/ x.status = "DEALLOCATED" /\ pools'[p] = [x EXCEPT ![patch[u].field] = patch[u].value]
    BY <1>1, <1>2 DEF PoolsType, Updated
  <2>3. \/ /\ patch[u].field = "minimum" /\ patch[u].value \in {1, 2}
           /\ patch[u].value <= x.maximum
        \/ /\ patch[u].field = "maximum" /\ patch[u].value \in {1, 2}
           /\ x.minimum <= patch[u].value
        \/ patch[u].field = "os_type"
    BY <1>1, <1>2 DEF PatchInv, Asked
  <2> HIDE DEF x
  <2>4. ASSUME x.status = "DEALLOCATED", pools'[p] = [x EXCEPT ![patch[u].field] = patch[u].value]
        PROVE  /\ IsPool(pools'[p]) /\ pools'[p].platform = x.platform
               /\ pools'[p].status = x.status
    <3>1. CASE /\ patch[u].field = "minimum" /\ patch[u].value \in {1, 2}
               /\ patch[u].value <= x.maximum
      <4>1. pools'[p] = [endpoint |-> x.endpoint, platform |-> x.platform,
                         os_type |-> x.os_type, minimum |-> patch[u].value,
                         maximum |-> x.maximum, status |-> x.status]
        BY <2>1, <2>4, <3>1
      <4> QED
        BY SMT, <2>1, <3>1, <4>1 DEF IsPool
    <3>2. CASE /\ patch[u].field = "maximum" /\ patch[u].value \in {1, 2}
               /\ x.minimum <= patch[u].value
      <4>1. pools'[p] = [endpoint |-> x.endpoint, platform |-> x.platform,
                         os_type |-> x.os_type, minimum |-> x.minimum,
                         maximum |-> patch[u].value, status |-> x.status]
        BY <2>1, <2>4, <3>2
      <4> QED
        BY SMT, <2>1, <3>2, <4>1 DEF IsPool
    <3>3. CASE patch[u].field = "os_type"
      <4>1. pools'[p] = [endpoint |-> x.endpoint, platform |-> x.platform,
                         os_type |-> patch[u].value, minimum |-> x.minimum,
                         maximum |-> x.maximum, status |-> x.status]
        BY <2>1, <2>4, <3>3
      <4> QED
        BY SMT, <2>1, <4>1 DEF IsPool
    <3> QED
      BY <2>3, <3>1, <3>2, <3>3
  <2>5. CASE pools'[p] = x
    BY <2>1, <2>5 DEF x
  <2> QED
    BY <2>2, <2>4, <2>5 DEF x
<1>5. PoolsType'
  BY <1>1, <1>2, <1>3, <1>4 DEF PoolsType
<1>6. \A q \in Pools : MachinesOf(q)' = MachinesOf(q) /\ Available(q)' = Available(q)
  BY <1>2 DEF MachinesOf, Available
<1>7. PoolInv'
  <2>1. ASSUME pools[p].status = "DEALLOCATED"
        PROVE  Cardinality(MachinesOf(p)) <= pools'[p].maximum
    <3>1. MachinesOf(p) = {}
      BY <1>1, <1>2, <2>1 DEF PoolInv
    <3>2. Cardinality(MachinesOf(p)) = 0
      BY <3>1, FS_EmptySet
    <3>3. pools'[p].maximum \in {1, 2}
      BY <1>4 DEF IsPool
    <3> QED
      BY SMT, <3>2, <3>3
  <2> QED
    BY <1>1, <1>2, <1>3, <1>4, <1>6, <2>1 DEF PoolInv
<1>8. PatchInv'
  <2>1. \A v \in Patches : patch'[v] = IF v = u THEN Over ELSE patch[v]
    BY <1>1, <1>2 DEF PatchInv
  <2>2. \A v \in Patches : ~Asked(v)'
    <3>1. ~Asked(u)'
      BY SMT, <2>1, SelectionsAssumption DEF Asked, Over, Patch
    <3>2. \A v \in Patches : v # u => ~Asked(v)
      BY DEF OneUpdate, update_minion_pool
    <3> QED
      BY <2>1, <3>1, <3>2 DEF Asked
  <2>3. patch' = [v \in Patches |-> patch'[v]]
    BY <1>1, <1>2 DEF PatchInv
  <2> QED
    BY <2>2, <2>3 DEF PatchInv
<1>9. MachinesType'
  BY <1>1, <1>2 DEF MachinesType, IsMachine, NoMachine, MachineRows
<1>10. \A q \in Pools : pools'[q].platform = pools[q].platform
  BY <1>3, <1>4
<1> QED
  BY <1>2, <1>5, <1>7, <1>8, <1>9, <1>10, OwnerStep

-----------------------------------------------------------------------------
(* The request of an action.                                               *)

\* Nothing is asked of a request which is being undone.
LEMMA UndoneStep ==
  ASSUME SelInv, NEW a \in Actions, UNCHANGED <<pools, selection, patch>>,
         NEW place \in {"cleanup", "deallocate", "over"}, at' = [at EXCEPT ![a] = place],
         \/ UNCHANGED <<todo, allocations>>
         \/ /\ todo' = [todo EXCEPT ![a] = {}]
            /\ allocations' = [allocations EXCEPT ![a] = {}],
         MachinesType',
         \A m \in Machines :
           \/ machine'[m] = machine[m]
           \/ machine[m].action \in {a, "none"} /\ machine'[m].action \in {a, "none"},
         PoolInv'
  PROVE  SelInv'
<1>1. RequestsType
  BY DEF SelInv, SelType
<1>2. at'[a] = place /\ at'[a] \in Places /\ at' = [at EXCEPT ![a] = at'[a]]
  BY <1>1 DEF RequestsType, Places
<1>3. /\ todo' = [todo EXCEPT ![a] = todo'[a]] /\ todo'[a] \subseteq Roles(a)
      /\ allocations' = [allocations EXCEPT ![a] = allocations'[a]]
      /\ \A g \in allocations'[a] : g.machine \in Machines
  <2>1. CASE UNCHANGED <<todo, allocations>>
    BY <1>1, <2>1 DEF RequestsType
  <2>2. CASE /\ todo' = [todo EXCEPT ![a] = {}]
             /\ allocations' = [allocations EXCEPT ![a] = {}]
    BY <1>1, <2>2 DEF RequestsType
  <2> QED
    BY <2>1, <2>2
<1>4. RequestInv(a)'
  BY <1>2 DEF RequestInv
<1> QED
  BY <1>2, <1>3, <1>4, ActionStep

\* Machines of an action are forgotten or made available.
LEMMA MachinesFreed ==
  ASSUME PoolsType, MachinesType, PoolInv, NEW a \in Actions, UNCHANGED pools,
         machine' = [m \in Machines |-> machine'[m]],
         \A m \in Machines :
           \/ machine'[m] = machine[m]
           \/ machine[m].action = a /\ machine'[m] = NoMachine
           \/ /\ machine[m].action = a
              /\ machine'[m] = Machine(machine[m].pool, "AVAILABLE", "none")
  PROVE  /\ MachinesType' /\ PoolInv'
         /\ \A m \in Machines :
              \/ machine'[m] = machine[m]
              \/ machine[m].action \in {a, "none"} /\ machine'[m].action \in {a, "none"}
<1>1. \A m \in Machines : machine[m].action = a => machine[m].pool \in Pools
  BY SMT, SelectionsAssumption, MachineFacts DEF MachinesType, IsMachine, MachineRows
<1>2. \A m \in Machines : IsMachine(machine'[m])
  BY <1>1, MachineFacts DEF MachinesType
<1>3. MachinesType'
  BY <1>2 DEF MachinesType, IsMachine, NoMachine, MachineRows
<1>4. \A m \in Machines : \A p \in Pools : machine'[m].pool = p =>
        /\ machine[m].pool = p
        /\ machine[m].status = "AVAILABLE" => machine'[m].status = "AVAILABLE"
  BY SMT, MachineFacts, SelectionsAssumption
<1>5. PoolInv'
  BY <1>4, PoolsKept
<1> QED
  BY SMT, <1>3, <1>5, MachineFacts

\* What is done with a request which is over, or failed.
LEMMA UndoSteps ==
  ASSUME SelInv, NEW a \in Actions,
         \/ _cleanup_machines_with_statuses_for_action(a) \/ FlowFails(a)
         \/ deallocate_minion_machines_for_action(a)
  PROVE  SelInv'
<1>1. PoolsType /\ MachinesType /\ PoolInv
  BY DEF SelInv, SelType
<1>2. CASE _cleanup_machines_with_statuses_for_action(a) \/ FlowFails(a)
  <2>1. /\ UNCHANGED <<pools, selection, patch, todo, allocations>>
        /\ at' = [at EXCEPT ![a] = "deallocate"]
        /\ machine' = [m \in Machines |->
             IF m \in AllocatedTo(a) /\ machine[m].status = "UNINITIALIZED"
               THEN NoMachine ELSE machine[m]]
    BY <1>2 DEF _cleanup_machines_with_statuses_for_action, FlowFails
  <2>2. /\ machine' = [m \in Machines |-> machine'[m]]
        /\ \A m \in Machines : \/ machine'[m] = machine[m]
                               \/ machine[m].action = a /\ machine'[m] = NoMachine
    BY <2>1 DEF AllocatedTo
  <2> QED
    BY <1>1, <2>1, <2>2, MachinesFreed, UndoneStep
<1>3. CASE deallocate_minion_machines_for_action(a)
  <2>1. /\ UNCHANGED <<pools, selection, patch>>
        /\ at' = [at EXCEPT ![a] = "over"]
        /\ allocations' = [allocations EXCEPT ![a] = {}]
        /\ todo' = [todo EXCEPT ![a] = {}]
        /\ machine' = [m \in Machines |->
             IF m \notin AllocatedTo(a) THEN machine[m]
             ELSE IF machine[m].status = "UNINITIALIZED" THEN NoMachine
             ELSE Machine(machine[m].pool, "AVAILABLE", "none")]
    BY <1>3 DEF deallocate_minion_machines_for_action
  <2>2. /\ machine' = [m \in Machines |-> machine'[m]]
        /\ \A m \in Machines :
             \/ machine'[m] = machine[m]
             \/ machine[m].action = a /\ machine'[m] = NoMachine
             \/ /\ machine[m].action = a
                /\ machine'[m] = Machine(machine[m].pool, "AVAILABLE", "none")
    BY <2>1 DEF AllocatedTo
  <2> QED
    BY <1>1, <2>1, <2>2, MachinesFreed, UndoneStep
<1> QED
  BY <1>2, <1>3

\* A request is validated, refused or started, or its execution ends: no machine changes.
LEMMA QuietSteps ==
  ASSUME SelInv, NEW a \in Actions,
         \/ validate_minion_pool_selections_for_action(a)
         \/ \E r \in todo[a] : RefusesAllocation(a, r)
         \/ _run_machine_allocation_subflow_for_action(a)
         \/ ExecutionEnds(a)
  PROVE  SelInv'
<1>1. PoolsType /\ MachinesType /\ RequestsType /\ PoolInv /\ RequestInv(a)
  BY DEF SelInv, SelType
<1>2. UNCHANGED <<pools, machine, selection, patch, allocations>>
  BY DEF validate_minion_pool_selections_for_action, RefusesAllocation,
     _run_machine_allocation_subflow_for_action, ExecutionEnds
<1>3. MachinesType' /\ PoolInv'
  BY <1>1, <1>2, PoolsKept DEF MachinesType, IsMachine, NoMachine, MachineRows
<1>4. CASE UNCHANGED todo
           /\ \E place \in {"cleanup", "deallocate"} : at' = [at EXCEPT ![a] = place]
  BY <1>1, <1>2, <1>3, <1>4, UndoneStep
<1>5. /\ allocations' = [allocations EXCEPT ![a] = allocations'[a]]
      /\ \A g \in allocations'[a] : g.machine \in Machines
  BY <1>1, <1>2 DEF RequestsType
<1>6. /\ Roles(a)' = Roles(a) /\ \A r : InstancesFor(a, r)' = InstancesFor(a, r)
      /\ \A i, r : HasMachine(a, i, r)' = HasMachine(a, i, r)
  BY <1>2 DEF Roles, InstancesFor, Mapped, HasMachine
<1>7. CASE validate_minion_pool_selections_for_action(a)
  <2>1. /\ at[a] = "new"
        /\ selection[a].origin # "none" => IsOriginPool(selection[a].origin)
        /\ selection[a].destination # "none" => IsDestinationPool(selection[a].destination)
        /\ \A p \in Pools : Mapped(a, p) \cap Instances # {} => IsOSMorphingPool(a, p)
        /\ at' = [at EXCEPT ![a] = "allocating"]
        /\ todo' = [todo EXCEPT ![a] = Roles(a)]
    BY <1>7 DEF validate_minion_pool_selections_for_action
  <2>2. /\ at'[a] = "allocating" /\ todo'[a] = Roles(a) /\ allocations'[a] = {}
    BY <1>1, <1>2, <2>1 DEF RequestsType, RequestInv
  <2>3. ASSUME NEW r \in Roles(a), InstancesFor(a, r) \subseteq Instances
        PROVE  pools[r.pool].platform = Side(r.role)
    <3>1. CASE selection[a].kind = "transfer"
      <4>1. r.role \in {"origin", "destination"} /\ r.pool \in Pools
            /\ selection[a][r.role] = r.pool
        BY <3>1 DEF Roles
      <4>2. r.pool # "none"
        BY <4>1, SelectionsAssumption
      <4>3. CASE r.role = "origin"
        BY <2>1, <4>1, <4>2, <4>3 DEF IsOriginPool, Side
      <4>4. CASE r.role = "destination"
        BY <2>1, <4>1, <4>2, <4>4 DEF IsDestinationPool, Side
      <4> QED
        BY <4>1, <4>3, <4>4
    <3>2. CASE selection[a].kind # "transfer"
      <4>1. /\ r.role = "osmorphing" /\ r.pool \in Pools /\ Mapped(a, r.pool) # {}
        BY SMT, <3>2 DEF Roles
      <4>2. Mapped(a, r.pool) \cap Instances # {}
        BY <2>3, <4>1 DEF InstancesFor
      <4>3. IsOSMorphingPool(a, r.pool)
        BY <2>1, <4>1, <4>2
      <4> QED
        BY <4>1, <4>3 DEF IsOSMorphingPool, Side
    <3> QED
      BY <3>1, <3>2
  <2>4. Given(a)'
    BY <1>2, <1>6, <2>2, <2>3 DEF Given, Side
  <2>5. RequestInv(a)'
    BY <2>2, <2>4 DEF RequestInv
  <2>6. /\ at' = [at EXCEPT ![a] = at'[a]] /\ at'[a] \in Places
        /\ todo' = [todo EXCEPT ![a] = todo'[a]] /\ todo'[a] \subseteq Roles(a)
    BY <2>1, <2>2 DEF Places
  <2> QED
    BY <1>2, <1>3, <1>5, <2>5, <2>6, ActionStep
<1>8. CASE /\ at[a] = "allocating" /\ todo[a] = {} /\ UNCHANGED todo
           /\ at' = [at EXCEPT ![a] = "flow"]
  <2>1. /\ at'[a] = "flow" /\ todo'[a] = {} /\ Given(a)
    BY <1>1, <1>8 DEF RequestsType, RequestInv
  <2>2. Given(a)'
    <3>1. todo'[a] = todo[a]
      BY <1>8
    <3> QED
      BY <1>2, <1>6, <2>1, <3>1 DEF Given
  <2>3. RequestInv(a)'
    BY <2>1, <2>2 DEF RequestInv
  <2>4. /\ at' = [at EXCEPT ![a] = at'[a]] /\ at'[a] \in Places
        /\ todo' = [todo EXCEPT ![a] = todo'[a]] /\ todo'[a] \subseteq Roles(a)
    BY <1>1, <1>8, <2>1 DEF Places, RequestsType
  <2> QED
    BY <1>2, <1>3, <1>5, <2>3, <2>4, ActionStep
<1> QED
  BY <1>4, <1>7, <1>8 DEF RefusesAllocation, _run_machine_allocation_subflow_for_action,
     ExecutionEnds

\* The machines which were assigned are marked, all or some of them: they were nobody's,
\* and the pool has no more than its maximum.
LEMMA MarkedFacts ==
  ASSUME SelInv, NEW a \in Actions, NEW r \in todo[a], Accommodates(a, r), UNCHANGED pools,
         NEW wanted, wanted = InstancesFor(a, r),
         NEW of, of = Assignment(wanted, Available(r.pool)),
         NEW left, left \subseteq {of[i] : i \in wanted}, machine' = Marked(a, r.pool, left)
  PROVE  /\ MachinesType' /\ PoolInv'
         /\ of \in [wanted -> Machines]
         /\ \A i \in wanted : machine[of[i]].action = "none"
         /\ \A i, j \in wanted : i # j => of[i] # of[j]
         /\ \A m \in Machines : m \notin left => machine'[m] = machine[m]
         /\ \A m \in left : /\ m \in Machines /\ machine[m].action = "none"
                            /\ machine'[m].action = a /\ machine'[m].pool = r.pool
<1> DEFINE p == r.pool
<1> DEFINE some == Preferred(Cardinality(wanted), Available(p))
<1>1. PoolsType /\ MachinesType /\ RequestsType /\ PoolInv
  BY DEF SelInv, SelType
<1>2. r \in Roles(a) /\ p \in Pools
  BY SMT, <1>1 DEF RequestsType, Roles
<1>3. IsFiniteSet(wanted)
  <2>1. IsFiniteSet(DOMAIN selection[a].osmorphing) /\ IsFiniteSet(Instances)
    BY <1>1, SelectionsAssumption DEF RequestsType
  <2>2. Mapped(a, p) \subseteq DOMAIN selection[a].osmorphing
    BY DEF Mapped
  <2>3. IsFiniteSet(Mapped(a, p))
    BY <2>1, <2>2, FS_Subset
  <2> QED
    BY <2>1, <2>3 DEF InstancesFor
<1>4. /\ Cardinality(wanted) <= Cardinality(Available(p)) + ExtraSlots(p)
      /\ pools[p].status = "ALLOCATED" /\ Cardinality(wanted) \in Nat
  BY <1>3, FS_CardinalityType DEF Accommodates
<1>5. /\ some \subseteq Available(p) \cup Unused
      /\ Cardinality(MachinesOf(p) \cup some) <= pools[p].maximum
  BY <1>1, <1>2, <1>4, PreferredFacts
<1>6. of \in [wanted -> some] /\ \A i, j \in wanted : i # j => of[i] # of[j]
  BY SMT, <1>1, <1>2, <1>3, <1>4, AssignmentFacts
<1>7. left \subseteq some
  BY SMT, <1>6
<1> HIDE DEF some
<1>8. \A m \in some : /\ m \in Machines /\ machine[m].action = "none"
                      /\ machine[m] = NoMachine \/ machine[m].pool = p
  BY <1>1, <1>5, MachineFacts DEF Available, MachinesOf, Unused, MachinesType, IsMachine
<1> HIDE DEF p
<1>9. /\ machine' = [m \in Machines |-> machine'[m]]
      /\ \A m \in Machines : m \notin left => machine'[m] = machine[m]
      /\ \A m \in left : \E status \in {"UNINITIALIZED", "RESERVED"} :
           machine'[m] = Machine(p, status, a)
  BY <1>7, <1>8 DEF Marked, p
<1>10. MachinesType'
  <2>1. \A m \in Machines : IsMachine(machine'[m])
    BY SMT, <1>1, <1>2, <1>9, MachineFacts DEF MachinesType
  <2> QED
    BY <1>9, <2>1 DEF MachinesType, IsMachine, NoMachine, MachineRows
<1>11. \A m \in left : machine'[m].action = a /\ machine'[m].pool = p
  BY SMT, <1>9, MachineFacts
<1>12. PoolInv'
  <2>1. MachinesOf(p)' \subseteq MachinesOf(p) \cup some
    BY <1>7, <1>9 DEF MachinesOf
  <2>2. \A q \in Pools : q # p => MachinesOf(q)' = MachinesOf(q) /\ Available(q)' = Available(q)
    BY SMT, <1>7, <1>8, <1>9, <1>11, MachineFacts, SelectionsAssumption DEF MachinesOf, Available
  <2>3. Cardinality(MachinesOf(p)') <= pools[p].maximum
    <3>1. /\ IsFiniteSet(MachinesOf(p) \cup some) /\ Cardinality(MachinesOf(p)') \in Nat
          /\ Cardinality(MachinesOf(p) \cup some) \in Nat
      BY <1>8, FiniteMachines DEF MachinesOf
    <3>2. Cardinality(MachinesOf(p)') <= Cardinality(MachinesOf(p) \cup some)
      BY <2>1, <3>1, FS_Subset
    <3>3. pools[p].maximum \in {1, 2}
      BY <1>1, <1>2 DEF PoolsType, IsPool
    <3>4. ASSUME NEW i \in Nat, NEW j \in Nat, NEW k \in {1, 2}, i <= j, j <= k
          PROVE  i <= k
      BY SMT, <3>4
    <3> QED
      BY <1>5, <3>1, <3>2, <3>3, <3>4
  <2>4. ASSUME NEW q \in Pools, q # p
        PROVE  /\ Cardinality(MachinesOf(q)') <= pools'[q].maximum
               /\ pools'[q].status = "DEALLOCATED" => MachinesOf(q)' = {}
               /\ pools'[q].status # "ALLOCATED" => MachinesOf(q)' = Available(q)'
    <3>1. MachinesOf(q)' = MachinesOf(q) /\ Available(q)' = Available(q)
      BY <2>2, <2>4
    <3> QED
      BY <1>1, <2>4, <3>1 DEF PoolInv
  <2>5. pools'[p].status = "ALLOCATED"
    BY <1>4
  <2> QED
    BY <2>3, <2>4, <2>5 DEF PoolInv
<1> QED
  BY <1>6, <1>7, <1>8, <1>9, <1>10, <1>11, <1>12 DEF p

LEMMA MarkFailsStep ==
  ASSUME SelInv, NEW a \in Actions, NEW r \in todo[a], AllocationFails(a, r)
  PROVE  SelInv'
<1>1. /\ Accommodates(a, r) /\ at' = [at EXCEPT ![a] = "cleanup"]
      /\ UNCHANGED <<pools, selection, todo, allocations, patch>>
  BY DEF AllocationFails
<1>2. PICK wanted, of, left :
        /\ wanted = InstancesFor(a, r) /\ of = Assignment(wanted, Available(r.pool))
        /\ left \subseteq {of[i] : i \in wanted} /\ machine' = Marked(a, r.pool, left)
  BY DEF AllocationFails
<1>3. /\ MachinesType' /\ PoolInv'
      /\ \A m \in Machines : m \notin left => machine'[m] = machine[m]
      /\ \A m \in left : machine[m].action = "none" /\ machine'[m].action = a
  BY SMT, <1>1, <1>2, MarkedFacts
<1>4. \A m \in Machines :
        \/ machine'[m] = machine[m]
        \/ machine[m].action \in {a, "none"} /\ machine'[m].action \in {a, "none"}
  BY <1>3
<1> QED
  BY <1>1, <1>3, <1>4, UndoneStep

\* The instances have their machines, each its own.
LEMMA MarkStep ==
  ASSUME SelInv, NEW a \in Actions, NEW r \in todo[a],
         _make_minion_machine_allocation_subflow_for_action(a, r)
  PROVE  SelInv'
<1>0. PICK wanted, of, left, new :
        /\ wanted = InstancesFor(a, r) /\ of = Assignment(wanted, Available(r.pool))
        /\ left = {of[i] : i \in wanted}
        /\ new = {[instance |-> i, role |-> r.role, machine |-> of[i]] :
                   i \in wanted \cap Instances}
        /\ machine' = Marked(a, r.pool, left)
        /\ allocations' = [allocations EXCEPT ![a] = allocations[a] \cup new]
        /\ at' = [at EXCEPT ![a] = IF wanted \subseteq Instances THEN "allocating"
                                                              ELSE "cleanup"]
  BY DEF _make_minion_machine_allocation_subflow_for_action
<1>1. /\ at[a] = "allocating" /\ Accommodates(a, r)
      /\ todo' = [todo EXCEPT ![a] = todo[a] \ {r}]
      /\ UNCHANGED <<pools, selection, patch>>
  BY DEF _make_minion_machine_allocation_subflow_for_action, Turn
<1>2. /\ MachinesType' /\ PoolInv'
      /\ \A i \in wanted : of[i] \in Machines
      /\ \A i \in wanted : machine[of[i]].action = "none"
      /\ \A i, j \in wanted : i # j => of[i] # of[j]
      /\ \A m \in Machines : m \notin left => machine'[m] = machine[m]
      /\ \A m \in left : /\ m \in Machines /\ machine[m].action = "none"
                         /\ machine'[m].action = a /\ machine'[m].pool = r.pool
  <2>1. /\ wanted = InstancesFor(a, r) /\ of = Assignment(wanted, Available(r.pool))
        /\ left \subseteq {of[i] : i \in wanted} /\ machine' = Marked(a, r.pool, left)
        /\ Accommodates(a, r) /\ UNCHANGED pools
    BY <1>0, <1>1
  <2>2. MachinesType' /\ PoolInv'
    BY SMT, <2>1, MarkedFacts
  <2>3. /\ \A i \in wanted : machine[of[i]].action = "none"
        /\ \A i, j \in wanted : i # j => of[i] # of[j]
    BY SMT, <2>1, MarkedFacts
  <2>4. /\ \A m \in Machines : m \notin left => machine'[m] = machine[m]
        /\ \A m \in left : /\ m \in Machines /\ machine[m].action = "none"
                           /\ machine'[m].action = a /\ machine'[m].pool = r.pool
    BY SMT, <2>1, MarkedFacts
  <2> QED
    BY <1>0, <2>2, <2>3, <2>4
<1>3. RequestsType /\ RequestInv(a) /\ Given(a)
  BY <1>1 DEF SelInv, SelType, RequestInv
<1>4. /\ at'[a] = IF wanted \subseteq Instances THEN "allocating" ELSE "cleanup"
      /\ todo'[a] = todo[a] \ {r} /\ allocations'[a] = allocations[a] \cup new
  BY <1>0, <1>1, <1>3 DEF RequestsType
<1>5. \A g \in new : \E i \in wanted : /\ g.instance = i /\ g.role = r.role
                                       /\ g = [instance |-> i, role |-> r.role, machine |-> of[i]]
                                       /\ g.machine = of[i]
  <2> TAKE g \in new
  <2>1. PICK i \in wanted : g = [instance |-> i, role |-> r.role, machine |-> of[i]]
    BY <1>0
  <2>2. g.instance = i /\ g.role = r.role /\ g.machine = of[i]
    BY <2>1
  <2> QED
    BY <2>1, <2>2
<1>6. \A i \in wanted \cap Instances :
        \E g \in new : g.instance = i /\ g.role = r.role /\ g.machine = of[i]
  <2> TAKE i \in wanted \cap Instances
  <2> DEFINE g == [instance |-> i, role |-> r.role, machine |-> of[i]]
  <2>1. g \in new /\ g.instance = i /\ g.role = r.role /\ g.machine = of[i]
    BY <1>0
  <2> QED
    BY <2>1
<1>7. \A i \in wanted : of[i] \in left
  BY <1>0
<1>8. \A g \in allocations'[a] : g.machine \in Machines
  BY <1>2, <1>3, <1>4, <1>5 DEF RequestsType
<1>9. \A g \in allocations[a] : machine[g.machine].action = a /\ machine'[g.machine] = machine[g.machine]
  BY <1>2, <1>3, SelectionsAssumption DEF Given, RequestsType
<1>10. ASSUME wanted \subseteq Instances
       PROVE  Given(a)'
  <2>1. /\ Roles(a)' = Roles(a) /\ \A x : InstancesFor(a, x)' = InstancesFor(a, x)
    BY <1>1 DEF Roles, InstancesFor, Mapped
  <2>2. \A x \in Roles(a)' : InstancesFor(a, x)' \subseteq Instances =>
          pools'[x.pool].platform = Side(x.role)
    BY <1>1, <1>3, <2>1 DEF Given
  <2>3. ASSUME NEW x \in Roles(a), x \notin todo'[a]
        PROVE  /\ InstancesFor(a, x) \subseteq Instances
               /\ \A i \in InstancesFor(a, x) : HasMachine(a, i, x)'
    <3>1. CASE x = r
      <4>1. \A i \in wanted : HasMachine(a, i, r)'
        <5> TAKE i \in wanted
        <5>1. PICK g \in new : g.instance = i /\ g.role = r.role /\ g.machine = of[i]
          BY <1>6, <1>10
        <5>2. g \in allocations'[a] /\ machine'[g.machine].pool = r.pool
          BY <1>2, <1>4, <1>7, <5>1
        <5> QED
          BY <5>1, <5>2 DEF HasMachine
      <4> QED
        BY <1>0, <1>10, <3>1, <4>1
    <3>2. CASE x # r
      <4>1. x \notin todo[a]
        BY <1>4, <2>3, <3>2
      <4>2. /\ InstancesFor(a, x) \subseteq Instances
            /\ \A i \in InstancesFor(a, x) : HasMachine(a, i, x)
        BY <1>3, <4>1 DEF Given
      <4> QED
        BY SMT, <1>4, <1>9, <4>2 DEF HasMachine
    <3> QED
      BY <3>1, <3>2
  <2>4. \A g \in allocations'[a] : machine'[g.machine].action = a
    BY <1>2, <1>4, <1>5, <1>7, <1>9
  <2>5. ASSUME NEW g \in allocations'[a], NEW h \in allocations'[a], g # h
        PROVE  g.machine # h.machine
    <3>1. CASE g \in allocations[a] /\ h \in allocations[a]
      BY <1>3, <2>5, <3>1 DEF Given
    <3>2. CASE g \in new /\ h \in new
      <4>1. PICK i \in wanted : /\ g = [instance |-> i, role |-> r.role, machine |-> of[i]]
                                /\ g.machine = of[i]
        BY <1>5, <3>2
      <4>2. PICK j \in wanted : /\ h = [instance |-> j, role |-> r.role, machine |-> of[j]]
                                /\ h.machine = of[j]
        BY <1>5, <3>2
      <4>3. i # j
        BY <2>5, <4>1, <4>2
      <4> QED
        BY <1>2, <4>1, <4>2, <4>3
    <3>3. ASSUME NEW x \in new, NEW y \in allocations[a]
          PROVE  x.machine # y.machine
      <4>1. PICK i \in wanted : x.machine = of[i]
        BY <1>5
      <4>2. machine[x.machine].action = "none"
        BY <1>2, <4>1
      <4>3. machine[y.machine].action = a
        BY <1>9
      <4> QED
        BY <4>2, <4>3, SelectionsAssumption
    <3> QED
      BY <1>4, <3>1, <3>2, <3>3
  <2> QED
    BY <2>1, <2>2, <2>3, <2>4, <2>5 DEF Given, Side
<1>11. RequestInv(a)'
  BY <1>4, <1>10 DEF RequestInv
<1>12. /\ at' = [at EXCEPT ![a] = at'[a]] /\ at'[a] \in Places
       /\ todo' = [todo EXCEPT ![a] = todo'[a]] /\ todo'[a] \subseteq Roles(a)
       /\ allocations' = [allocations EXCEPT ![a] = allocations'[a]]
  BY <1>0, <1>1, <1>3, <1>4 DEF Places, RequestsType
<1>13. \A m \in Machines :
         \/ machine'[m] = machine[m]
         \/ machine[m].action \in {a, "none"} /\ machine'[m].action \in {a, "none"}
  BY <1>2
<1> QED
  BY <1>1, <1>2, <1>8, <1>11, <1>12, <1>13, ActionStep

\* The machines which a request was given are in use.
LEMMA FlowStep ==
  ASSUME SelInv, NEW a \in Actions, FlowSucceeds(a)
  PROVE  SelInv'
<1>1. PoolsType /\ MachinesType /\ RequestsType /\ PoolInv
  BY DEF SelInv, SelType
<1>2. /\ at[a] = "flow" /\ at' = [at EXCEPT ![a] = "confirmed"]
      /\ machine' = [m \in Machines |-> IF m \in AllocatedTo(a)
                       THEN [machine[m] EXCEPT !.status = "IN_USE"] ELSE machine[m]]
      /\ UNCHANGED <<pools, selection, todo, allocations, patch>>
  BY DEF FlowSucceeds
<1>3. at'[a] = "confirmed" /\ todo[a] = {} /\ Given(a)
  BY <1>1, <1>2 DEF SelInv, RequestInv, RequestsType
<1>4. ASSUME NEW m \in Machines, machine[m].action = a
      PROVE  /\ machine[m].pool \in Pools /\ machine[m].status # "AVAILABLE"
             /\ machine'[m] = Machine(machine[m].pool, "IN_USE", a)
  <2>1. machine[m] \in MachineRows /\ machine[m].status # "AVAILABLE"
    BY <1>1, <1>4, MachineFacts, SelectionsAssumption DEF MachinesType, IsMachine
  <2>2. machine'[m] = [machine[m] EXCEPT !.status = "IN_USE"]
    BY <1>2, <1>4 DEF AllocatedTo
  <2> QED
    BY <1>4, <2>1, <2>2 DEF MachineRows, Machine
<1>5. \A m \in Machines : machine[m].action # a => machine'[m] = machine[m]
  BY <1>2 DEF AllocatedTo
<1>6. MachinesType'
  <2>1. \A m \in Machines : IsMachine(machine'[m])
    BY <1>1, <1>4, <1>5, MachineFacts DEF MachinesType
  <2>2. machine' = [m \in Machines |-> machine'[m]]
    BY <1>2
  <2> QED
    BY <2>1, <2>2 DEF MachinesType, IsMachine, NoMachine, MachineRows
<1>7. \A m \in Machines : /\ machine'[m].pool = machine[m].pool
                          /\ machine'[m].action = machine[m].action
                          /\ machine'[m].action = a => machine'[m].status = "IN_USE"
                          /\ machine[m].status = "AVAILABLE" => machine'[m] = machine[m]
  <2> TAKE m \in Machines
  <2>1. CASE machine[m].action = a
    BY SMT, <1>4, <2>1, MachineFacts
  <2>2. CASE machine[m].action # a
    BY <1>5, <2>2
  <2> QED
    BY <2>1, <2>2
<1>8. PoolInv'
  BY <1>1, <1>2, <1>7, PoolsKept
<1>9. Given(a)'
  <2>1. /\ Roles(a)' = Roles(a) /\ \A r : InstancesFor(a, r)' = InstancesFor(a, r)
    BY <1>2 DEF Roles, InstancesFor, Mapped
  <2>2. \A i, r : HasMachine(a, i, r) => HasMachine(a, i, r)'
    BY <1>1, <1>2, <1>7 DEF HasMachine, RequestsType
  <2>3. \A g \in allocations[a] : machine'[g.machine].action = a
    BY <1>1, <1>3, <1>7 DEF Given, RequestsType
  <2> QED
    BY <1>2, <1>3, <2>1, <2>2, <2>3 DEF Given, Side
<1>10. RequestInv(a)'
  BY <1>2, <1>3, <1>7, <1>9 DEF RequestInv, AllocatedTo
<1>11. /\ at' = [at EXCEPT ![a] = at'[a]] /\ at'[a] \in Places
       /\ todo' = [todo EXCEPT ![a] = todo'[a]] /\ todo'[a] \subseteq Roles(a)
       /\ allocations' = [allocations EXCEPT ![a] = allocations'[a]]
       /\ \A g \in allocations'[a] : g.machine \in Machines
  <2>1. at' = [at EXCEPT ![a] = at'[a]] /\ at'[a] \in Places
    BY <1>2, <1>3 DEF Places
  <2>2. todo' = [todo EXCEPT ![a] = todo'[a]] /\ todo'[a] \subseteq Roles(a)
    BY <1>1, <1>2, <1>3 DEF RequestsType
  <2>3. allocations' = [allocations EXCEPT ![a] = allocations'[a]]
    BY <1>1, <1>2 DEF RequestsType
  <2> QED
    BY <1>1, <1>2, <2>1, <2>2, <2>3 DEF RequestsType
<1>12. \A m \in Machines :
         \/ machine'[m] = machine[m]
         \/ machine[m].action \in {a, "none"} /\ machine'[m].action \in {a, "none"}
  BY <1>5, <1>7
<1> QED
  BY <1>2, <1>6, <1>8, <1>10, <1>11, <1>12, ActionStep

-----------------------------------------------------------------------------
LEMMA InitSelInv == ASSUME SelectionsInit PROVE SelInv
<1>1. /\ machine = [m \in Machines |-> NoMachine] /\ selection \in [Actions -> Selections]
      /\ at = [a \in Actions |-> "new"] /\ todo = [a \in Actions |-> {}]
      /\ allocations = [a \in Actions |-> {}] /\ patch = [u \in Patches |-> NoPatch]
  BY DEF SelectionsInit
<1>2. PICK kind \in PoolKinds :
        pools = [p \in Pools |->
                  [endpoint |-> kind[p].endpoint, platform |-> kind[p].platform,
                   os_type |-> kind[p].os_type, minimum |-> 1, maximum |-> 2,
                   status |-> "DEALLOCATED"]]
  BY DEF SelectionsInit
<1>3. PoolsType /\ \A p \in Pools : pools[p].maximum = 2
  BY SMT, <1>2 DEF PoolsType, IsPool, PoolStatuses
<1>4. MachinesType
  BY <1>1, MachineFacts DEF MachinesType
<1>5. RequestsType
  BY <1>1 DEF RequestsType, Places
<1>6. PatchInv
  BY <1>1, SelectionsAssumption DEF PatchInv, Asked, NoPatch, Patch
<1>7. \A p \in Pools : MachinesOf(p) = {} /\ Available(p) = {}
  BY <1>1, MachineFacts, SelectionsAssumption DEF MachinesOf, Available
<1>8. PoolInv
  <2>1. \A p \in Pools : Cardinality(MachinesOf(p)) = 0
    BY <1>7, FS_EmptySet
  <2>2. \A p \in Pools : Cardinality(MachinesOf(p)) <= pools[p].maximum
    BY SMT, <1>3, <2>1
  <2>3. \A p \in Pools : MachinesOf(p) = Available(p)
    BY <1>7
  <2> QED
    BY <1>7, <2>2, <2>3 DEF PoolInv
<1>9. \A a \in Actions : RequestInv(a)
  BY <1>1 DEF RequestInv
<1> QED
  BY <1>3, <1>4, <1>5, <1>6, <1>8, <1>9 DEF SelInv, SelType

LEMMA NextSelInv ==
  ASSUME OneUpdate, SelInv, [SelectionsNext]_selectionVars
  PROVE  SelInv'
<1>1. CASE UNCHANGED selectionVars
  <2>1. UNCHANGED <<pools, machine, selection, at, todo, allocations, patch>>
    BY <1>1 DEF selectionVars
  <2>2. PoolsType /\ MachinesType /\ PatchInv /\ PoolInv
    BY DEF SelInv, SelType
  <2>3. PoolsType'
    BY <2>1, <2>2 DEF PoolsType, IsPool
  <2>4. MachinesType'
    BY <2>1, <2>2 DEF MachinesType, IsMachine, NoMachine, MachineRows
  <2>5. PatchInv' /\ PoolInv'
    BY <2>1, <2>2, PatchKept, PoolsKept
  <2> QED
    BY <2>1, <2>3, <2>4, <2>5, OwnerStep
<1>2. CASE \E p \in Pools : \/ allocate_minion_pool(p) \/ deallocate_minion_pool(p)
                            \/ PoolDeallocated(p)
  BY <1>2, AllocatePool, DeallocatePool
<1>3. CASE \E u \in Patches : update_minion_pool(u)
  BY <1>3, MakeUpdate
<1>4. CASE \E u \in Patches, p \in Pools :
             \/ \E field \in {"minimum", "maximum"}, value \in {1, 2} :
                  _validate_update_body(u, p, field, value)
             \/ _validate_update_body(u, p, "os_type", "windows")
  BY <1>4, AcceptUpdate
<1>5. CASE \E a \in Actions :
             \/ validate_minion_pool_selections_for_action(a)
             \/ \E r \in todo[a] : RefusesAllocation(a, r)
             \/ _run_machine_allocation_subflow_for_action(a)
             \/ ExecutionEnds(a)
  BY <1>5, QuietSteps
<1>6. CASE \E a \in Actions : \E r \in todo[a] :
             \/ _make_minion_machine_allocation_subflow_for_action(a, r)
             \/ AllocationFails(a, r)
  BY <1>6, MarkStep, MarkFailsStep
<1>7. CASE \E a \in Actions :
             \/ _cleanup_machines_with_statuses_for_action(a)
             \/ deallocate_minion_machines_for_action(a)
             \/ FlowSucceeds(a) \/ FlowFails(a)
  BY <1>7, UndoSteps, FlowStep
<1> QED
  BY <1>1, <1>2, <1>3, <1>4, <1>5, <1>6, <1>7 DEF SelectionsNext

\* The machines which an action has got are all that it was to have.
LEMMA RequestServed ==
  ASSUME SelInv, HeldInv
  PROVE  SelectionsTypeOK /\ EveryInstanceServed /\ OverHoldsNothing /\ PoolMaximum
<1>1. MachinesType /\ RequestsType /\ PoolInv
  BY DEF SelInv, SelType
<1>2. SelectionsTypeOK
  BY <1>1 DEF SelectionsTypeOK, MachinesType, IsMachine, MachineRows, RequestsType, Places
<1>3. PoolMaximum
  BY <1>1 DEF PoolMaximum, PoolInv
<1>4. OverHoldsNothing
  BY DEF HeldInv, OverHoldsNothing, AllocatedTo
<1>5. ASSUME NEW a \in Actions, at[a] = "confirmed"
      PROVE  /\ \A r \in Roles(a) :
                  /\ \A i \in InstancesFor(a, r) : Served(a, i, r)
                  /\ pools[r.pool].platform = Side(r.role)
             /\ \A g, h \in allocations[a] : g # h => g.machine # h.machine
  <2>1. /\ todo[a] = {} /\ Given(a)
        /\ \A m \in Machines : machine[m].action = a => machine[m].status = "IN_USE"
    BY <1>5 DEF SelInv, RequestInv, AllocatedTo
  <2>2. \A g \in allocations[a] : /\ machine[g.machine].action = a
                                  /\ machine[g.machine].status = "IN_USE"
                                  /\ machine[g.machine] \in MachineRows
    <3>1. \A m \in Machines : machine[m].action = a => machine[m] \in MachineRows
      BY SMT, <1>1, MachineFacts, SelectionsAssumption DEF MachinesType, IsMachine
    <3>2. \A g \in allocations[a] : g.machine \in Machines /\ machine[g.machine].action = a
      BY <1>1, <2>1 DEF Given, RequestsType
    <3> QED
      BY <2>1, <3>1, <3>2
  <2>3. \A g \in allocations[a] :
          machine[g.machine] = Machine(machine[g.machine].pool, "IN_USE", a)
    BY <2>2 DEF MachineRows, Machine
  <2>4. ASSUME NEW r \in Roles(a), NEW i \in InstancesFor(a, r)
        PROVE  Served(a, i, r)
    <3>1. HasMachine(a, i, r)
      BY <2>1, <2>4 DEF Given
    <3> QED
      BY <2>3, <3>1 DEF HasMachine, Served
  <2> QED
    BY <2>1, <2>4 DEF Given
<1>6. EveryInstanceServed
  BY <1>5 DEF EveryInstanceServed, Side
<1> QED
  BY <1>2, <1>3, <1>4, <1>6

\* Where updates of pools are made one at a time, an action whose machines are confirmed has for every
\* instance a machine of its own in each pool it selected, and no pool has more machines
\* than its maximum (_make_minion_machine_allocation_subflow_for_action, by which the
\* pool is looked at again; _check_pool_numeric_values beside update_minion_pool).
THEOREM EveryInstanceIsServed ==
  []OneUpdate /\ SelectionsSpec =>
    [](SelectionsTypeOK /\ EveryInstanceServed /\ OverHoldsNothing /\ PoolMaximum)
<1>1. SelectionsInit => SelInv /\ HeldInv
  BY InitSelInv, InitHeldInv, SelectionsAssumption
<1>2. OneUpdate /\ SelInv /\ HeldInv /\ [SelectionsNext]_selectionVars => SelInv' /\ HeldInv'
  BY NextSelInv, NextHeldInv, SelectionsAssumption
<1> QED
  BY <1>1, <1>2, RequestServed, PTL DEF SelectionsSpec
=============================================================================
