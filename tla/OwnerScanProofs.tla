-------------------------- MODULE OwnerScanProofs --------------------------
(***************************************************************************)
(* The owner action scan for any chain, reorgs, restarts, depths, chunk    *)
(* and faults: an origin sampled on the chain that is followed; a timeline *)
(* complete as far as it is said to be, where the scan is to start at the  *)
(* genesis; and, as far as the two loops do not step between a commit and  *)
(* its publication, memory that agrees with the database and an origin     *)
(* that only falls.                                                        *)
(***************************************************************************)
EXTENDS OwnerScan, NaturalsInduction, WellFoundedInduction, TLAPS

Versions == 0 .. MaxReorgs
Entries == Heights \X Versions
Cursors == -1 .. MaxHeight
Starts == 0 .. MaxHeight + 1
Origins == [block : Heights, fork : Versions, archive : BOOLEAN]
Checkpoints == [cursor : Cursors, through : Heights, origin : Origins, gen : Nat]
Memory == [head : Heights, actions : SUBSET Entries, origin : Origins, extended : BOOLEAN,
           through : Heights]

(* A pass by where it is: what it has in hand there. *)
Resting == [pc : {"idle"}]
Reading == [pc : {"read"}, gen : Nat]
Extending == [pc : {"extend"}, gen : Nat, head : Heights, cursor : Cursors, origin : Origins,
              extended : BOOLEAN]
Sampling == [pc : {"origin", "load", "publish"}, gen : Nat, head : Heights, cursor : Cursors,
             then : {"extended", "scan"}, from : Starts, read : SUBSET Entries, origin : Origins]
Starting == [pc : {"start"}, gen : Nat, head : Heights, cursor : Cursors]
Flooring == [pc : {"floor"}, gen : Nat, head : Heights, cursor : Cursors, origin : Origins,
             from : Starts, target : Heights]
FloorRead == [pc : {"store floor"}, gen : Nat, head : Heights, cursor : Cursors, origin : Origins,
              from : Starts, target : Heights, to : Heights, logs : SUBSET Entries]
Scanning == [pc : {"scan"}, gen : Nat, head : Heights, from : Starts, chunks : Nat]
ChunkRead == [pc : {"store chunk"}, gen : Nat, head : Heights, from : Starts, chunks : Nat,
              to : Heights, logs : SUBSET Entries]
Passes == Resting \cup Reading \cup Extending \cup Sampling \cup Starting \cup Flooring
          \cup FloorRead \cup Scanning \cup ChunkRead

-----------------------------------------------------------------------------
(* The inductive invariant. *)
TypeInv ==
  /\ tip \in 1 .. MaxHeight /\ ver \in [Heights -> Versions]
  /\ actions \in SUBSET Entries /\ missing \in SUBSET Heights
  /\ ckpt \in Checkpoints /\ mem \in Memory
  /\ pub \in {NoRewind} \cup [ancestor : Heights, reset : BOOLEAN]
  /\ pass \in Passes /\ depth \in Depths /\ deferrals \in 0 .. MaxRecoveryDeferrals - 1
  /\ spent \in [reorgs : Versions, restarts : Nat, epochs : Nat, faults : Nat]

(* Rows the node no longer has are the highest ones. *)
RowsInv ==
  /\ rows \in [DOMAIN rows -> Versions] /\ DOMAIN rows \in SUBSET (1 .. tip)
  /\ \A h \in DOMAIN rows : rows[h] <= spent.reorgs
  /\ \A h \in Heights : ver[h] <= spent.reorgs
  /\ \A g, h \in DOMAIN rows : h <= g /\ rows[g] = ver[g] => rows[h] = ver[h]

(* A pass and memory know no head above the node's; a pass is of this      *)
(* generation or an earlier one.                                           *)
Headed == pass.pc \notin {"idle", "read"}
PassInv ==
  /\ mem.head <= tip /\ (Headed => 1 <= pass.head /\ pass.head <= tip)
  /\ pass.pc # "idle" => pass.gen <= ckpt.gen

(* The rewind that is due keeps a height that survives. *)
Survives(h) ==
  \/ Settled
  \/ \E r \in DOMAIN rows : h <= r /\ rows[r] = ver[r]
  \/ \A r \in DOMAIN rows : h < r

(* What a sample says of its height, while the generation it is of lasts. *)
Sampled(o) == o.archive /\ Survives(o.block) => o.fork = ver[o.block]
OriginInv == Sampled(ckpt.origin) /\ (pass.pc = "origin" /\ Current => Sampled(pass.origin))

(* The scan has a cursor before it says it is through. *)
Carries == pass.pc \in {"extend", "floor", "store floor", "origin", "load", "publish", "start"}
CursorInv ==
  /\ ckpt.through <= Greater(ckpt.cursor, 0)
  /\ Carries /\ Current => pass.cursor = ckpt.cursor
  /\ pass.pc \in {"origin", "load", "publish"} /\ pass.then = "scan" =>
       pass.from <= pass.head /\ pass.cursor = Absent
  /\ pass.pc \in {"scan", "store chunk"} /\ Current =>
       ckpt.cursor < pass.from /\ (pass.from <= pass.head \/ ckpt.cursor = pass.from - 1)
  /\ pass.pc = "store chunk" => pass.from <= pass.to /\ pass.to <= pass.head

Base == TypeInv /\ RowsInv /\ PassInv /\ CursorInv
Inv == Base /\ OriginInv

(* The actions of the heights up to n that survive are among as. *)
Recorded(as, n) == \A h \in Acting : 1 <= h /\ h <= n /\ Survives(h) => Canonical(h) \in as
(* ...of those memory will still vouch for once the rewind is published. *)
Shown(h) == pub = NoRewind \/ h <= pub.ancestor
Cached(as, n) ==
  \A h \in Acting : 1 <= h /\ h <= n /\ Survives(h) /\ Shown(h) => Canonical(h) \in as

(* A scan from the genesis: everything up to its cursor is recorded, and   *)
(* memory has what it vouches for, whatever it is made of.                 *)
TimelineInv ==
  /\ Recorded(actions, ckpt.cursor)
  /\ Cached(actions, mem.through) /\ Cached(mem.actions, mem.through)
  /\ pass.pc \in {"origin", "load", "publish"} =>
       Cached(pass.read, mem.through) /\ (pass.then = "scan" => pass.from = 0)
  /\ pass.pc \in {"scan", "store chunk"} /\ Current => ckpt.cursor = pass.from - 1
  /\ pass.pc = "store chunk" /\ Current =>
       \A h \in Acting : pass.from <= h /\ h <= pass.to /\ Survives(h) => Canonical(h) \in pass.logs

(* Actions of heights that survive are those of the chain. *)
Alive(as) == \A h \in Heights, v \in Versions : <<h, v>> \in as /\ Survives(h) => v = ver[h]
AliveShown(as) ==
  \A h \in Heights, v \in Versions : <<h, v>> \in as /\ Survives(h) /\ Shown(h) => v = ver[h]
AliveInv ==
  /\ Alive(actions) /\ AliveShown(mem.actions)
  /\ pass.pc \in {"store floor", "store chunk"} /\ Current => Alive(pass.logs)
  /\ pass.pc = "origin" /\ Current => Alive(pass.read)
  /\ pass.pc \in {"load", "publish"} => Alive(pass.read)

(* Memory and database have the same origin, but for a commit that is not  *)
(* published; a pass extends the one they have.                            *)
AgreeInv ==
  /\ pass.pc \in {"load", "publish"} => pub = NoRewind /\ ckpt.origin = pass.origin
  /\ pub = NoRewind /\ pass.pc \notin {"load", "publish"} => mem.origin = ckpt.origin
  /\ pub # NoRewind => ckpt.origin = IF pub.reset THEN NoOrigin ELSE mem.origin
  /\ pass.pc \in {"extend", "floor", "store floor"} /\ Current => pass.origin = ckpt.origin
  /\ pass.pc \in {"floor", "store floor"} => pass.target <= pass.origin.block
  /\ pass.pc = "origin" /\ Current => \/ ckpt.origin = NoOrigin \/ pass.origin = NoOrigin
                                      \/ pass.origin.block <= ckpt.origin.block

-----------------------------------------------------------------------------
(* Every nonempty set of naturals has a least element, and a bounded set a *)
(* greatest. The well-founded order takes the place of induction.          *)
Below == {pair \in Nat \X Nat : pair[1] < pair[2]}

LEMMA BelowWellFounded == IsWellFoundedOn(Below, Nat)
  BY NatLessThanWellFounded, Zenon DEF OpToRel, Below

LEMMA LeastNat ==
  ASSUME NEW S \in SUBSET Nat, S # {}
  PROVE  \E m \in S : \A k \in S : m <= k
<1>1. PICK m \in S : \A k \in S : ~ (<<k, m>> \in Below)
  BY BelowWellFounded, WFMin
<1>2. \A k \in S : ~ (k < m)
  BY <1>1 DEF Below
<1> QED
  BY <1>2

LEMMA MinOfNat ==
  ASSUME NEW S \in SUBSET Nat, S # {}
  PROVE  Min(S) \in S /\ \A x \in S : Min(S) <= x
<1>1. PICK m \in S : \A k \in S : m =< k
  BY LeastNat
<1>2. Min(S) \in S /\ \A x \in S : Min(S) =< x
  BY <1>1 DEF Min
<1> QED
  BY <1>2

LEMMA MaxOfBounded ==
  ASSUME NEW b \in Nat, NEW S \in SUBSET (0 .. b), S # {}
  PROVE  Max(S) \in S /\ \A x \in S : x <= Max(S)
<1> DEFINE D == {b - x : x \in S}
<1>1. D \in SUBSET Nat /\ D # {}
  <2>1. \A x \in S : b - x \in Nat
    OBVIOUS
  <2>2. PICK x \in S : TRUE
    OBVIOUS
  <2>3. b - x \in D
    OBVIOUS
  <2> QED
    BY <2>1, <2>3
<1>2. PICK m \in D : \A k \in D : m <= k
  BY <1>1, LeastNat
<1>3. PICK y \in S : m = b - y
  OBVIOUS
<1>4. \A x \in S : y >= x
  <2> TAKE x \in S
  <2>1. b - x \in D
    OBVIOUS
  <2>2. b - y <= b - x
    BY <2>1, <1>2, <1>3
  <2> QED
    BY <2>2
<1>5. Max(S) \in S /\ \A x \in S : Max(S) >= x
  BY <1>3, <1>4 DEF Max
<1> QED
  BY <1>5

-----------------------------------------------------------------------------
(* Where a pass is says what it has in hand.                               *)
LEMMA PassAt ==
  ASSUME pass \in Passes
  PROVE  /\ pass.pc = "idle" => pass \in Resting
         /\ pass.pc = "read" => pass \in Reading
         /\ pass.pc = "extend" => pass \in Extending
         /\ pass.pc \in {"origin", "load", "publish"} => pass \in Sampling
         /\ pass.pc = "start" => pass \in Starting
         /\ pass.pc = "floor" => pass \in Flooring
         /\ pass.pc = "store floor" => pass \in FloorRead
         /\ pass.pc = "scan" => pass \in Scanning
         /\ pass.pc = "store chunk" => pass \in ChunkRead
  BY DEF Passes, Resting, Reading, Extending, Sampling, Starting, Flooring, FloorRead, Scanning,
         ChunkRead

LEMMA PassFields ==
  ASSUME pass \in Passes
  PROVE  /\ pass.pc \in {"idle", "read", "extend", "floor", "store floor", "origin", "load", "publish",
                        "start", "scan", "store chunk"}
         /\ pass.pc # "idle" => pass.gen \in Nat
         /\ Headed => pass.head \in Heights
         /\ Carries => pass.cursor \in Cursors
<1>1. pass.pc \in {"idle", "read", "extend", "floor", "store floor", "origin", "load", "publish",
                 "start", "scan", "store chunk"}
  BY DEF Passes, Resting, Reading, Extending, Sampling, Starting, Flooring, FloorRead, Scanning,
         ChunkRead
<1>2. CASE pass.pc = "idle"
  BY <1>2 DEF Headed, Carries
<1>3. CASE pass.pc = "read"
  BY <1>3, PassAt DEF Headed, Carries, Reading
<1>4. CASE pass.pc = "extend"
  BY <1>4, PassAt DEF Extending
<1>5. CASE pass.pc \in {"origin", "load", "publish"}
  BY <1>5, PassAt DEF Sampling
<1>6. CASE pass.pc = "start"
  BY <1>6, PassAt DEF Starting
<1>7. CASE pass.pc = "floor"
  BY <1>7, PassAt DEF Flooring
<1>8. CASE pass.pc = "store floor"
  BY <1>8, PassAt DEF FloorRead
<1>9. CASE pass.pc = "scan"
  BY <1>9, PassAt DEF Scanning, Carries
<1>10. CASE pass.pc = "store chunk"
  BY <1>10, PassAt DEF ChunkRead, Carries
<1> QED
  BY <1>1, <1>2, <1>3, <1>4, <1>5, <1>6, <1>7, <1>8, <1>9, <1>10

LEMMA Typed ==
  ASSUME OwnerScanAssumption, TypeInv
  PROVE  /\ MaxHeight \in Nat /\ Heights \in SUBSET Nat /\ Versions \in SUBSET Nat
         /\ tip \in Nat /\ tip \in Heights /\ 1 <= tip
         /\ \A h \in Heights : ver[h] \in Versions
         /\ mem.head \in Heights /\ mem.through \in Heights /\ mem.origin \in Origins
         /\ ckpt.cursor \in Cursors /\ ckpt.through \in Heights /\ ckpt.origin \in Origins
         /\ ckpt.gen \in Nat /\ pub.ancestor \in Cursors
         /\ pub # NoRewind => pub.ancestor \in Heights /\ pub.reset \in BOOLEAN
         /\ spent.reorgs \in Nat /\ spent.reorgs \in Versions /\ pass \in Passes
<1>1. MaxHeight \in Nat /\ Heights \in SUBSET Nat /\ Versions \in SUBSET Nat
  BY DEF OwnerScanAssumption, Heights, Versions
<1>2. tip \in Nat /\ tip \in Heights /\ 1 <= tip /\ \A h \in Heights : ver[h] \in Versions
  BY <1>1 DEF TypeInv, Heights
<1>3. mem.head \in Heights /\ mem.through \in Heights /\ mem.origin \in Origins
  BY DEF TypeInv, Memory
<1>4. ckpt.cursor \in Cursors /\ ckpt.through \in Heights /\ ckpt.origin \in Origins /\ ckpt.gen \in Nat
  BY DEF TypeInv, Checkpoints
<1>5. spent.reorgs \in Versions /\ pass \in Passes
  BY DEF TypeInv
<1>6. /\ pub.ancestor \in Cursors
      /\ pub # NoRewind => pub.ancestor \in Heights /\ pub.reset \in BOOLEAN
  BY <1>1 DEF TypeInv, Cursors, Heights, NoRewind, Absent
<1> QED
  BY <1>1, <1>2, <1>3, <1>4, <1>5, <1>6

(* The head of the stored rows. *)
LEMMA HeadOfRows ==
  ASSUME OwnerScanAssumption, TypeInv, RowsInv
  PROVE  /\ Head \in 0 .. tip /\ Head \in Heights
         /\ Head \in {0} \cup DOMAIN rows
         /\ \A h \in DOMAIN rows : h <= Head
<1> DEFINE S == {0} \cup DOMAIN rows
<1>1. tip \in Nat /\ tip <= MaxHeight /\ MaxHeight \in Nat /\ S \in SUBSET (0 .. tip) /\ S # {}
  BY DEF TypeInv, RowsInv, OwnerScanAssumption
<1>2. Head = Max(S)
  BY DEF Head
<1> HIDE DEF S
<1>3. Max(S) \in S /\ \A x \in S : x <= Max(S)
  BY <1>1, MaxOfBounded
<1> QED
  BY <1>1, <1>2, <1>3 DEF S, Heights

(* What a step keeps that touches neither the node nor the rows.           *)
LEMMA SurvivesKept ==
  ASSUME ver' = ver, rows' = rows
  PROVE  \A h : Survives(h)' <=> Survives(h)
  BY DEF Survives, Settled

LEMMA RowsKept ==
  ASSUME RowsInv, tip' = tip, ver' = ver, rows' = rows, spent'.reorgs = spent.reorgs
  PROVE  RowsInv'
  BY DEF RowsInv

(* The logs read of a range are of blocks the node has. *)
LEMMA LogsRead ==
  ASSUME OwnerScanAssumption, TypeInv, NEW from \in Int, NEW to \in Int
  PROVE  /\ Logs(from, to) \in SUBSET Entries
         /\ Alive(Logs(from, to))
         /\ to <= tip => \A h \in Acting : from <= h /\ h <= to => Canonical(h) \in Logs(from, to)
<1>1. Acting \in SUBSET Heights /\ Heights \in SUBSET Nat /\ tip \in Nat
  BY DEF OwnerScanAssumption, TypeInv, Heights
<1>2. \A h \in Heights : ver[h] \in Versions
  BY DEF TypeInv
<1>3. Logs(from, to) \in SUBSET Entries
  BY <1>1, <1>2 DEF Logs, Entries
<1>4. Alive(Logs(from, to))
  BY DEF Alive, Logs
<1>5. ASSUME to <= tip, NEW h \in Acting, from <= h, h <= to PROVE Canonical(h) \in Logs(from, to)
  <2>1. Lesser(to, tip) = to
    BY <1>1, <1>5 DEF Lesser
  <2>2. h \in from .. to
    BY <1>1, <1>5
  <2> QED
    BY <2>1, <2>2 DEF Logs, Canonical
<1> QED
  BY <1>3, <1>4, <1>5

(* A sample of the chain as it is says the truth of it. *)
LEMMA CutoffBounds ==
  ASSUME OwnerScanAssumption, TypeInv, NEW head \in Heights, 1 <= head
  PROVE  /\ DepthCutoff(head) \in Heights /\ DepthCutoff(head) <= head
         /\ depth = Genesis => DepthCutoff(head) = 0
  BY DEF OwnerScanAssumption, TypeInv, DepthCutoff, Greater, Heights, Genesis, Hold

-----------------------------------------------------------------------------
(* The base of the invariant and what a sample says, action by action.     *)
LEMMA OriginKept ==
  ASSUME OriginInv, ver' = ver, rows' = rows, ckpt' = ckpt, pass'.pc # "origin"
  PROVE  OriginInv'
  BY SurvivesKept DEF OriginInv, Sampled

LEMMA BaseMint ==
  ASSUME OwnerScanAssumption, Inv, Mint
  PROVE  Inv'
<1>1. tip \in Nat /\ tip' = tip + 1 /\ tip' \in 1 .. MaxHeight
  BY DEF Inv, Base, TypeInv, Mint, OwnerScanAssumption
<1>2. ver' = ver /\ rows' = rows /\ pass' = pass /\ ckpt' = ckpt /\ mem' = mem
  BY DEF Mint, db
<1>3. TypeInv'
  BY <1>1 DEF Inv, Base, TypeInv, Mint, db
<1>4. RowsInv'
  BY <1>1 DEF Inv, Base, RowsInv, Mint, db
<1>5. PassInv'
  <2>1. mem.head \in Nat /\ (Headed => pass.head \in Nat)
    BY Typed, PassFields DEF Inv, Base
  <2> QED
    BY <1>1, <1>2, <2>1 DEF Inv, Base, PassInv, Headed
<1>6. CursorInv'
  BY <1>2 DEF Inv, Base, CursorInv, Carries, Current
<1>7. OriginInv'
  BY <1>2, SurvivesKept DEF Inv, OriginInv, Sampled, Current
<1> QED
  BY <1>3, <1>4, <1>5, <1>6, <1>7 DEF Inv, Base

(* A reorg changes the heights above the block it keeps, and the highest   *)
(* row shows it.                                                           *)
LEMMA ReorgSurvives ==
  ASSUME OwnerScanAssumption, Inv, NEW k \in Forks, Reorg(k)
  PROVE  \A h \in Heights : Survives(h)' => Survives(h) /\ ver'[h] = ver[h]
<1>1. /\ ver' = [h \in Heights |-> IF h > k THEN spent.reorgs + 1 ELSE ver[h]]
      /\ rows' = rows /\ DOMAIN rows # {} /\ k >= Min(DOMAIN rows) - 1 /\ k < Head
  BY DEF Reorg, db
<1>2. k \in Nat /\ DOMAIN rows \in SUBSET Nat /\ DOMAIN rows \in SUBSET Heights /\ spent.reorgs \in Nat
      /\ \A h \in DOMAIN rows : rows[h] \in Nat /\ rows[h] <= spent.reorgs
  <2>1. tip \in Nat /\ tip <= MaxHeight /\ MaxHeight \in Nat /\ Versions \in SUBSET Nat
    BY DEF OwnerScanAssumption, Inv, Base, TypeInv, Versions
  <2>2. k \in Nat /\ spent.reorgs \in Nat
    <3>1. k \in Heights
      BY DEF OwnerScanAssumption
    <3> QED
      BY <3>1, Typed DEF Inv, Base
  <2>3. DOMAIN rows \in SUBSET (1 .. tip) /\ rows \in [DOMAIN rows -> Versions]
        /\ \A h \in DOMAIN rows : rows[h] <= spent.reorgs
    BY DEF Inv, Base, RowsInv
  <2>4. DOMAIN rows \in SUBSET Nat /\ DOMAIN rows \in SUBSET Heights
    BY <2>1, <2>3 DEF Heights
  <2> QED
    BY <2>1, <2>2, <2>3, <2>4
<1>3. Head \in DOMAIN rows /\ Head \in Nat
  BY <1>1, <1>2, HeadOfRows DEF Inv, Base
<1>4. Min(DOMAIN rows) \in DOMAIN rows /\ Min(DOMAIN rows) \in Nat
  BY <1>1, <1>2, MinOfNat
<1>5. \A r \in DOMAIN rows : r > k => rows[r] # ver'[r]
  <2> SUFFICES ASSUME NEW r \in DOMAIN rows, r > k
               PROVE  rows[r] # ver'[r]
    OBVIOUS
  <2>1. ver'[r] = spent.reorgs + 1
    BY <1>1, <1>2
  <2> QED
    BY <1>2, <2>1
<1>6. \A r \in DOMAIN rows : rows[r] = ver'[r] => r <= k /\ rows[r] = ver[r]
  BY <1>1, <1>2, <1>5
<1> SUFFICES ASSUME NEW h \in Heights, Survives(h)'
             PROVE  h <= k /\ Survives(h)
  BY <1>1, <1>2 DEF Heights
<1>7. ~ Settled'
  BY <1>1, <1>2, <1>3, <1>5 DEF Settled
<1>8. CASE \E r \in DOMAIN rows' : h <= r /\ rows'[r] = ver'[r]
  BY <1>1, <1>2, <1>6, <1>8 DEF Survives, Heights
<1>9. CASE \A r \in DOMAIN rows' : h < r
  BY <1>1, <1>2, <1>4, <1>9 DEF Survives, Heights
<1> QED
  BY <1>7, <1>8, <1>9 DEF Survives

LEMMA BaseReorg ==
  ASSUME OwnerScanAssumption, Inv, NEW k \in Forks, Reorg(k)
  PROVE  Inv'
<1>1. /\ ver' = [h \in Heights |-> IF h > k THEN spent.reorgs + 1 ELSE ver[h]]
      /\ rows' = rows /\ tip' = tip /\ pass' = pass /\ ckpt' = ckpt /\ mem' = mem
      /\ spent' = [spent EXCEPT !.reorgs = spent.reorgs + 1]
  BY DEF Reorg, db
<1>2. spent.reorgs + 1 \in Versions
  BY DEF OwnerScanAssumption, Inv, Base, TypeInv, Versions, Reorg
<1>3. spent' \in [reorgs : Versions, restarts : Nat, epochs : Nat, faults : Nat]
      /\ spent'.reorgs = spent.reorgs + 1
  BY <1>1, <1>2 DEF Inv, Base, TypeInv
<1>4. ver' \in [Heights -> Versions]
  BY <1>1, <1>2 DEF Inv, Base, TypeInv
<1>5. TypeInv'
  <2>1. /\ actions' = actions /\ missing' = missing /\ pub' = pub /\ depth' = depth
        /\ deferrals' = deferrals /\ tip' = tip /\ pass' = pass /\ ckpt' = ckpt /\ mem' = mem
    BY DEF Reorg, db
  <2>2. TypeInv
    BY DEF Inv, Base
  <2> QED
    BY <1>3, <1>4, <2>1, <2>2 DEF TypeInv
<1>6. RowsInv'
  <2>1. k \in Nat /\ spent.reorgs \in Nat
        /\ \A h \in DOMAIN rows : h \in Heights /\ h \in Nat /\ rows[h] \in Nat /\ rows[h] <= spent.reorgs
    <3>1. k \in Heights /\ Heights \in SUBSET Nat /\ Versions \in SUBSET Nat /\ spent.reorgs \in Nat
          /\ tip \in Nat /\ tip <= MaxHeight /\ MaxHeight \in Nat
      <4>1. k \in Heights
        BY DEF OwnerScanAssumption
      <4>2. tip \in 1 .. MaxHeight
        BY DEF Inv, Base, TypeInv
      <4> QED
        BY <4>1, <4>2, Typed DEF Inv, Base
    <3>2. DOMAIN rows \in SUBSET (1 .. tip) /\ rows \in [DOMAIN rows -> Versions]
          /\ \A h \in DOMAIN rows : rows[h] <= spent.reorgs
      BY DEF Inv, Base, RowsInv
    <3> QED
      BY <3>1, <3>2 DEF Heights
  <2>2. \A h \in DOMAIN rows : rows[h] <= spent'.reorgs
    BY <1>3, <2>1
  <2>3. \A h \in DOMAIN rows : rows[h] = ver'[h] => h <= k
    BY <1>1, <2>1
  <2>4. \A g, h \in DOMAIN rows : h <= g /\ rows[g] = ver'[g] => rows[h] = ver'[h]
    <3> SUFFICES ASSUME NEW g \in DOMAIN rows, NEW h \in DOMAIN rows, h <= g, rows[g] = ver'[g]
                 PROVE  rows[h] = ver'[h]
      OBVIOUS
    <3>1. g <= k /\ h <= k
      BY <2>1, <2>3
    <3>2. ver'[g] = ver[g] /\ ver'[h] = ver[h]
      BY <1>1, <2>1, <3>1
    <3> QED
      BY <3>2 DEF Inv, Base, RowsInv
  <2>5. \A h \in Heights : ver'[h] <= spent'.reorgs
    <3> SUFFICES ASSUME NEW h \in Heights
                 PROVE  ver'[h] <= spent'.reorgs
      OBVIOUS
    <3>1. ver[h] <= spent.reorgs /\ ver[h] \in Nat
      BY Typed DEF Inv, Base, RowsInv
    <3> QED
      BY <1>1, <1>3, <2>1, <3>1
  <2> QED
    BY <1>1, <2>2, <2>4, <2>5 DEF Inv, Base, RowsInv
<1>7. PassInv' /\ CursorInv'
  BY <1>1 DEF Inv, Base, PassInv, Headed, CursorInv, Carries, Current
<1>8. OriginInv'
  <2>1. \A o \in Origins : Sampled(o) => Sampled(o)'
    BY ReorgSurvives DEF Sampled, Origins
  <2>2. ckpt.origin \in Origins /\ (pass.pc = "origin" => pass.origin \in Origins)
    BY PassAt DEF Inv, Base, TypeInv, Checkpoints, Sampling
  <2> QED
    BY <1>1, <2>1, <2>2 DEF Inv, OriginInv, Current
<1> QED
  BY <1>5, <1>6, <1>7, <1>8 DEF Inv, Base

(* A tick stores what the node has now, on rows that all agree with it.    *)
LEMMA TickSettled ==
  ASSUME OwnerScanAssumption, Inv, NEW known \in BOOLEAN, Tick(known)
  PROVE  /\ pub = NoRewind /\ \A h : Survives(h)
         /\ DOMAIN rows' \in SUBSET (1 .. tip) /\ \A h \in DOMAIN rows' : rows'[h] = ver[h]
         /\ Head + 1 \in Int
<1> DEFINE new == IF known THEN Head + 1 .. tip ELSE {tip}
<1>1. /\ Settled /\ pub = NoRewind /\ Head < tip
      /\ rows' = [h \in DOMAIN rows \cup new |-> ver[h]]
  BY DEF Tick
<1>2. Head \in 0 .. tip /\ tip \in Nat /\ 1 <= tip /\ DOMAIN rows \in SUBSET (1 .. tip)
  BY HeadOfRows, Typed DEF Inv, Base, RowsInv
<1>3. new \in SUBSET (1 .. tip)
  BY <1>2
<1>4. DOMAIN rows' = DOMAIN rows \cup new /\ \A h \in DOMAIN rows \cup new : rows'[h] = ver[h]
  BY <1>1
<1> HIDE DEF new
<1>5. DOMAIN rows' \in SUBSET (1 .. tip) /\ \A h \in DOMAIN rows' : rows'[h] = ver[h]
  BY <1>2, <1>3, <1>4
<1>6. \A h : Survives(h)
  BY <1>1 DEF Survives
<1>7. Head + 1 \in Int
  BY <1>2
<1> QED
  BY <1>1, <1>5, <1>6, <1>7

LEMMA BaseTick ==
  ASSUME OwnerScanAssumption, Inv, NEW known \in BOOLEAN, Tick(known)
  PROVE  Inv'
<1>1. /\ tip' = tip /\ ver' = ver /\ pass' = pass /\ ckpt' = ckpt /\ missing' = missing /\ pub' = pub
      /\ depth' = depth /\ deferrals' = deferrals
  BY DEF Tick, node
<1>2. actions' \in SUBSET Entries
  <2>1. Logs(Head + 1, tip) \in SUBSET Entries
    BY TickSettled, LogsRead, Typed DEF Inv, Base
  <2>2. actions' = actions \cup (IF known THEN Logs(Head + 1, tip) ELSE {})
    BY DEF Tick
  <2> QED
    BY <2>1, <2>2 DEF Inv, Base, TypeInv
<1>3. /\ mem' = [mem EXCEPT !.head = tip, !.actions = IF known THEN actions' ELSE mem.actions]
      /\ mem' \in Memory /\ mem'.head = tip
  <2> DEFINE as == IF known THEN actions' ELSE mem.actions
  <2>1. mem' = [mem EXCEPT !.head = tip, !.actions = as]
    BY DEF Tick
  <2>2. as \in SUBSET Entries /\ mem \in Memory /\ tip \in Heights
    BY <1>2, Typed DEF Inv, Base, TypeInv, Memory
  <2> HIDE DEF as
  <2>3. mem' \in Memory /\ mem'.head = tip
    BY <2>1, <2>2 DEF Memory
  <2> QED
    BY <2>1, <2>3 DEF as
<1>4. /\ spent' \in [reorgs : Versions, restarts : Nat, epochs : Nat, faults : Nat]
      /\ spent'.reorgs = spent.reorgs
  <2>1. spent \in [reorgs : Versions, restarts : Nat, epochs : Nat, faults : Nat]
    BY DEF Inv, Base, TypeInv
  <2>2. spent' = spent \/ spent' = [spent EXCEPT !.faults = spent.faults + 1]
    BY DEF Tick
  <2> QED
    BY <2>1, <2>2
<1>5. TypeInv'
  BY <1>1, <1>2, <1>3, <1>4 DEF Inv, Base, TypeInv
<1>6. RowsInv'
  <2>1. DOMAIN rows' \in SUBSET (1 .. tip) /\ \A h \in DOMAIN rows' : rows'[h] = ver[h]
    BY TickSettled
  <2>2. DOMAIN rows' \in SUBSET Heights /\ \A h \in Heights : ver[h] \in Versions /\ ver[h] <= spent.reorgs
    BY <2>1, Typed DEF Inv, Base, RowsInv, Heights
  <2>3. rows' = [h \in DOMAIN rows' |-> ver[h]]
    BY DEF Tick
  <2>4. rows' \in [DOMAIN rows' -> Versions]
    BY <2>2, <2>3
  <2> QED
    BY <1>1, <1>4, <2>1, <2>2, <2>4 DEF Inv, Base, RowsInv
<1>7. PassInv'
  BY <1>1, <1>3, Typed DEF Inv, Base, PassInv, Headed
<1>8. CursorInv'
  BY <1>1 DEF Inv, Base, CursorInv, Carries, Current
<1>9. OriginInv'
  BY <1>1, TickSettled DEF Inv, OriginInv, Sampled, Current
<1> QED
  BY <1>5, <1>6, <1>7, <1>8, <1>9 DEF Inv, Base

(* A rewind keeps heights that survive, and takes the checkpoints back.    *)
RewindTo ==
  LET same == {h \in DOMAIN rows : rows[h] = ver[h]}
  IN  IF same = {} THEN Min(DOMAIN rows) - 1 ELSE Max(same)

LEMMA RewindKeeps ==
  ASSUME OwnerScanAssumption, Inv, Rewind
  PROVE  /\ RewindTo \in Heights
         /\ \A h \in Heights : h <= RewindTo => Survives(h)
         /\ DOMAIN rows' \in SUBSET DOMAIN rows
         /\ \A h \in DOMAIN rows' : rows'[h] = rows[h] /\ rows[h] = ver[h]
<1> DEFINE same == {h \in DOMAIN rows : rows[h] = ver[h]}
<1>1. rows' = [h \in same |-> rows[h]] /\ ~ Settled
  BY DEF Rewind
<1>2. /\ tip \in Nat /\ tip <= MaxHeight /\ MaxHeight \in Nat
      /\ DOMAIN rows \in SUBSET (1 .. tip)
  BY Typed DEF Inv, Base, RowsInv, Heights
<1>3. PICK s \in DOMAIN rows : rows[s] # ver[s]
  BY <1>1 DEF Settled
<1>4. CASE same = {}
  <2>1. DOMAIN rows \in SUBSET Nat /\ DOMAIN rows # {}
    BY <1>2, <1>3
  <2>2. Min(DOMAIN rows) \in DOMAIN rows /\ \A r \in DOMAIN rows : Min(DOMAIN rows) <= r
    BY <2>1, MinOfNat
  <2>3. RewindTo = Min(DOMAIN rows) - 1
    BY <1>4 DEF RewindTo
  <2>4. RewindTo \in Nat /\ RewindTo <= MaxHeight /\ \A r \in DOMAIN rows : RewindTo < r
    BY <1>2, <2>2, <2>3
  <2>5. \A h \in Heights : h <= RewindTo => \A r \in DOMAIN rows : h < r
    BY <1>2, <2>1, <2>4 DEF Heights
  <2> QED
    BY <1>1, <1>4, <2>4, <2>5 DEF Survives, Heights
<1>5. CASE same # {}
  <2>1. same \in SUBSET (0 .. tip)
    BY <1>2
  <2>2. Max(same) \in same
    BY <1>2, <1>5, <2>1, MaxOfBounded
  <2>3. RewindTo = Max(same)
    BY <1>5 DEF RewindTo
  <2>4. RewindTo \in DOMAIN rows /\ rows[RewindTo] = ver[RewindTo]
    BY <2>2, <2>3
  <2>5. RewindTo \in Heights
    BY <1>2, <2>4 DEF Heights
  <2> QED
    BY <1>1, <2>4, <2>5 DEF Survives
<1> QED
  BY <1>4, <1>5

LEMMA RewindCheckpoints ==
  ASSUME OwnerScanAssumption, Inv, Rewind
  PROVE  /\ ckpt' \in Checkpoints /\ ckpt'.gen = ckpt.gen + 1
         /\ pub' = [ancestor |-> RewindTo, reset |-> Resets(RewindTo)] /\ pub = NoRewind
         /\ actions' = Through(actions, RewindTo)
         /\ Resets(RewindTo) => ckpt'.origin = NoOrigin /\ ckpt'.cursor = Absent /\ ckpt'.through = 0
         /\ ~ Resets(RewindTo) => /\ ckpt'.origin = ckpt.origin
                                  /\ ckpt'.cursor = RewindCursor(ckpt.cursor, RewindTo)
                                  /\ ckpt'.through = RewindCursor(ckpt.through, RewindTo)
<1> DEFINE k == RewindTo
           c == RewindOwnerScan(ckpt, k)
<1>1. /\ ckpt' = [c EXCEPT !.gen = c.gen + 1] /\ pub = NoRewind
      /\ pub' = [ancestor |-> k, reset |-> Resets(k)]
      /\ actions' = Through(actions, k)
  BY DEF Rewind, RewindTo
<1>2. k \in Heights
  BY RewindKeeps
<1> HIDE DEF k
<1>3. ckpt \in Checkpoints /\ NoOrigin \in Origins /\ -1 \in Cursors /\ 0 \in Heights
      /\ RewindCursor(ckpt.cursor, k) \in Cursors /\ RewindCursor(ckpt.through, k) \in Heights
  <2>1. ckpt \in Checkpoints /\ MaxHeight \in Nat /\ MaxReorgs \in Nat
    BY DEF Inv, Base, TypeInv, OwnerScanAssumption
  <2>2. NoOrigin \in Origins
    BY <2>1 DEF NoOrigin, Origins, Heights, Versions
  <2>3. ckpt.cursor \in Cursors /\ ckpt.through \in Heights
    BY <2>1 DEF Checkpoints
  <2>4. RewindCursor(ckpt.cursor, k) \in Cursors /\ RewindCursor(ckpt.through, k) \in Heights
    BY <1>2, <2>1, <2>3 DEF RewindCursor, Cursors, Heights
  <2> QED
    BY <2>1, <2>2, <2>4 DEF Cursors, Heights
<1>4. /\ c \in Checkpoints /\ c.gen = ckpt.gen
      /\ Resets(k) => c.origin = NoOrigin /\ c.cursor = Absent /\ c.through = 0
      /\ ~ Resets(k) => /\ c.origin = ckpt.origin
                        /\ c.cursor = RewindCursor(ckpt.cursor, k)
                        /\ c.through = RewindCursor(ckpt.through, k)
  <2>1. CASE Resets(k)
    <3>1. c = [ckpt EXCEPT !.origin = NoOrigin, !.cursor = -1, !.through = 0]
      BY <2>1 DEF RewindOwnerScan, Absent
    <3> QED
      BY <1>3, <2>1, <3>1 DEF Checkpoints, Absent
  <2>2. CASE ~ Resets(k)
    <3> DEFINE a == RewindCursor(ckpt.cursor, k)
               b == RewindCursor(ckpt.through, k)
    <3>1. c = [ckpt EXCEPT !.cursor = a, !.through = b]
      BY <2>2 DEF RewindOwnerScan
    <3>2. a \in Cursors /\ b \in Heights
      BY <1>3
    <3> HIDE DEF a, b
    <3>3. c \in Checkpoints /\ c.gen = ckpt.gen /\ c.origin = ckpt.origin /\ c.cursor = a /\ c.through = b
      BY <1>3, <3>1, <3>2 DEF Checkpoints
    <3> QED
      BY <2>2, <3>3 DEF a, b
  <2> QED
    BY <2>1, <2>2
<1> HIDE DEF c
<1>5. /\ ckpt' \in Checkpoints /\ ckpt'.gen = ckpt.gen + 1
      /\ ckpt'.origin = c.origin /\ ckpt'.cursor = c.cursor /\ ckpt'.through = c.through
  BY <1>1, <1>4 DEF Checkpoints
<1> QED
  BY <1>1, <1>4, <1>5 DEF k

LEMMA BaseRewind ==
  ASSUME OwnerScanAssumption, Inv, Rewind
  PROVE  Inv'
<1>1. /\ tip' = tip /\ ver' = ver /\ pass' = pass /\ mem' = mem /\ missing' = missing
      /\ depth' = depth /\ deferrals' = deferrals /\ spent' = spent
  BY DEF Rewind, node
<1>2. RewindTo \in Heights /\ RewindTo \in Cursors
  BY RewindKeeps DEF Cursors, Heights
<1>3. TypeInv'
  <2>1. pub' \in {NoRewind} \cup [ancestor : Heights, reset : BOOLEAN]
    <3>1. Resets(RewindTo) \in BOOLEAN
      BY DEF Resets
    <3> QED
      BY <1>2, <3>1, RewindCheckpoints
  <2>2. actions' \in SUBSET Entries
    BY RewindCheckpoints DEF Through, Inv, Base, TypeInv
  <2> QED
    BY <1>1, <2>1, <2>2, RewindCheckpoints DEF Inv, Base, TypeInv
<1>4. RowsInv'
  <2>1. /\ DOMAIN rows' \in SUBSET DOMAIN rows
        /\ \A h \in DOMAIN rows' : rows'[h] = rows[h] /\ rows[h] = ver[h]
    BY RewindKeeps
  <2>2. rows' = [h \in DOMAIN rows' |-> rows[h]]
    BY DEF Rewind
  <2>3. rows' \in [DOMAIN rows' -> Versions]
    BY <2>1, <2>2 DEF Inv, Base, RowsInv
  <2> QED
    BY <1>1, <2>1, <2>3 DEF Inv, Base, RowsInv
<1>5. PassInv'
  <2>1. ckpt.gen \in Nat /\ ckpt'.gen = ckpt.gen + 1
    BY RewindCheckpoints, Typed DEF Inv, Base
  <2>2. pass.pc # "idle" => pass.gen \in Nat
    BY Typed, PassFields DEF Inv, Base
  <2> QED
    BY <1>1, <2>1, <2>2 DEF Inv, Base, PassInv, Headed
<1>6. pass.pc # "idle" => ~ Current'
  <2>1. ckpt.gen \in Nat /\ ckpt'.gen = ckpt.gen + 1
    BY RewindCheckpoints, Typed DEF Inv, Base
  <2>2. pass.pc # "idle" => pass.gen \in Nat /\ pass.gen <= ckpt.gen
    BY Typed, PassFields DEF Inv, Base, PassInv
  <2> QED
    BY <1>1, <2>1, <2>2 DEF Current
<1>7. CursorInv'
  <2>1. ckpt'.through <= Greater(ckpt'.cursor, 0)
    <3>1. /\ ckpt.through \in Nat /\ ckpt.cursor \in Int /\ RewindTo \in Nat
          /\ ckpt.through <= Greater(ckpt.cursor, 0)
      <4>1. ckpt.through \in Heights /\ ckpt.cursor \in Cursors /\ Heights \in SUBSET Nat /\ MaxHeight \in Nat
        BY Typed DEF Inv, Base
      <4>2. ckpt.through <= Greater(ckpt.cursor, 0)
        BY DEF Inv, Base, CursorInv
      <4>3. ckpt.cursor \in Int
        BY <4>1 DEF Cursors
      <4> QED
        BY <1>2, <4>1, <4>2, <4>3
    <3>2. CASE Resets(RewindTo)
      BY <3>2, RewindCheckpoints DEF Greater, Absent
    <3>3. CASE ~ Resets(RewindTo)
      BY <3>1, <3>3, RewindCheckpoints DEF Greater, RewindCursor
    <3> QED
      BY <3>2, <3>3
  <2> QED
    BY <1>1, <1>6, <2>1 DEF Inv, Base, CursorInv, Carries
<1>8. OriginInv'
  <2>1. CASE Resets(RewindTo)
    BY <1>1, <1>6, <2>1, RewindCheckpoints DEF OriginInv, Sampled, NoOrigin
  <2>2. CASE ~ Resets(RewindTo)
    <3>1. ckpt'.origin = ckpt.origin /\ ckpt.origin \in Origins
      BY <2>2, RewindCheckpoints, Typed DEF Inv, Base
    <3>2. ckpt.origin.block \in Heights /\ ckpt.origin.block <= RewindTo
      BY <1>2, <2>2, <3>1 DEF Resets, Origins, Heights, NoOrigin
    <3>3. Survives(ckpt.origin.block)
      BY <3>2, RewindKeeps
    <3> QED
      BY <1>1, <1>6, <3>1, <3>3 DEF Inv, OriginInv, Sampled
  <2> QED
    BY <2>1, <2>2
<1> QED
  BY <1>3, <1>4, <1>5, <1>7, <1>8 DEF Inv, Base

(* Memory follows. *)
LEMMA PublishMemory ==
  ASSUME OwnerScanAssumption, Inv, PublishRewind
  PROVE  /\ mem' \in Memory /\ mem'.head = Head /\ mem'.actions = actions
         /\ mem'.origin = IF pub.reset THEN NoOrigin ELSE mem.origin
         /\ mem'.through = IF pub.reset THEN 0 ELSE Lesser(mem.through, pub.ancestor)
<1>1. mem' = [head |-> Head, actions |-> actions, origin |-> OriginAfterRewind,
              extended |-> mem.extended /\ ~ pub.reset,
              through |-> IF pub.reset THEN 0 ELSE Lesser(mem.through, pub.ancestor)]
  BY DEF PublishRewind
<1>2. Head \in Heights /\ actions \in SUBSET Entries
  BY HeadOfRows DEF Inv, Base, TypeInv
<1>3. OriginAfterRewind \in Origins
  <2>1. NoOrigin \in Origins
    BY DEF OwnerScanAssumption, NoOrigin, Origins, Heights, Versions
  <2> QED
    BY <2>1, Typed DEF Inv, Base, OriginAfterRewind
<1>4. (IF pub.reset THEN 0 ELSE Lesser(mem.through, pub.ancestor)) \in Heights
  <2>1. mem.through \in Heights /\ pub.ancestor \in Heights /\ 0 \in Heights
    BY Typed DEF Inv, Base, PublishRewind, Heights
  <2> QED
    BY <2>1 DEF Lesser
<1>5. (mem.extended /\ ~ pub.reset) \in BOOLEAN
  OBVIOUS
<1>6. mem' \in Memory
  BY <1>1, <1>2, <1>3, <1>4, <1>5 DEF Memory
<1> QED
  BY <1>1, <1>6 DEF OriginAfterRewind

LEMMA BasePublishRewind ==
  ASSUME OwnerScanAssumption, Inv, PublishRewind
  PROVE  Inv'
<1>1. /\ tip' = tip /\ ver' = ver /\ rows' = rows /\ actions' = actions /\ missing' = missing
      /\ ckpt' = ckpt /\ pass' = pass /\ depth' = depth /\ deferrals' = deferrals /\ spent' = spent
      /\ pub' = NoRewind
  BY DEF PublishRewind, node, db
<1>2. TypeInv'
  BY <1>1, PublishMemory DEF Inv, Base, TypeInv
<1>3. RowsInv'
  BY <1>1, RowsKept DEF Inv, Base
<1>4. PassInv'
  <2>1. Head <= tip
    BY HeadOfRows, Typed DEF Inv, Base
  <2> QED
    BY <1>1, <2>1, PublishMemory DEF Inv, Base, PassInv, Headed
<1>5. CursorInv'
  BY <1>1 DEF Inv, Base, CursorInv, Carries, Current
<1>6. OriginInv'
  BY <1>1, SurvivesKept DEF Inv, OriginInv, Sampled, Current
<1> QED
  BY <1>2, <1>3, <1>4, <1>5, <1>6 DEF Inv, Base

(* A pass that ends leaves nothing in hand.                                *)
LEMMA BaseStops ==
  ASSUME OwnerScanAssumption, Inv, Stop,
         tip' = tip, ver' = ver, rows' = rows, actions' = actions, missing' = missing, ckpt' = ckpt,
         mem' = mem, pub' = pub, depth' = depth,
         deferrals' \in 0 .. MaxRecoveryDeferrals - 1,
         spent' \in [reorgs : Versions, restarts : Nat, epochs : Nat, faults : Nat],
         spent'.reorgs = spent.reorgs
  PROVE  Inv'
<1>1. pass' = Idle /\ pass' \in Passes /\ pass'.pc = "idle"
  BY DEF Stop, Idle, Passes, Resting
<1>2. TypeInv'
  BY <1>1 DEF Inv, Base, TypeInv
<1>3. RowsInv'
  BY RowsKept DEF Inv, Base
<1>4. PassInv' /\ CursorInv'
  BY <1>1 DEF Inv, Base, PassInv, Headed, CursorInv, Carries
<1>5. OriginInv'
  BY <1>1, OriginKept DEF Inv
<1> QED
  BY <1>2, <1>3, <1>4, <1>5 DEF Inv, Base

LEMMA BaseFails ==
  ASSUME OwnerScanAssumption, Inv, Fails
  PROVE  Inv'
<1>1. /\ spent' \in [reorgs : Versions, restarts : Nat, epochs : Nat, faults : Nat]
      /\ spent'.reorgs = spent.reorgs
  <2>1. spent \in [reorgs : Versions, restarts : Nat, epochs : Nat, faults : Nat]
    BY DEF Inv, Base, TypeInv
  <2>2. spent' = [spent EXCEPT !.faults = spent.faults + 1]
    BY DEF Fails
  <2> QED
    BY <2>1, <2>2
<1>2. deferrals \in 0 .. MaxRecoveryDeferrals - 1
  BY DEF Inv, Base, TypeInv
<1> QED
  BY <1>1, <1>2, BaseStops DEF Fails, node, db

LEMMA BaseRestart ==
  ASSUME OwnerScanAssumption, Inv, NEW d \in Depths, NEW epoch \in BOOLEAN, Restart(d, epoch)
  PROVE  Inv'
<1>1. /\ tip' = tip /\ ver' = ver /\ rows' = rows /\ actions' = actions /\ missing' = missing
      /\ pass' = Idle /\ pub' = NoRewind /\ depth' = d /\ deferrals' = 0
      /\ mem' = [head |-> Head, actions |-> actions, extended |-> FALSE,
                 origin |-> ckpt'.origin, through |-> ckpt'.through]
      /\ ckpt' = IF epoch THEN [cursor |-> Absent, through |-> 0, origin |-> NoOrigin, gen |-> ckpt.gen + 1]
                 ELSE ckpt
  BY DEF Restart, node, LoadScanState
<1>2. /\ spent' \in [reorgs : Versions, restarts : Nat, epochs : Nat, faults : Nat]
      /\ spent'.reorgs = spent.reorgs
  <2> DEFINE r == spent.restarts + 1
             e == IF epoch THEN spent.epochs + 1 ELSE spent.epochs
  <2>1. spent \in [reorgs : Versions, restarts : Nat, epochs : Nat, faults : Nat]
    BY DEF Inv, Base, TypeInv
  <2>2. spent' = [spent EXCEPT !.restarts = r, !.epochs = e]
    BY DEF Restart
  <2>3. r \in Nat /\ e \in Nat
    BY <2>1
  <2> HIDE DEF r, e
  <2> QED
    BY <2>1, <2>2, <2>3
<1>3. ckpt' \in Checkpoints /\ ckpt'.through <= Greater(ckpt'.cursor, 0)
  <2>1. NoOrigin \in Origins /\ -1 \in Cursors /\ 0 \in Heights
    BY DEF OwnerScanAssumption, NoOrigin, Origins, Heights, Versions, Cursors
  <2>2. ckpt \in Checkpoints /\ ckpt.gen \in Nat /\ ckpt.through <= Greater(ckpt.cursor, 0)
    BY Typed DEF Inv, Base, TypeInv, CursorInv
  <2>3. CASE epoch
    <3>1. ckpt' = [cursor |-> -1, through |-> 0, origin |-> NoOrigin, gen |-> ckpt.gen + 1]
      BY <1>1, <2>3 DEF Absent
    <3> QED
      BY <2>1, <2>2, <3>1 DEF Checkpoints, Greater
  <2>4. CASE ~ epoch
    BY <1>1, <2>2, <2>4
  <2> QED
    BY <2>3, <2>4
<1>4. mem' \in Memory /\ mem'.head = Head
  <2>1. ckpt'.origin \in Origins /\ ckpt'.through \in Heights
    BY <1>3 DEF Checkpoints
  <2>2. Head \in Heights /\ actions \in SUBSET Entries
    BY HeadOfRows DEF Inv, Base, TypeInv
  <2> QED
    BY <1>1, <2>1, <2>2 DEF Memory
<1>5. pass' \in Passes /\ pass'.pc = "idle"
  BY <1>1 DEF Idle, Passes, Resting
<1>6. 0 \in 0 .. MaxRecoveryDeferrals - 1
  BY DEF OwnerScanAssumption
<1>7. TypeInv'
  BY <1>1, <1>2, <1>3, <1>4, <1>5, <1>6 DEF Inv, Base, TypeInv
<1>8. RowsInv'
  BY <1>1, <1>2, RowsKept DEF Inv, Base
<1>9. PassInv' /\ CursorInv'
  <2>1. Head <= tip
    BY HeadOfRows, Typed DEF Inv, Base
  <2> QED
    BY <1>1, <1>3, <1>4, <1>5, <2>1 DEF Inv, Base, PassInv, Headed, CursorInv, Carries
<1>10. OriginInv'
  <2>1. Sampled(ckpt'.origin)
    BY <1>1 DEF Inv, OriginInv, Sampled, NoOrigin
  <2>2. Sampled(ckpt.origin)'
    BY <1>1, <2>1, SurvivesKept DEF Sampled
  <2> QED
    BY <1>5, <2>2 DEF OriginInv
<1> QED
  BY <1>7, <1>8, <1>9, <1>10 DEF Inv, Base

-----------------------------------------------------------------------------
(* A step of a pass: the node, the rows and the generation are as they were. *)
LEMMA PassStep ==
  ASSUME OwnerScanAssumption, Inv,
         tip' = tip, ver' = ver, rows' = rows, pub' = pub, depth' = depth, spent' = spent,
         actions' \in SUBSET Entries, missing' \in SUBSET Heights,
         ckpt' \in Checkpoints, ckpt'.gen = ckpt.gen, mem' \in Memory, mem'.head = mem.head,
         deferrals' \in 0 .. MaxRecoveryDeferrals - 1,
         pass' \in Passes, pass'.pc # "idle" => pass'.gen <= ckpt.gen,
         Headed' => 1 <= pass'.head /\ pass'.head <= tip,
         CursorInv', OriginInv'
  PROVE  Inv'
<1>1. TypeInv'
  BY DEF Inv, Base, TypeInv
<1>2. RowsInv'
  BY RowsKept DEF Inv, Base
<1>3. PassInv'
  BY DEF Inv, Base, PassInv
<1> QED
  BY <1>1, <1>2, <1>3 DEF Inv, Base

LEMMA PassOnly ==
  ASSUME OwnerScanAssumption, Inv, UNCHANGED <<node, db, mem, pub, depth, spent>>,
         deferrals' \in 0 .. MaxRecoveryDeferrals - 1,
         pass' \in Passes, pass'.pc # "idle" => pass'.gen <= ckpt.gen,
         Headed' => 1 <= pass'.head /\ pass'.head <= tip,
         CursorInv', OriginInv'
  PROVE  Inv'
<1>1. /\ tip' = tip /\ ver' = ver /\ rows' = rows /\ actions' = actions /\ missing' = missing
      /\ ckpt' = ckpt /\ mem' = mem /\ pub' = pub /\ depth' = depth /\ spent' = spent
  BY DEF node, db
<1>2. actions \in SUBSET Entries /\ missing \in SUBSET Heights /\ ckpt \in Checkpoints /\ mem \in Memory
  BY DEF Inv, Base, TypeInv
<1> QED
  BY <1>1, <1>2, PassStep

(* The facts of a pass in flight. *)
LEMMA InFlight ==
  ASSUME OwnerScanAssumption, Inv
  PROVE  /\ pass \in Passes /\ ckpt.gen \in Nat /\ ckpt.cursor \in Cursors
         /\ deferrals \in 0 .. MaxRecoveryDeferrals - 1
         /\ pass.pc # "idle" => pass.gen \in Nat /\ pass.gen <= ckpt.gen
         /\ Headed => pass.head \in Heights /\ 1 <= pass.head /\ pass.head <= tip
         /\ Carries => pass.cursor \in Cursors /\ (Current => pass.cursor = ckpt.cursor)
<1>1. pass \in Passes /\ ckpt.gen \in Nat /\ ckpt.cursor \in Cursors
  BY Typed DEF Inv, Base
<1>2. deferrals \in 0 .. MaxRecoveryDeferrals - 1
  BY DEF Inv, Base, TypeInv
<1> QED
  BY <1>1, <1>2, PassFields DEF Inv, Base, PassInv, CursorInv

LEMMA BaseReadGeneration ==
  ASSUME OwnerScanAssumption, Inv, ReadGeneration
  PROVE  Inv'
<1>1. /\ UNCHANGED <<node, db, mem, pub, depth, deferrals, spent>>
      /\ pass' = [pc |-> "read", gen |-> ckpt.gen] /\ ckpt' = ckpt /\ ver' = ver /\ rows' = rows
  BY DEF ReadGeneration, node, db
<1>2. ckpt.gen \in Nat /\ deferrals' \in 0 .. MaxRecoveryDeferrals - 1
  BY <1>1, InFlight
<1>3. pass' \in Passes /\ pass'.pc = "read" /\ pass'.gen = ckpt.gen
  BY <1>1, <1>2 DEF Passes, Reading
<1>4. CursorInv'
  BY <1>1, <1>3 DEF Inv, Base, CursorInv, Carries
<1>5. OriginInv'
  BY <1>1, <1>3, OriginKept DEF Inv
<1> QED
  BY <1>1, <1>2, <1>3, <1>4, <1>5, PassOnly DEF Headed

LEMMA BaseReadCursor ==
  ASSUME OwnerScanAssumption, Inv, ReadCursor
  PROVE  Inv'
<1>1. /\ UNCHANGED <<node, db, mem, pub, depth, deferrals, spent>>
      /\ ckpt' = ckpt /\ ver' = ver /\ rows' = rows /\ pass.pc = "read"
      /\ pass' = [pc |-> "extend", gen |-> pass.gen, head |-> CurrentHead,
                  cursor |-> ckpt.cursor, origin |-> mem.origin, extended |-> mem.extended]
  BY DEF ReadCursor, node, db
<1>2. /\ pass.gen \in Nat /\ pass.gen <= ckpt.gen /\ deferrals' \in 0 .. MaxRecoveryDeferrals - 1
      /\ ckpt.cursor \in Cursors
  BY <1>1, InFlight
<1>3. CurrentHead \in Heights /\ 1 <= CurrentHead /\ CurrentHead <= tip
  BY Typed DEF Inv, Base, PassInv, CurrentHead
<1>4. mem.origin \in Origins /\ mem.extended \in BOOLEAN
  BY DEF Inv, Base, TypeInv, Memory
<1>5. pass' \in Passes /\ pass'.pc = "extend" /\ pass'.gen = pass.gen /\ pass'.head = CurrentHead
      /\ pass'.cursor = ckpt.cursor
  <2>1. pass' \in Extending
    BY <1>1, <1>2, <1>3, <1>4 DEF Extending
  <2> QED
    BY <1>1, <2>1 DEF Passes
<1>6. CursorInv'
  BY <1>1, <1>5 DEF Inv, Base, CursorInv
<1>7. OriginInv'
  BY <1>1, <1>5, OriginKept DEF Inv
<1> QED
  BY <1>1, <1>2, <1>3, <1>5, <1>6, <1>7, PassOnly

(* The steps that write an origin, go to the start and go to the scan.      *)
LEMMA Samples ==
  ASSUME OwnerScanAssumption, Inv, Carries, NEW cutoff \in Heights, NEW only \in BOOLEAN,
         NEW then \in {"extended", "scan"}, NEW from \in Starts, WriteOrigin(cutoff, only, then, from)
  PROVE  /\ pass' \in Sampling /\ pass' \in Passes /\ pass'.pc = "origin"
         /\ pass'.gen = pass.gen /\ pass'.head = pass.head /\ pass'.cursor = pass.cursor
         /\ pass'.then = then /\ pass'.from = from /\ pass'.read = actions
         /\ \/ pass'.origin = NoOrigin
            \/ pass'.origin = [block |-> cutoff, fork |-> IF Archive THEN ver[cutoff] ELSE 0,
                               archive |-> Archive]
<1> DEFINE o == IF only /\ ~ LegacyChain THEN NoOrigin
                ELSE [block |-> cutoff, fork |-> IF Archive THEN ver[cutoff] ELSE 0, archive |-> Archive]
<1>1. pass' = [pc |-> "origin", gen |-> pass.gen, head |-> pass.head, cursor |-> pass.cursor,
               then |-> then, from |-> from, read |-> actions, origin |-> o]
  BY DEF WriteOrigin
<1>2. o \in Origins
  <2>1. Archive \in BOOLEAN /\ 0 \in Heights /\ 0 \in Versions /\ ver[cutoff] \in Versions
    <3>1. Archive \in BOOLEAN /\ 0 \in Heights /\ 0 \in Versions
      BY DEF OwnerScanAssumption, Heights, Versions
    <3> QED
      BY <3>1, Typed DEF Inv, Base
  <2>2. NoOrigin \in Origins
    BY <2>1 DEF NoOrigin, Origins
  <2>3. [block |-> cutoff, fork |-> IF Archive THEN ver[cutoff] ELSE 0, archive |-> Archive] \in Origins
    BY <2>1 DEF Origins
  <2> QED
    BY <2>2, <2>3
<1>3. o = NoOrigin \/ o = [block |-> cutoff, fork |-> IF Archive THEN ver[cutoff] ELSE 0,
                           archive |-> Archive]
  OBVIOUS
<1> HIDE DEF o
<1>4. pass.gen \in Nat /\ pass.head \in Heights /\ pass.cursor \in Cursors /\ actions \in SUBSET Entries
  <2>1. Headed /\ pass.pc # "idle"
    BY DEF Carries, Headed
  <2> QED
    BY <2>1, InFlight DEF Inv, Base, TypeInv
<1>5. pass' \in Sampling
  BY <1>1, <1>2, <1>4 DEF Sampling
<1>6. pass' \in Passes
  BY <1>5 DEF Passes
<1> QED
  BY <1>1, <1>3, <1>5, <1>6

LEMMA BaseSamples ==
  ASSUME OwnerScanAssumption, Inv, UNCHANGED <<node, db, mem, pub, depth, deferrals, spent>>,
         Carries, NEW cutoff \in Heights, NEW only \in BOOLEAN,
         NEW then \in {"extended", "scan"}, NEW from \in Starts, WriteOrigin(cutoff, only, then, from),
         then = "scan" => from <= pass.head /\ pass.cursor = Absent
  PROVE  Inv'
<1>1. /\ pass' \in Passes /\ pass'.pc = "origin" /\ pass'.gen = pass.gen /\ pass'.head = pass.head
      /\ pass'.cursor = pass.cursor /\ pass'.then = then /\ pass'.from = from
  BY Samples
<1>2. \/ pass'.origin = NoOrigin
      \/ pass'.origin = [block |-> cutoff, fork |-> IF Archive THEN ver[cutoff] ELSE 0,
                         archive |-> Archive]
  BY Samples
<1>3. ckpt' = ckpt /\ ver' = ver /\ rows' = rows /\ deferrals' = deferrals
  BY DEF node, db
<1>4. Headed /\ pass.pc # "idle"
  BY DEF Carries, Headed
<1>5. CursorInv'
  BY <1>1, <1>3, InFlight DEF Inv, Base, CursorInv, Current
<1>6. OriginInv'
  <2>1. pass'.origin.archive => pass'.origin.fork = ver'[pass'.origin.block]
    BY <1>2, <1>3 DEF NoOrigin
  <2>2. Sampled(ckpt.origin)'
    BY <1>3, SurvivesKept DEF Inv, OriginInv, Sampled
  <2> QED
    BY <1>3, <2>1, <2>2 DEF OriginInv, Sampled
<1> QED
  BY <1>1, <1>3, <1>4, <1>5, <1>6, InFlight, PassOnly

LEMMA StartOf ==
  ASSUME OwnerScanAssumption, Inv, pass.pc \in {"extend", "publish"}, ToStart
  PROVE  /\ pass' \in Passes /\ pass'.pc = "start" /\ pass'.gen = pass.gen /\ pass'.gen <= ckpt.gen
         /\ pass'.head = pass.head /\ 1 <= pass.head /\ pass.head <= tip /\ pass'.cursor = pass.cursor
<1>1. pass' = [pc |-> "start", gen |-> pass.gen, head |-> pass.head, cursor |-> pass.cursor]
  BY DEF ToStart
<1>2. /\ pass.gen \in Nat /\ pass.gen <= ckpt.gen /\ pass.head \in Heights /\ pass.cursor \in Cursors
      /\ 1 <= pass.head /\ pass.head <= tip
  BY InFlight DEF Headed, Carries
<1>3. pass' \in Starting
  BY <1>1, <1>2 DEF Starting
<1> QED
  BY <1>1, <1>2, <1>3 DEF Passes

LEMMA Scans ==
  ASSUME OwnerScanAssumption, Inv, pass.pc \in {"start", "publish"}, NEW from \in Starts, ToScan(from)
  PROVE  /\ pass' \in Passes /\ pass'.pc = "scan" /\ pass'.gen = pass.gen /\ pass'.gen <= ckpt.gen
         /\ pass'.head = pass.head /\ 1 <= pass.head /\ pass.head <= tip /\ pass'.from = from
<1>1. pass' = [pc |-> "scan", gen |-> pass.gen, head |-> pass.head, from |-> from, chunks |-> 0]
  BY DEF ToScan
<1>2. /\ pass.gen \in Nat /\ pass.gen <= ckpt.gen /\ pass.head \in Heights
      /\ 1 <= pass.head /\ pass.head <= tip
  BY InFlight DEF Headed
<1>3. pass' \in Scanning
  BY <1>1, <1>2 DEF Scanning
<1> QED
  BY <1>1, <1>2, <1>3 DEF Passes

(* The depth may lower the origin, which needs the actions below it first. *)
LEMMA LowerTarget ==
  ASSUME OwnerScanAssumption, Inv, pass.pc = "extend", ExtendScanOrigin
  PROVE  LET cutoff == DepthCutoff(pass.head)
             target == Greater(cutoff, FirstOriginBlock)
         IN /\ cutoff \in Heights /\ cutoff \in Starts /\ target \in Heights /\ 1 \in Heights
            /\ FirstOriginBlock \in Heights
<1>1. pass.head \in Heights /\ 1 <= pass.head
  BY InFlight DEF Headed
<1>2. DepthCutoff(pass.head) \in Heights
  BY <1>1, CutoffBounds DEF Inv, Base
<1>3. 1 \in Heights /\ MaxHeight \in Nat
  BY DEF OwnerScanAssumption, Heights
<1> QED
  BY <1>2, <1>3 DEF Greater, FirstOriginBlock, Starts, Heights

LEMMA BaseExtendScanOrigin ==
  ASSUME OwnerScanAssumption, Inv, ExtendScanOrigin
  PROVE  Inv'
<1> DEFINE cutoff == DepthCutoff(pass.head)
           target == Greater(cutoff, FirstOriginBlock)
<1>1. /\ UNCHANGED <<node, db, pub, depth, deferrals, spent>> /\ pass.pc = "extend"
      /\ \/ ToStart /\ UNCHANGED mem
         \/ ToStart /\ MarkScanExtended
         \/ WriteOrigin(FirstOriginBlock, TRUE, "extended", 0) /\ UNCHANGED mem
         \/ ActionsFirst(cutoff, target) /\ UNCHANGED mem
  BY DEF ExtendScanOrigin
<1>2. /\ cutoff \in Starts /\ target \in Heights /\ FirstOriginBlock \in Heights /\ 0 \in Starts
  BY <1>1, LowerTarget DEF Starts, OwnerScanAssumption
<1>3. /\ tip' = tip /\ ver' = ver /\ rows' = rows /\ ckpt' = ckpt /\ actions' = actions /\ missing' = missing
      /\ deferrals' = deferrals /\ pub' = pub /\ depth' = depth /\ spent' = spent
  BY <1>1 DEF node, db
<1>4. ASSUME ToStart PROVE CursorInv' /\ OriginInv'
  <2>1. pass'.pc = "start" /\ pass'.gen = pass.gen /\ pass'.cursor = pass.cursor
    BY <1>1, <1>4, StartOf
  <2>2. CursorInv'
    BY <1>1, <1>3, <2>1, InFlight DEF Inv, Base, CursorInv, Current, Carries
  <2> QED
    BY <1>3, <2>1, <2>2, OriginKept DEF Inv
<1>5. CASE ToStart /\ UNCHANGED mem
  BY <1>1, <1>3, <1>4, <1>5, StartOf, InFlight, PassOnly
<1>6. CASE ToStart /\ MarkScanExtended
  <2>1. mem' \in Memory /\ mem'.head = mem.head
    BY <1>6 DEF MarkScanExtended, Inv, Base, TypeInv, Memory
  <2>2. actions \in SUBSET Entries /\ missing \in SUBSET Heights /\ ckpt \in Checkpoints
    BY DEF Inv, Base, TypeInv
  <2> QED
    BY <1>1, <1>3, <1>4, <1>6, <2>1, <2>2, StartOf, InFlight, PassStep
<1>7. CASE WriteOrigin(FirstOriginBlock, TRUE, "extended", 0) /\ UNCHANGED mem
  BY <1>1, <1>2, <1>7, BaseSamples DEF Carries
<1>8. CASE ActionsFirst(cutoff, target) /\ UNCHANGED mem
  <2>1. pass' = [pc |-> "floor", gen |-> pass.gen, head |-> pass.head, cursor |-> pass.cursor,
                 origin |-> pass.origin, from |-> cutoff, target |-> target]
    BY <1>8 DEF ActionsFirst
  <2>2. /\ pass.gen \in Nat /\ pass.gen <= ckpt.gen /\ pass.head \in Heights /\ pass.cursor \in Cursors
        /\ 1 <= pass.head /\ pass.head <= tip /\ (Current => pass.cursor = ckpt.cursor)
    BY <1>1, InFlight DEF Headed, Carries
  <2>3. pass.origin \in Origins
    BY <1>1, InFlight, PassAt DEF Extending
  <2> HIDE DEF cutoff, target
  <2>4. pass' \in Flooring
    BY <1>2, <2>1, <2>2, <2>3 DEF Flooring
  <2>5. pass' \in Passes /\ pass'.pc = "floor" /\ pass'.gen = pass.gen /\ pass'.head = pass.head
        /\ pass'.cursor = pass.cursor
    BY <2>1, <2>4 DEF Passes
  <2>6. CursorInv'
    BY <1>3, <2>2, <2>5 DEF Inv, Base, CursorInv, Current
  <2>7. OriginInv'
    BY <1>3, <2>5, OriginKept DEF Inv
  <2> QED
    BY <1>1, <1>3, <1>8, <2>2, <2>5, <2>6, <2>7, InFlight, PassOnly
<1> QED
  BY <1>1, <1>5, <1>6, <1>7, <1>8

LEMMA BaseScanStart ==
  ASSUME OwnerScanAssumption, Inv, ScanStart
  PROVE  Inv'
<1> DEFINE cutoff == DepthCutoff(pass.head)
<1>1. /\ UNCHANGED <<node, db, mem, pub, depth, deferrals, spent>> /\ pass.pc = "start"
      /\ \/ pass.cursor # Absent /\ ToScan(pass.cursor + 1)
         \/ pass.cursor = Absent /\ ToScan(0)
         \/ pass.cursor = Absent /\ WriteOrigin(FirstOriginBlock, TRUE, "scan", 0)
         \/ pass.cursor = Absent /\ ToScan(cutoff)
         \/ pass.cursor = Absent /\ WriteOrigin(cutoff, FALSE, "scan", cutoff)
  BY DEF ScanStart
<1>2. /\ pass.head \in Heights /\ 1 <= pass.head /\ pass.head <= tip /\ pass.cursor \in Cursors
      /\ Current => pass.cursor = ckpt.cursor
  BY <1>1, InFlight DEF Headed, Carries
<1>3. /\ cutoff \in Heights /\ cutoff \in Starts /\ cutoff <= pass.head /\ cutoff \in Nat
      /\ FirstOriginBlock \in Heights /\ 0 \in Starts /\ 0 <= pass.head
  <2>1. cutoff \in Heights /\ cutoff <= pass.head
    BY <1>2, CutoffBounds DEF Inv, Base
  <2> QED
    BY <1>2, <2>1 DEF Starts, Heights, OwnerScanAssumption, FirstOriginBlock
<1> HIDE DEF cutoff
<1>4. ckpt' = ckpt /\ ver' = ver /\ rows' = rows /\ deferrals' = deferrals
  BY <1>1 DEF node, db
<1>5. ASSUME NEW from \in Starts, ToScan(from),
             \/ pass.cursor # Absent /\ from = pass.cursor + 1
             \/ pass.cursor = Absent /\ 0 <= from /\ from <= pass.head
      PROVE  Inv'
  <2>1. /\ pass' \in Passes /\ pass'.pc = "scan" /\ pass'.gen = pass.gen /\ pass'.gen <= ckpt.gen
        /\ pass'.head = pass.head /\ 1 <= pass.head /\ pass.head <= tip /\ pass'.from = from
    BY <1>1, <1>5, Scans
  <2>2. CursorInv'
    <3>1. pass.cursor \in Int /\ from \in Int
      BY <1>2 DEF Cursors, OwnerScanAssumption, Starts
    <3>2. Current => ckpt.cursor < from /\ (from <= pass.head \/ ckpt.cursor = from - 1)
      BY <1>2, <1>5, <3>1 DEF Absent
    <3> QED
      BY <1>4, <2>1, <3>2 DEF Inv, Base, CursorInv, Current, Carries
  <2>3. OriginInv'
    BY <1>4, <2>1, OriginKept DEF Inv
  <2> QED
    BY <1>1, <1>4, <2>1, <2>2, <2>3, InFlight, PassOnly
<1>6. CASE pass.cursor # Absent /\ ToScan(pass.cursor + 1)
  <2>1. pass.cursor + 1 \in Starts
    BY <1>2, <1>6 DEF Cursors, Starts, OwnerScanAssumption
  <2> QED
    BY <1>5, <1>6, <2>1
<1>7. CASE pass.cursor = Absent /\ ToScan(0)
  BY <1>3, <1>5, <1>7
<1>8. CASE pass.cursor = Absent /\ WriteOrigin(FirstOriginBlock, TRUE, "scan", 0)
  BY <1>1, <1>3, <1>8, BaseSamples DEF Carries
<1>9. CASE pass.cursor = Absent /\ ToScan(cutoff)
  BY <1>3, <1>5, <1>9
<1>10. CASE pass.cursor = Absent /\ WriteOrigin(cutoff, FALSE, "scan", cutoff)
  BY <1>1, <1>3, <1>10, BaseSamples DEF Carries
<1> QED
  BY <1>1, <1>6, <1>7, <1>8, <1>9, <1>10

(* Actions are read of a range and stored, outside one transaction.        *)
LEMMA FloorRange ==
  ASSUME OwnerScanAssumption, Inv, pass.pc = "floor", pass.from <= pass.origin.block
  PROVE  FloorEnd \in Heights /\ pass.from \in Nat /\ pass.from <= FloorEnd
<1>1. pass.from \in Starts /\ pass.origin \in Origins /\ MaxHeight \in Nat /\ Chunk \in Nat \ {0}
  BY InFlight, PassAt DEF Flooring, OwnerScanAssumption
<1>2. pass.origin.block \in Heights
  BY <1>1 DEF Origins
<1> QED
  BY <1>1, <1>2 DEF FloorEnd, Lesser, Starts, Heights

LEMMA BaseFetchFloor ==
  ASSUME OwnerScanAssumption, Inv, FetchFloor
  PROVE  Inv'
<1>1. /\ UNCHANGED <<node, db, mem, pub, depth, deferrals, spent>> /\ pass.pc = "floor"
      /\ ckpt' = ckpt /\ ver' = ver /\ rows' = rows /\ deferrals' = deferrals
  BY DEF FetchFloor, node, db
<1>2. /\ pass.gen \in Nat /\ pass.gen <= ckpt.gen /\ pass.head \in Heights /\ pass.cursor \in Cursors
      /\ 1 <= pass.head /\ pass.head <= tip /\ (Current => pass.cursor = ckpt.cursor)
  BY <1>1, InFlight DEF Headed, Carries
<1>3. pass.origin \in Origins /\ pass.target \in Heights /\ pass.from \in Starts
  BY <1>1, InFlight, PassAt DEF Flooring
<1>4. CASE /\ pass.from <= pass.origin.block
           /\ pass' = [pc |-> "store floor", gen |-> pass.gen, head |-> pass.head, cursor |-> pass.cursor,
                       origin |-> pass.origin, from |-> pass.from, target |-> pass.target,
                       to |-> FloorEnd, logs |-> FetchOwnerActions(FloorEnd)]
  <2>1. FloorEnd \in Heights
    BY <1>1, <1>4, FloorRange
  <2>2. FetchOwnerActions(FloorEnd) \in SUBSET Entries
    <3>1. pass.from \in Int /\ FloorEnd \in Int
      <4>1. FloorEnd \in Heights /\ pass.from \in Nat
        BY <1>1, <1>4, FloorRange
      <4> QED
        BY <4>1 DEF Heights
    <3> QED
      BY <3>1, LogsRead DEF FetchOwnerActions, Inv, Base
  <2> DEFINE to == FloorEnd
             logs == FetchOwnerActions(to)
  <2>3. pass' = [pc |-> "store floor", gen |-> pass.gen, head |-> pass.head, cursor |-> pass.cursor,
                 origin |-> pass.origin, from |-> pass.from, target |-> pass.target,
                 to |-> to, logs |-> logs]
    BY <1>4
  <2>4. to \in Heights /\ logs \in SUBSET Entries
    BY <2>1, <2>2
  <2> HIDE DEF to, logs
  <2>5. pass' \in FloorRead
    BY <1>2, <1>3, <2>3, <2>4 DEF FloorRead
  <2>6. pass' \in Passes /\ pass'.pc = "store floor" /\ pass'.gen = pass.gen /\ pass'.head = pass.head
        /\ pass'.cursor = pass.cursor
    BY <2>3, <2>5 DEF Passes
  <2>7. CursorInv'
    BY <1>1, <1>2, <2>6 DEF Inv, Base, CursorInv, Current
  <2>8. OriginInv'
    BY <1>1, <2>6, OriginKept DEF Inv
  <2> QED
    BY <1>1, <1>2, <2>6, <2>7, <2>8, InFlight, PassOnly
<1>5. CASE WriteOrigin(pass.target, pass.target = FirstOriginBlock, "extended", 0)
  <2>1. (pass.target = FirstOriginBlock) \in BOOLEAN /\ 0 \in Starts
    BY DEF Starts, OwnerScanAssumption
  <2> QED
    BY <1>1, <1>3, <1>5, <2>1, BaseSamples DEF Carries
<1> QED
  BY <1>4, <1>5 DEF FetchFloor

LEMMA BaseScanOwnerFloor ==
  ASSUME OwnerScanAssumption, Inv, ScanOwnerFloor
  PROVE  Inv'
<1>1. /\ pass.pc = "store floor" /\ tip' = tip /\ ver' = ver /\ rows' = rows /\ missing' = missing
      /\ ckpt' = ckpt /\ mem' = mem /\ pub' = pub /\ depth' = depth /\ deferrals' = deferrals
      /\ spent' = spent
  BY DEF ScanOwnerFloor, node
<1>2. /\ pass.gen \in Nat /\ pass.gen <= ckpt.gen /\ pass.head \in Heights /\ pass.cursor \in Cursors
      /\ 1 <= pass.head /\ pass.head <= tip /\ (Current => pass.cursor = ckpt.cursor)
  BY <1>1, InFlight DEF Headed, Carries
<1>3. /\ pass.origin \in Origins /\ pass.target \in Heights /\ pass.to \in Heights
      /\ pass.logs \in SUBSET Entries
  BY <1>1, InFlight, PassAt DEF FloorRead
<1>4. /\ actions \in SUBSET Entries /\ missing \in SUBSET Heights /\ ckpt \in Checkpoints /\ mem \in Memory
      /\ spent \in [reorgs : Versions, restarts : Nat, epochs : Nat, faults : Nat]
      /\ deferrals \in 0 .. MaxRecoveryDeferrals - 1
  BY DEF Inv, Base, TypeInv
<1>5. CASE Current
  <2>1. /\ actions' = actions \cup pass.logs
        /\ pass' = [pc |-> "floor", gen |-> pass.gen, head |-> pass.head, cursor |-> pass.cursor,
                    origin |-> pass.origin, from |-> pass.to + 1, target |-> pass.target]
    BY <1>5 DEF ScanOwnerFloor
  <2>2. actions' \in SUBSET Entries
    BY <1>3, <1>4, <2>1
  <2>3. pass.to + 1 \in Starts
    BY <1>3 DEF Heights, Starts, OwnerScanAssumption
  <2>4. pass' \in Flooring
    BY <1>2, <1>3, <2>1, <2>3 DEF Flooring
  <2>5. pass' \in Passes /\ pass'.pc = "floor" /\ pass'.gen = pass.gen /\ pass'.head = pass.head
        /\ pass'.cursor = pass.cursor
    BY <2>1, <2>4 DEF Passes
  <2>6. CursorInv'
    BY <1>1, <1>2, <2>5 DEF Inv, Base, CursorInv, Current
  <2>7. OriginInv'
    BY <1>1, <2>5, OriginKept DEF Inv
  <2> QED
    BY <1>1, <1>2, <1>4, <2>2, <2>5, <2>6, <2>7, PassStep
<1>6. CASE ~ Current
  <2>1. Stop /\ actions' = actions
    BY <1>6 DEF ScanOwnerFloor
  <2> QED
    BY <1>1, <1>4, <2>1, BaseStops
<1> QED
  BY <1>5, <1>6

LEMMA BaseCommitOrigin ==
  ASSUME OwnerScanAssumption, Inv, CommitOrigin
  PROVE  Inv'
<1>1. /\ pass.pc = "origin" /\ tip' = tip /\ ver' = ver /\ rows' = rows /\ actions' = actions
      /\ mem' = mem /\ pub' = pub /\ depth' = depth /\ deferrals' = deferrals /\ spent' = spent
  BY DEF CommitOrigin, node
<1>2. /\ pass.gen \in Nat /\ pass.gen <= ckpt.gen /\ pass.head \in Heights /\ pass.cursor \in Cursors
      /\ 1 <= pass.head /\ pass.head <= tip /\ (Current => pass.cursor = ckpt.cursor)
  BY <1>1, InFlight DEF Headed, Carries
<1>3. pass \in Sampling /\ pass.origin \in Origins
  BY <1>1, InFlight, PassAt DEF Sampling
<1>4. /\ actions \in SUBSET Entries /\ missing \in SUBSET Heights /\ ckpt \in Checkpoints /\ mem \in Memory
      /\ spent \in [reorgs : Versions, restarts : Nat, epochs : Nat, faults : Nat]
      /\ deferrals \in 0 .. MaxRecoveryDeferrals - 1
  BY DEF Inv, Base, TypeInv
<1>5. CASE Current
  <2> DEFINE to == IF pass.origin = NoOrigin THEN "publish" ELSE "load"
  <2>1. /\ ckpt' = [ckpt EXCEPT !.origin = pass.origin]
        /\ missing' = missing \cup (IF pass.origin # NoOrigin /\ ~ Archive
                                    THEN 0 .. pass.origin.block - 1 ELSE {})
        /\ pass' = [pass EXCEPT !.pc = to]
    BY <1>5 DEF CommitOrigin
  <2>2. to \in {"load", "publish"}
    OBVIOUS
  <2> HIDE DEF to
  <2>3. ckpt' \in Checkpoints /\ ckpt'.gen = ckpt.gen /\ ckpt'.origin = pass.origin
        /\ ckpt'.cursor = ckpt.cursor /\ ckpt'.through = ckpt.through
    BY <1>3, <1>4, <2>1 DEF Checkpoints
  <2>4. missing' \in SUBSET Heights
    <3>1. pass.origin.block \in Heights
      BY <1>3 DEF Origins
    <3>2. 0 .. pass.origin.block - 1 \in SUBSET Heights
      BY <3>1 DEF Heights, OwnerScanAssumption
    <3> QED
      BY <1>4, <2>1, <3>2
  <2>5. /\ pass' \in Sampling /\ pass'.pc = to /\ pass'.gen = pass.gen /\ pass'.head = pass.head
        /\ pass'.cursor = pass.cursor /\ pass'.then = pass.then /\ pass'.from = pass.from
    BY <1>3, <2>1, <2>2 DEF Sampling
  <2>6. pass' \in Passes
    BY <2>5 DEF Passes
  <2>7. CursorInv'
    BY <1>1, <1>2, <2>2, <2>3, <2>5 DEF Inv, Base, CursorInv, Current
  <2>8. OriginInv'
    <3>1. Sampled(pass.origin)
      BY <1>1, <1>5 DEF Inv, OriginInv
    <3>2. Sampled(ckpt'.origin)
      BY <2>3, <3>1
    <3>3. Sampled(ckpt.origin)'
      BY <1>1, <3>2, SurvivesKept DEF Sampled
    <3> QED
      BY <2>2, <2>5, <3>3 DEF OriginInv
  <2> QED
    BY <1>1, <1>2, <1>4, <2>3, <2>4, <2>5, <2>6, <2>7, <2>8, PassStep
<1>6. CASE ~ Current
  <2>1. Stop /\ missing' = missing /\ ckpt' = ckpt
    BY <1>6 DEF CommitOrigin
  <2> QED
    BY <1>1, <1>4, <2>1, BaseStops
<1> QED
  BY <1>5, <1>6

LEMMA BaseLoadSets ==
  ASSUME OwnerScanAssumption, Inv, LoadSets
  PROVE  Inv'
<1>1. /\ UNCHANGED <<node, db, mem, pub, depth, deferrals, spent>> /\ pass.pc = "load"
      /\ ckpt' = ckpt /\ ver' = ver /\ rows' = rows /\ deferrals' = deferrals
      /\ pass' = [pass EXCEPT !.pc = "publish", !.read = actions]
  BY DEF LoadSets, node, db
<1>2. /\ pass.gen <= ckpt.gen /\ 1 <= pass.head /\ pass.head <= tip /\ (Current => pass.cursor = ckpt.cursor)
  BY <1>1, InFlight DEF Headed, Carries
<1>3. pass \in Sampling /\ actions \in SUBSET Entries
  BY <1>1, InFlight, PassAt DEF Inv, Base, TypeInv
<1>4. /\ pass' \in Sampling /\ pass'.pc = "publish" /\ pass'.gen = pass.gen /\ pass'.head = pass.head
      /\ pass'.cursor = pass.cursor /\ pass'.then = pass.then /\ pass'.from = pass.from
  BY <1>1, <1>3 DEF Sampling
<1>5. pass' \in Passes
  BY <1>4 DEF Passes
<1>6. CursorInv'
  BY <1>1, <1>2, <1>4 DEF Inv, Base, CursorInv, Current
<1>7. OriginInv'
  BY <1>1, <1>4, OriginKept DEF Inv
<1> QED
  BY <1>1, <1>2, <1>4, <1>5, <1>6, <1>7, InFlight, PassOnly

LEMMA PublishOriginMemory ==
  ASSUME OwnerScanAssumption, Inv, PublishOrigin
  PROVE  /\ mem' \in Memory /\ mem'.head = mem.head /\ mem'.through = mem.through
         /\ mem'.origin = pass.origin /\ mem'.actions = pass.read
<1> DEFINE e == mem.extended \/ pass.then = "extended"
<1>1. pass \in Sampling /\ mem \in Memory
  BY InFlight, PassAt DEF PublishOrigin, Inv, Base, TypeInv
<1>2. pass.origin \in Origins /\ pass.read \in SUBSET Entries /\ e \in BOOLEAN
  BY <1>1 DEF Sampling
<1>3. mem' = [mem EXCEPT !.origin = pass.origin, !.actions = pass.read, !.extended = e]
  BY DEF PublishOrigin, ApplySets
<1> HIDE DEF e
<1> QED
  BY <1>1, <1>2, <1>3 DEF Memory

LEMMA BasePublishOrigin ==
  ASSUME OwnerScanAssumption, Inv, PublishOrigin
  PROVE  Inv'
<1>1. /\ UNCHANGED <<node, db, pub, depth, deferrals, spent>> /\ pass.pc = "publish"
      /\ tip' = tip /\ ckpt' = ckpt /\ ver' = ver /\ rows' = rows /\ deferrals' = deferrals
      /\ actions' = actions /\ missing' = missing /\ pub' = pub /\ depth' = depth /\ spent' = spent
      /\ pass.then = "extended" => ToStart
      /\ pass.then # "extended" => ToScan(pass.from)
  BY DEF PublishOrigin, node, db
<1>2. /\ pass.gen <= ckpt.gen /\ 1 <= pass.head /\ pass.head <= tip
      /\ Current => pass.cursor = ckpt.cursor
  BY <1>1, InFlight DEF Headed, Carries
<1>3. /\ actions \in SUBSET Entries /\ missing \in SUBSET Heights /\ ckpt \in Checkpoints
      /\ deferrals \in 0 .. MaxRecoveryDeferrals - 1
  BY DEF Inv, Base, TypeInv
<1>4. CASE pass.then = "extended"
  <2>1. /\ pass' \in Passes /\ pass'.pc = "start" /\ pass'.gen = pass.gen /\ pass'.gen <= ckpt.gen
        /\ pass'.head = pass.head /\ pass'.cursor = pass.cursor
    BY <1>1, <1>4, StartOf
  <2>2. CursorInv'
    BY <1>1, <1>2, <2>1 DEF Inv, Base, CursorInv, Current
  <2>3. OriginInv'
    BY <1>1, <2>1, OriginKept DEF Inv
  <2> QED
    BY <1>1, <1>2, <1>3, <2>1, <2>2, <2>3, PublishOriginMemory, PassStep
<1>5. CASE pass.then # "extended"
  <2>1. pass.then = "scan" /\ pass.from \in Starts
    BY <1>1, <1>5, InFlight, PassAt DEF Sampling
  <2>2. /\ pass' \in Passes /\ pass'.pc = "scan" /\ pass'.gen = pass.gen /\ pass'.gen <= ckpt.gen
        /\ pass'.head = pass.head /\ pass'.from = pass.from
    BY <1>1, <1>5, <2>1, Scans
  <2>3. pass.from <= pass.head /\ pass.cursor = Absent /\ Absent < pass.from
    BY <1>1, <2>1 DEF Inv, Base, CursorInv, Absent, Starts
  <2>4. CursorInv'
    BY <1>1, <1>2, <2>2, <2>3 DEF Inv, Base, CursorInv, Current, Carries
  <2>5. OriginInv'
    BY <1>1, <2>2, OriginKept DEF Inv
  <2> QED
    BY <1>1, <1>2, <1>3, <2>2, <2>4, <2>5, PublishOriginMemory, PassStep
<1> QED
  BY <1>4, <1>5

LEMMA BaseYield ==
  ASSUME OwnerScanAssumption, Inv, Yield
  PROVE  Inv'
<1>1. /\ Stop /\ UNCHANGED <<node, db, mem, pub, depth, spent>> /\ OwnerScanMustWait
      /\ deferrals' = deferrals + 1
  BY DEF Yield, Busy
<1>2. /\ deferrals \in 0 .. MaxRecoveryDeferrals - 1
      /\ spent \in [reorgs : Versions, restarts : Nat, epochs : Nat, faults : Nat]
  BY DEF Inv, Base, TypeInv
<1>3. deferrals' \in 0 .. MaxRecoveryDeferrals - 1
  BY <1>1, <1>2 DEF OwnerScanMustWait, OwnerScanAssumption
<1> QED
  BY <1>1, <1>2, <1>3, BaseStops DEF node, db

LEMMA ChunkRange ==
  ASSUME OwnerScanAssumption, Inv, pass.pc = "scan", pass.from <= pass.head
  PROVE  /\ ChunkEnd \in Heights /\ pass.from \in Nat /\ pass.from <= ChunkEnd
         /\ ChunkEnd <= pass.head /\ ChunkEnd <= tip
<1>1. pass.from \in Starts /\ pass.head \in Heights /\ MaxHeight \in Nat /\ Chunk \in Nat \ {0}
  BY InFlight, PassAt DEF Scanning, OwnerScanAssumption
<1>2. pass.head <= tip /\ tip \in Nat
  BY InFlight, Typed DEF Headed, Inv, Base
<1> QED
  BY <1>1, <1>2 DEF ChunkEnd, Lesser, Starts, Heights

LEMMA BaseFetchChunk ==
  ASSUME OwnerScanAssumption, Inv, FetchChunk
  PROVE  Inv'
<1>1. /\ UNCHANGED <<node, db, mem, pub, depth, spent>> /\ pass.pc = "scan" /\ pass.from <= pass.head
      /\ ckpt' = ckpt /\ ver' = ver /\ rows' = rows /\ (deferrals' = 0 \/ deferrals' = deferrals)
  BY DEF FetchChunk, node, db, Busy
<1>2. /\ pass.gen \in Nat /\ pass.gen <= ckpt.gen /\ pass.head \in Heights
      /\ 1 <= pass.head /\ pass.head <= tip
  BY <1>1, InFlight DEF Headed
<1>3. pass.from \in Starts /\ pass.chunks \in Nat
  BY <1>1, InFlight, PassAt DEF Scanning
<1>4. ChunkEnd \in Heights /\ pass.from <= ChunkEnd /\ ChunkEnd <= pass.head /\ pass.from \in Nat
  BY <1>1, ChunkRange
<1>5. FetchOwnerActions(ChunkEnd) \in SUBSET Entries
  <2>1. ChunkEnd \in Int /\ pass.from \in Int
    BY <1>4, Typed DEF Inv, Base
  <2> QED
    BY <2>1, LogsRead DEF FetchOwnerActions, Inv, Base
<1>6. deferrals' \in 0 .. MaxRecoveryDeferrals - 1
  BY <1>1, InFlight DEF OwnerScanAssumption
<1> DEFINE to == ChunkEnd
           logs == FetchOwnerActions(to)
<1>7. pass' = [pc |-> "store chunk", gen |-> pass.gen, head |-> pass.head, from |-> pass.from,
               chunks |-> pass.chunks, to |-> to, logs |-> logs]
  BY DEF FetchChunk
<1>8. to \in Heights /\ logs \in SUBSET Entries /\ pass.from <= to /\ to <= pass.head
  BY <1>4, <1>5
<1> HIDE DEF to, logs
<1>9. pass' \in ChunkRead
  BY <1>2, <1>3, <1>7, <1>8 DEF ChunkRead
<1>10. /\ pass' \in Passes /\ pass'.pc = "store chunk" /\ pass'.gen = pass.gen /\ pass'.head = pass.head
       /\ pass'.from = pass.from /\ pass'.to = to
  BY <1>7, <1>9 DEF Passes
<1>11. CursorInv'
  BY <1>1, <1>8, <1>10 DEF Inv, Base, CursorInv, Current, Carries
<1>12. OriginInv'
  BY <1>1, <1>10, OriginKept DEF Inv
<1> QED
  BY <1>1, <1>2, <1>6, <1>10, <1>11, <1>12, PassOnly

LEMMA BaseScanOwnerRange ==
  ASSUME OwnerScanAssumption, Inv, ScanOwnerRange
  PROVE  Inv'
<1>1. /\ pass.pc = "store chunk" /\ tip' = tip /\ ver' = ver /\ rows' = rows /\ missing' = missing
      /\ mem' = mem /\ pub' = pub /\ depth' = depth /\ deferrals' = deferrals /\ spent' = spent
  BY DEF ScanOwnerRange, node
<1>2. /\ pass.gen \in Nat /\ pass.gen <= ckpt.gen /\ pass.head \in Heights
      /\ 1 <= pass.head /\ pass.head <= tip
  BY <1>1, InFlight DEF Headed
<1>3. /\ pass.from \in Starts /\ pass.chunks \in Nat /\ pass.to \in Heights
      /\ pass.logs \in SUBSET Entries
  BY <1>1, InFlight, PassAt DEF ChunkRead
<1>4. /\ actions \in SUBSET Entries /\ missing \in SUBSET Heights /\ ckpt \in Checkpoints /\ mem \in Memory
      /\ spent \in [reorgs : Versions, restarts : Nat, epochs : Nat, faults : Nat]
      /\ deferrals \in 0 .. MaxRecoveryDeferrals - 1
  BY DEF Inv, Base, TypeInv
<1>5. CASE Current
  <2>1. /\ actions' = actions \cup pass.logs
        /\ ckpt' = [ckpt EXCEPT !.cursor = pass.to]
        /\ pass' = [pc |-> "scan", gen |-> pass.gen, head |-> pass.head, from |-> pass.to + 1,
                    chunks |-> pass.chunks + 1]
    BY <1>5 DEF ScanOwnerRange, Checkpoint
  <2>2. /\ actions' \in SUBSET Entries /\ pass.to + 1 \in Starts /\ pass.to \in Cursors
        /\ pass.to \in Nat /\ pass.from \in Nat /\ ckpt.cursor \in Int /\ ckpt.through \in Nat
    <3>1. ckpt.cursor \in Cursors /\ ckpt.through \in Heights
      BY <1>4 DEF Checkpoints
    <3> QED
      BY <1>3, <1>4, <2>1, <3>1 DEF Heights, Starts, Cursors, OwnerScanAssumption
  <2>3. ckpt' \in Checkpoints /\ ckpt'.gen = ckpt.gen /\ ckpt'.cursor = pass.to
        /\ ckpt'.through = ckpt.through /\ ckpt'.origin = ckpt.origin
    BY <1>4, <2>1, <2>2 DEF Checkpoints
  <2>4. pass' \in Scanning
    BY <1>2, <1>3, <2>1, <2>2 DEF Scanning
  <2>5. pass' \in Passes /\ pass'.pc = "scan" /\ pass'.gen = pass.gen /\ pass'.head = pass.head
        /\ pass'.from = pass.to + 1
    BY <2>1, <2>4 DEF Passes
  <2>6. ckpt.cursor < pass.from /\ pass.from <= pass.to /\ ckpt.through <= Greater(ckpt.cursor, 0)
    BY <1>1, <1>5 DEF Inv, Base, CursorInv
  <2>7. ckpt.through <= pass.to
    BY <2>2, <2>6 DEF Greater
  <2>8. ckpt'.through <= Greater(ckpt'.cursor, 0)
    BY <2>2, <2>3, <2>7 DEF Greater
  <2>9. CursorInv'
    BY <2>2, <2>3, <2>5, <2>8 DEF CursorInv, Carries
  <2>10. OriginInv'
    <3>1. Sampled(ckpt.origin)'
      BY <1>1, <2>3, SurvivesKept DEF Inv, OriginInv, Sampled
    <3> QED
      BY <2>5, <3>1 DEF OriginInv
  <2> QED
    BY <1>1, <1>2, <1>4, <2>2, <2>3, <2>5, <2>9, <2>10, PassStep
<1>6. CASE ~ Current
  <2>1. Stop /\ actions' = actions /\ ckpt' = ckpt
    BY <1>6 DEF ScanOwnerRange
  <2> QED
    BY <1>1, <1>4, <2>1, BaseStops
<1> QED
  BY <1>5, <1>6

LEMMA CompleteMemory ==
  ASSUME OwnerScanAssumption, Inv, Complete
  PROVE  LET advances == pass.head > mem.through /\ Current
         IN /\ mem' \in Memory /\ mem'.head = mem.head /\ mem'.origin = mem.origin
            /\ mem'.actions = actions
            /\ mem'.through = IF advances THEN pass.head ELSE mem.through
            /\ ckpt' \in Checkpoints /\ ckpt'.gen = ckpt.gen /\ ckpt'.cursor = ckpt.cursor
            /\ ckpt'.origin = ckpt.origin
            /\ ckpt'.through = IF advances THEN pass.head ELSE ckpt.through
<1> DEFINE through == IF pass.head > mem.through /\ Current THEN pass.head ELSE mem.through
<1>1. mem \in Memory /\ ckpt \in Checkpoints /\ actions \in SUBSET Entries /\ mem.through \in Heights
  BY Typed DEF Inv, Base, TypeInv
<1>2. pass.head \in Heights
  BY InFlight DEF Headed, Complete
<1>3. mem' = [mem EXCEPT !.actions = actions, !.through = through]
  BY DEF Complete
<1>4. through \in Heights /\ through = IF pass.head > mem.through /\ Current THEN pass.head ELSE mem.through
  BY <1>1, <1>2
<1>5. ckpt' = IF pass.head > mem.through /\ Current THEN [ckpt EXCEPT !.through = pass.head] ELSE ckpt
  BY DEF Complete
<1> HIDE DEF through
<1>6. mem' \in Memory /\ mem'.head = mem.head /\ mem'.origin = mem.origin /\ mem'.actions = actions
      /\ mem'.through = through
  BY <1>1, <1>3, <1>4 DEF Memory
<1>7. /\ ckpt' \in Checkpoints /\ ckpt'.gen = ckpt.gen /\ ckpt'.cursor = ckpt.cursor
      /\ ckpt'.origin = ckpt.origin
      /\ ckpt'.through = IF pass.head > mem.through /\ Current THEN pass.head ELSE ckpt.through
  BY <1>1, <1>2, <1>5 DEF Checkpoints
<1> QED
  BY <1>4, <1>6, <1>7

LEMMA BaseComplete ==
  ASSUME OwnerScanAssumption, Inv, Complete
  PROVE  Inv'
<1>1. /\ pass.pc = "scan" /\ pass.from > pass.head /\ tip' = tip /\ ver' = ver /\ rows' = rows
      /\ missing' = missing /\ actions' = actions /\ pass' = Idle
      /\ pub' = pub /\ depth' = depth /\ deferrals' = deferrals /\ spent' = spent
  BY DEF Complete, node, Stop
<1>2. pass' \in Passes /\ pass'.pc = "idle"
  BY <1>1 DEF Idle, Passes, Resting
<1>3. ckpt'.through <= Greater(ckpt'.cursor, 0)
  <2>1. pass.from \in Starts /\ pass.head \in Heights /\ 1 <= pass.head /\ ckpt.cursor \in Cursors
    BY <1>1, InFlight, PassAt DEF Scanning, Headed
  <2>2. pass.from \in Int /\ pass.head \in Int /\ ckpt.cursor \in Int
    BY <2>1 DEF Starts, Heights, Cursors, OwnerScanAssumption
  <2>3. Current => ckpt.cursor = pass.from - 1
    BY <1>1, <2>2 DEF Inv, Base, CursorInv
  <2>4. Current => pass.head <= ckpt.cursor /\ pass.head <= Greater(ckpt.cursor, 0)
    BY <1>1, <2>1, <2>2, <2>3 DEF Greater
  <2> QED
    BY <2>4, CompleteMemory DEF Inv, Base, CursorInv
<1>4. CursorInv'
  BY <1>2, <1>3 DEF CursorInv, Carries
<1>5. OriginInv'
  <2>1. Sampled(ckpt.origin)'
    BY <1>1, CompleteMemory, SurvivesKept DEF Inv, OriginInv, Sampled
  <2> QED
    BY <1>2, <2>1 DEF OriginInv
<1>6. actions \in SUBSET Entries /\ missing \in SUBSET Heights /\ deferrals \in 0 .. MaxRecoveryDeferrals - 1
  BY DEF Inv, Base, TypeInv
<1> QED
  BY <1>1, <1>2, <1>4, <1>5, <1>6, CompleteMemory, PassStep DEF Headed

-----------------------------------------------------------------------------
LEMMA BaseInit ==
  ASSUME OwnerScanAssumption, Init
  PROVE  Inv
<1>1. 0 \in Heights /\ 0 \in Versions /\ MaxHeight \in Nat /\ -1 \in Cursors /\ NoOrigin \in Origins
  BY DEF OwnerScanAssumption, Heights, Versions, Cursors, NoOrigin, Origins
<1>2. TypeInv
  <2>1. tip \in 1 .. MaxHeight /\ ver \in [Heights -> Versions]
    BY <1>1 DEF Init, OwnerScanAssumption
  <2>2. ckpt \in Checkpoints /\ mem \in Memory
    BY <1>1 DEF Init, Checkpoints, Memory, Absent
  <2>3. pass \in Passes
    BY DEF Init, Passes, Resting, Idle
  <2>4. 0 \in 0 .. MaxRecoveryDeferrals - 1
    BY DEF OwnerScanAssumption
  <2> QED
    BY <1>1, <2>1, <2>2, <2>3, <2>4 DEF Init, TypeInv
<1>3. RowsInv
  <2>1. DOMAIN rows = {} /\ rows = [h \in DOMAIN rows |-> 0]
    BY DEF Init, NoRows
  <2>2. rows \in [DOMAIN rows -> Versions]
    BY <1>1, <2>1
  <2> QED
    BY <2>1, <2>2 DEF RowsInv, Init
<1>4. PassInv /\ CursorInv
  <2>1. tip \in Nat
    BY <1>2, Typed
  <2> QED
    BY <2>1 DEF Init, Idle, PassInv, Headed, CursorInv, Carries, Greater, Absent
<1>5. OriginInv
  BY DEF Init, Idle, OriginInv, Sampled, NoOrigin
<1> QED
  BY <1>2, <1>3, <1>4, <1>5 DEF Inv, Base

LEMMA BaseNext ==
  ASSUME OwnerScanAssumption, Inv, [Next]_vars
  PROVE  Inv'
<1>1. CASE Slow
  BY <1>1, BaseReadGeneration, BaseReadCursor, BaseExtendScanOrigin, BaseFetchFloor,
     BaseScanOwnerFloor, BaseScanStart, BaseCommitOrigin, BaseLoadSets, BasePublishOrigin, BaseYield,
     BaseFetchChunk, BaseScanOwnerRange, BaseComplete DEF Slow
<1>2. CASE Fast
  BY <1>2, BaseTick, BaseRewind, BasePublishRewind DEF Fast
<1>3. CASE Mint \/ Fails \/ (\E k \in Forks : Reorg(k))
  BY <1>3, BaseMint, BaseFails, BaseReorg
<1>4. CASE \E d \in Depths, epoch \in BOOLEAN : Restart(d, epoch)
  BY <1>4, BaseRestart
<1>5. CASE UNCHANGED vars
  <2>1. /\ tip' = tip /\ ver' = ver /\ rows' = rows /\ actions' = actions /\ missing' = missing
        /\ ckpt' = ckpt /\ mem' = mem /\ pub' = pub /\ pass' = pass /\ depth' = depth
        /\ deferrals' = deferrals /\ spent' = spent
    BY <1>5 DEF vars
  <2>2. TypeInv'
    BY <2>1 DEF Inv, Base, TypeInv
  <2>3. RowsInv'
    BY <2>1, RowsKept DEF Inv, Base
  <2>4. PassInv' /\ CursorInv'
    BY <2>1 DEF Inv, Base, PassInv, CursorInv, Headed, Carries, Current
  <2>5. OriginInv'
    BY <2>1, SurvivesKept DEF Inv, OriginInv, Sampled, Current
  <2> QED
    BY <2>2, <2>3, <2>4, <2>5 DEF Inv, Base
<1> QED
  BY <1>1, <1>2, <1>3, <1>4, <1>5 DEF Next

THEOREM InvHolds == OwnerScanAssumption => (Spec => []Inv)
<1> SUFFICES ASSUME OwnerScanAssumption PROVE Spec => []Inv
  OBVIOUS
<1>1. Init => Inv
  BY BaseInit
<1>2. Inv /\ [Next]_vars => Inv'
  BY BaseNext
<1> QED
  BY <1>1, <1>2, PTL DEF Spec

LEMMA TypeOKHolds ==
  ASSUME OwnerScanAssumption, Inv
  PROVE  TypeOK
<1>1. ckpt.cursor \in {Absent} \cup Heights
  BY Typed DEF Inv, Base, Cursors, Heights, Absent, OwnerScanAssumption
<1>2. ckpt.through \in Heights /\ ckpt.origin.block \in Heights /\ mem.origin.block \in Heights
  BY Typed DEF Inv, Base, Origins
<1>3. actions \subseteq Heights \X (0 .. MaxReorgs) /\ missing \subseteq Heights
  BY DEF Inv, Base, TypeInv, Entries, Versions
<1>4. deferrals < MaxRecoveryDeferrals
  BY DEF Inv, Base, TypeInv, OwnerScanAssumption
<1> QED
  BY <1>1, <1>2, <1>3, <1>4 DEF TypeOK, Inv, Base, CursorInv

LEMMA OriginOnChainHolds ==
  ASSUME Inv
  PROVE  OriginOnChain
  BY DEF Inv, OriginInv, Sampled, Survives, Quiet, OriginOnChain

(* The checkpoints describe heights that exist, and the cursor is there    *)
(* before the timeline is said to be complete through a height             *)
(* (scanOwnerRange, scanOwnerActions, rewindOwnerScan).                    *)
THEOREM ScanTyped == OwnerScanAssumption => (Spec => []TypeOK)
<1> SUFFICES ASSUME OwnerScanAssumption PROVE Spec => []TypeOK
  OBVIOUS
<1>1. Inv => TypeOK
  BY TypeOKHolds
<1> QED
  BY <1>1, InvHolds, PTL

(* A state sampled from the archive at the origin is a state of the chain  *)
(* that is followed, however a reorg, a rewind and the pass that samples   *)
(* interleave: the generation is compared where the origin is committed.   *)
THEOREM SampleOnChain == OwnerScanAssumption => (Spec => []OriginOnChain)
<1> SUFFICES ASSUME OwnerScanAssumption PROVE Spec => []OriginOnChain
  OBVIOUS
<1>1. Inv => OriginOnChain
  BY OriginOnChainHolds
<1> QED
  BY <1>1, InvHolds, PTL

-----------------------------------------------------------------------------
(* A chain scanned from the genesis.                                       *)
Steady ==
  /\ \A h \in Heights : Survives(h)' => Survives(h) /\ ver'[h] = ver[h]
  /\ pub' = pub

LEMMA SteadyKept ==
  ASSUME ver' = ver, rows' = rows, pub' = pub
  PROVE  Steady
  BY SurvivesKept DEF Steady

LEMMA TimelineStep ==
  ASSUME OwnerScanAssumption, Steady,
         Recorded(actions', ckpt'.cursor),
         Cached(actions', mem'.through), Cached(mem'.actions, mem'.through),
         pass'.pc \in {"origin", "load", "publish"} =>
           Cached(pass'.read, mem'.through) /\ (pass'.then = "scan" => pass'.from = 0),
         pass'.pc \in {"scan", "store chunk"} /\ Current' => ckpt'.cursor = pass'.from - 1,
         pass'.pc = "store chunk" /\ Current' =>
           \A h \in Acting : pass'.from <= h /\ h <= pass'.to /\ Survives(h) => Canonical(h) \in pass'.logs
  PROVE  TimelineInv'
<1>1. \A h \in Acting : Survives(h)' => Survives(h) /\ Canonical(h)' = Canonical(h)
  BY DEF Steady, OwnerScanAssumption, Canonical
<1>2. \A h : Shown(h)' <=> Shown(h)
  BY DEF Steady, Shown
<1>3. Recorded(actions, ckpt.cursor)'
  BY <1>1 DEF Recorded
<1>4. Cached(actions, mem.through)' /\ Cached(mem.actions, mem.through)'
  BY <1>1, <1>2 DEF Cached
<1>5. (pass.pc \in {"origin", "load", "publish"} =>
         Cached(pass.read, mem.through) /\ (pass.then = "scan" => pass.from = 0))'
  BY <1>1, <1>2 DEF Cached
<1>6. (pass.pc = "store chunk" /\ Current =>
         \A h \in Acting : pass.from <= h /\ h <= pass.to /\ Survives(h) => Canonical(h) \in pass.logs)'
  BY <1>1
<1> QED
  BY <1>3, <1>4, <1>5, <1>6 DEF TimelineInv

(* The steps that leave the tables and memory as they are.                 *)
LEMMA TimelinePass ==
  ASSUME OwnerScanAssumption, TimelineInv, Steady,
         actions' = actions, ckpt'.cursor = ckpt.cursor,
         mem'.through = mem.through, mem'.actions = mem.actions,
         pass'.pc \in {"origin", "load", "publish"} =>
           pass'.read = actions /\ (pass'.then = "scan" => pass'.from = 0),
         pass'.pc # "store chunk", pass'.pc = "scan" /\ Current' => ckpt.cursor = pass'.from - 1
  PROVE  TimelineInv'
  BY TimelineStep DEF TimelineInv

LEMMA TimelineSame ==
  ASSUME OwnerScanAssumption, TimelineInv, Steady,
         actions' = actions, ckpt' = ckpt, mem' = mem, pass' = pass
  PROVE  TimelineInv'
<1>1. Current' <=> Current
  BY DEF Current
<1> QED
  BY <1>1, TimelineStep DEF TimelineInv

(* More actions are no less. *)
LEMMA RecordedMore ==
  ASSUME NEW as, NEW more, as \subseteq more, NEW n
  PROVE  /\ Recorded(as, n) => Recorded(more, n)
         /\ Cached(as, n) => Cached(more, n)
  BY DEF Recorded, Cached

FromGenesis == Depths = {Genesis}

(* At the genesis no scan begins above it. *)
LEMMA GenesisCutoff ==
  ASSUME OwnerScanAssumption, FromGenesis, Inv
  PROVE  DepthCutoff(pass.head) = 0 /\ depth = Genesis
<1>1. depth \in {Genesis}
  BY DEF FromGenesis, Inv, Base, TypeInv
<1> QED
  BY <1>1 DEF DepthCutoff

LEMMA TimelineNode ==
  ASSUME OwnerScanAssumption, Inv, TimelineInv, Mint \/ (\E k \in Forks : Reorg(k))
  PROVE  TimelineInv'
<1>1. actions' = actions /\ ckpt' = ckpt /\ mem' = mem /\ pass' = pass /\ pub' = pub /\ rows' = rows
  BY DEF Mint, Reorg, db
<1>2. Steady
  <2>1. CASE Mint
    BY <1>1, <2>1, SteadyKept DEF Mint
  <2>2. CASE \E k \in Forks : Reorg(k)
    BY <1>1, <2>2, ReorgSurvives DEF Steady
  <2> QED
    BY <2>1, <2>2
<1> QED
  BY <1>1, <1>2, TimelineSame

LEMMA TimelineTick ==
  ASSUME OwnerScanAssumption, Inv, TimelineInv, NEW known \in BOOLEAN, Tick(known)
  PROVE  TimelineInv'
<1>1. /\ ver' = ver /\ pub' = pub /\ ckpt' = ckpt /\ pass' = pass /\ actions \subseteq actions'
      /\ mem' = [mem EXCEPT !.head = tip, !.actions = IF known THEN actions' ELSE mem.actions]
  BY DEF Tick, node
<1>2. Steady
  <2>1. \A h : Survives(h)
    BY TickSettled
  <2> QED
    BY <1>1, <2>1 DEF Steady
<1>3. mem'.through = mem.through /\ (mem'.actions = actions' \/ mem'.actions = mem.actions)
  <2> DEFINE as == IF known THEN actions' ELSE mem.actions
  <2>1. mem' = [mem EXCEPT !.head = tip, !.actions = as] /\ (as = actions' \/ as = mem.actions)
    BY <1>1
  <2>2. mem \in Memory
    BY DEF Inv, Base, TypeInv
  <2> HIDE DEF as
  <2> QED
    BY <2>1, <2>2 DEF Memory
<1>4. Recorded(actions', ckpt.cursor) /\ Cached(actions', mem.through)
  BY <1>1, RecordedMore DEF TimelineInv
<1>5. Current' <=> Current
  BY <1>1 DEF Current
<1> QED
  BY <1>1, <1>2, <1>3, <1>4, <1>5, TimelineStep DEF TimelineInv

LEMMA StaleRewind ==
  ASSUME OwnerScanAssumption, Inv, Rewind
  PROVE  pass' = pass /\ mem' = mem /\ ver' = ver /\ (pass.pc # "idle" => ~ Current')
<1>1. ckpt.gen \in Nat /\ ckpt'.gen = ckpt.gen + 1
  BY RewindCheckpoints, InFlight
<1>2. pass' = pass /\ mem' = mem /\ ver' = ver
  BY DEF Rewind, node
<1>3. pass.pc # "idle" => pass.gen \in Nat /\ pass.gen <= ckpt.gen
  BY InFlight
<1> QED
  BY <1>1, <1>2, <1>3 DEF Current

LEMMA RewindPublishes ==
  ASSUME OwnerScanAssumption, Inv, Rewind
  PROVE  /\ pub # pub' /\ pub = NoRewind /\ pub'.ancestor = RewindTo /\ RewindTo \in Nat
         /\ \A h : Shown(h) /\ (Shown(h)' <=> h <= RewindTo)
<1>1. pub' = [ancestor |-> RewindTo, reset |-> Resets(RewindTo)] /\ pub = NoRewind
  BY RewindCheckpoints
<1>2. RewindTo \in Nat
  BY RewindKeeps, Typed DEF Inv, Base
<1>3. pub'.ancestor = RewindTo /\ RewindTo # -1 /\ NoRewind.ancestor = -1
  BY <1>1, <1>2 DEF NoRewind, Absent
<1>4. pub' # NoRewind
  BY <1>3
<1> QED
  BY <1>1, <1>2, <1>3, <1>4 DEF Shown

LEMMA TimelineRewind ==
  ASSUME OwnerScanAssumption, Inv, TimelineInv, Rewind
  PROVE  TimelineInv'
<1>1. pass' = pass /\ mem' = mem /\ ver' = ver /\ (pass.pc # "idle" => ~ Current')
  BY StaleRewind
<1>2. \A h \in Acting : h <= RewindTo => Survives(h) /\ Canonical(h)' = Canonical(h)
  BY <1>1, RewindKeeps DEF OwnerScanAssumption, Canonical
<1>3. \A h : Shown(h) /\ (Shown(h)' <=> h <= RewindTo)
  BY RewindPublishes
<1>4. \A h \in Acting : h <= RewindTo /\ Canonical(h) \in actions => Canonical(h) \in actions'
  BY RewindCheckpoints DEF Through, Canonical
<1>5. Recorded(actions, ckpt.cursor)'
  <2>1. \A h \in Acting : 1 <= h /\ h <= ckpt'.cursor => h <= RewindTo /\ h <= ckpt.cursor
    <3>1. Acting \subseteq Nat /\ RewindTo \in Nat /\ ckpt.cursor \in Int
      <4>1. ckpt.cursor \in Cursors
        BY InFlight
      <4> QED
        BY <4>1, RewindPublishes DEF OwnerScanAssumption, Heights, Cursors
    <3>2. CASE Resets(RewindTo)
      BY <3>1, <3>2, RewindCheckpoints DEF Absent
    <3>3. CASE ~ Resets(RewindTo)
      BY <3>1, <3>3, RewindCheckpoints DEF RewindCursor
    <3> QED
      BY <3>2, <3>3
  <2> QED
    BY <1>2, <1>4, <2>1 DEF TimelineInv, Recorded
<1>6. Cached(actions, mem.through)' /\ Cached(mem.actions, mem.through)'
  BY <1>1, <1>2, <1>3, <1>4 DEF TimelineInv, Cached
<1>7. (pass.pc \in {"origin", "load", "publish"} =>
         Cached(pass.read, mem.through) /\ (pass.then = "scan" => pass.from = 0))'
  BY <1>1, <1>2, <1>3 DEF TimelineInv, Cached
<1> QED
  BY <1>1, <1>5, <1>6, <1>7 DEF TimelineInv

LEMMA TimelinePublishRewind ==
  ASSUME OwnerScanAssumption, Inv, TimelineInv, PublishRewind
  PROVE  TimelineInv'
<1>1. /\ ver' = ver /\ rows' = rows /\ actions' = actions /\ ckpt' = ckpt /\ pass' = pass
      /\ pub # NoRewind /\ pub' = NoRewind /\ mem'.actions = actions
      /\ mem'.through = IF pub.reset THEN 0 ELSE Lesser(mem.through, pub.ancestor)
  BY PublishMemory DEF PublishRewind, node, db
<1>2. \A h \in Acting : (Survives(h)' <=> Survives(h)) /\ Canonical(h)' = Canonical(h)
  BY <1>1, SurvivesKept DEF Canonical
<1>3. \A h \in Acting : 1 <= h /\ h <= mem'.through => h <= mem.through /\ Shown(h)
  <2>1. mem.through \in Nat /\ pub.ancestor \in Nat /\ Acting \subseteq Nat
    <3>1. mem.through \in Heights /\ pub.ancestor \in Heights
      BY <1>1, Typed DEF Inv, Base
    <3> QED
      BY <3>1 DEF OwnerScanAssumption, Heights
  <2> QED
    BY <1>1, <2>1 DEF Lesser, Shown
<1>4. Recorded(actions, ckpt.cursor)'
  BY <1>1, <1>2 DEF TimelineInv, Recorded
<1>5. Cached(actions, mem.through)' /\ Cached(mem.actions, mem.through)'
  BY <1>1, <1>2, <1>3 DEF TimelineInv, Cached
<1>6. (pass.pc \in {"origin", "load", "publish"} =>
         Cached(pass.read, mem.through) /\ (pass.then = "scan" => pass.from = 0))'
  BY <1>1, <1>2, <1>3 DEF TimelineInv, Cached
<1>7. Current' <=> Current
  BY <1>1 DEF Current
<1>8. (pass.pc = "store chunk" /\ Current =>
         \A h \in Acting : pass.from <= h /\ h <= pass.to /\ Survives(h) => Canonical(h) \in pass.logs)'
  BY <1>1, <1>2, <1>7 DEF TimelineInv
<1> QED
  BY <1>1, <1>4, <1>5, <1>6, <1>7, <1>8 DEF TimelineInv

LEMMA TimelineRestart ==
  ASSUME OwnerScanAssumption, Inv, TimelineInv, NEW d \in Depths, NEW epoch \in BOOLEAN, Restart(d, epoch)
  PROVE  TimelineInv'
<1>1. /\ ver' = ver /\ rows' = rows /\ actions' = actions /\ pass' = Idle /\ pub' = NoRewind
      /\ mem'.actions = actions /\ mem'.through = ckpt'.through
      /\ ckpt' = IF epoch THEN [cursor |-> Absent, through |-> 0, origin |-> NoOrigin, gen |-> ckpt.gen + 1]
                 ELSE ckpt
  BY DEF Restart, node, LoadScanState
<1>2. \A h \in Acting : (Survives(h)' <=> Survives(h)) /\ Canonical(h)' = Canonical(h) /\ h \in Nat
  BY <1>1, SurvivesKept DEF Canonical, OwnerScanAssumption, Heights
<1>3. CASE epoch
  <2>1. ckpt'.cursor = -1 /\ ckpt'.through = 0
    BY <1>1, <1>3 DEF Absent
  <2>2. Recorded(actions, ckpt.cursor)'
    BY <1>2, <2>1 DEF Recorded
  <2>3. Cached(actions, mem.through)' /\ Cached(mem.actions, mem.through)'
    BY <1>1, <1>2, <2>1 DEF Cached
  <2> QED
    BY <1>1, <2>2, <2>3 DEF TimelineInv, Idle
<1>4. CASE ~ epoch
  <2>1. ckpt' = ckpt
    BY <1>1, <1>4
  <2>2. Recorded(actions, ckpt.cursor)'
    BY <1>1, <1>2, <2>1 DEF TimelineInv, Recorded
  <2>3. \A h \in Acting : 1 <= h /\ h <= ckpt.through => h <= ckpt.cursor
    <3>1. ckpt.cursor \in Int /\ ckpt.through \in Nat /\ ckpt.through <= Greater(ckpt.cursor, 0)
      <4>1. ckpt.cursor \in Cursors /\ ckpt.through \in Heights /\ ckpt.through <= Greater(ckpt.cursor, 0)
        BY Typed DEF Inv, Base, CursorInv
      <4> QED
        BY <4>1 DEF Cursors, Heights, OwnerScanAssumption
    <3> QED
      BY <1>2, <3>1 DEF Greater
  <2>4. Cached(actions, mem.through)' /\ Cached(mem.actions, mem.through)'
    BY <1>1, <1>2, <2>1, <2>3 DEF TimelineInv, Recorded, Cached
  <2> QED
    BY <1>1, <2>2, <2>4 DEF TimelineInv, Idle
<1> QED
  BY <1>3, <1>4

(* The steps of a pass. *)
LEMMA TimelineQuiet ==
  ASSUME OwnerScanAssumption, Inv, TimelineInv, UNCHANGED <<node, db, mem, pub>>,
         pass'.pc \notin {"origin", "load", "publish", "scan", "store chunk"}
  PROVE  TimelineInv'
<1>1. /\ ver' = ver /\ rows' = rows /\ pub' = pub /\ actions' = actions /\ ckpt' = ckpt /\ mem' = mem
  BY DEF node, db
<1> QED
  BY <1>1, SteadyKept, TimelinePass DEF TimelineInv

LEMMA TimelineSamples ==
  ASSUME OwnerScanAssumption, Inv, TimelineInv, UNCHANGED <<node, db, mem, pub>>, Carries,
         NEW cutoff \in Heights, NEW only \in BOOLEAN, NEW then \in {"extended", "scan"},
         WriteOrigin(cutoff, only, then, 0)
  PROVE  TimelineInv'
<1>1. /\ ver' = ver /\ rows' = rows /\ pub' = pub /\ actions' = actions /\ ckpt' = ckpt /\ mem' = mem
  BY DEF node, db
<1>2. 0 \in Starts
  BY DEF Starts, OwnerScanAssumption
<1>3. pass'.pc = "origin" /\ pass'.read = actions /\ pass'.from = 0
  BY <1>2, Samples
<1> QED
  BY <1>1, <1>3, SteadyKept, TimelinePass

LEMMA TimelineExtend ==
  ASSUME OwnerScanAssumption, Inv, TimelineInv, ExtendScanOrigin
  PROVE  TimelineInv'
<1> DEFINE cutoff == DepthCutoff(pass.head)
           target == Greater(cutoff, FirstOriginBlock)
<1>1. /\ UNCHANGED <<node, db, pub>> /\ pass.pc = "extend"
      /\ \/ ToStart /\ UNCHANGED mem
         \/ ToStart /\ MarkScanExtended
         \/ WriteOrigin(FirstOriginBlock, TRUE, "extended", 0) /\ UNCHANGED mem
         \/ ActionsFirst(cutoff, target) /\ UNCHANGED mem
  BY DEF ExtendScanOrigin
<1>2. CASE ToStart /\ UNCHANGED mem
  BY <1>1, <1>2, StartOf, TimelineQuiet
<1>3. CASE ToStart /\ MarkScanExtended
  <2>1. mem'.through = mem.through /\ mem'.actions = mem.actions
    BY <1>3 DEF MarkScanExtended, Inv, Base, TypeInv, Memory
  <2>2. /\ ver' = ver /\ rows' = rows /\ pub' = pub /\ actions' = actions /\ ckpt' = ckpt
    BY <1>1 DEF node, db
  <2>3. pass'.pc = "start"
    BY <1>1, <1>3, StartOf
  <2> QED
    BY <2>1, <2>2, <2>3, SteadyKept, TimelinePass
<1>4. CASE WriteOrigin(FirstOriginBlock, TRUE, "extended", 0) /\ UNCHANGED mem
  <2>1. FirstOriginBlock \in Heights
    BY <1>1, LowerTarget
  <2> QED
    BY <1>1, <1>4, <2>1, TimelineSamples DEF Carries
<1>5. CASE ActionsFirst(cutoff, target) /\ UNCHANGED mem
  <2>1. pass'.pc = "floor"
    BY <1>5 DEF ActionsFirst
  <2> QED
    BY <1>1, <1>5, <2>1, TimelineQuiet
<1> QED
  BY <1>1, <1>2, <1>3, <1>4, <1>5

LEMMA TimelineFloor ==
  ASSUME OwnerScanAssumption, Inv, TimelineInv, FetchFloor
  PROVE  TimelineInv'
<1>1. UNCHANGED <<node, db, mem, pub>> /\ pass.pc = "floor"
  BY DEF FetchFloor
<1>2. CASE WriteOrigin(pass.target, pass.target = FirstOriginBlock, "extended", 0)
  <2>1. pass.target \in Heights /\ (pass.target = FirstOriginBlock) \in BOOLEAN
    BY <1>1, InFlight, PassAt DEF Flooring
  <2> QED
    BY <1>1, <1>2, <2>1, TimelineSamples DEF Carries
<1>3. CASE pass' = [pc |-> "store floor", gen |-> pass.gen, head |-> pass.head, cursor |-> pass.cursor,
                     origin |-> pass.origin, from |-> pass.from, target |-> pass.target,
                     to |-> FloorEnd, logs |-> FetchOwnerActions(FloorEnd)]
  <2>1. pass'.pc = "store floor"
    BY <1>3
  <2> QED
    BY <1>1, <2>1, TimelineQuiet
<1> QED
  BY <1>2, <1>3 DEF FetchFloor

LEMMA TimelineStoreFloor ==
  ASSUME OwnerScanAssumption, Inv, TimelineInv, ScanOwnerFloor
  PROVE  TimelineInv'
<1>1. /\ ver' = ver /\ rows' = rows /\ pub' = pub /\ ckpt' = ckpt /\ mem' = mem /\ actions \subseteq actions'
      /\ pass'.pc \in {"idle", "floor"}
  <2>1. ver' = ver /\ rows' = rows /\ pub' = pub /\ ckpt' = ckpt /\ mem' = mem
    BY DEF ScanOwnerFloor, node
  <2>2. CASE Current
    <3>1. /\ actions' = actions \cup pass.logs
          /\ pass' = [pc |-> "floor", gen |-> pass.gen, head |-> pass.head, cursor |-> pass.cursor,
                      origin |-> pass.origin, from |-> pass.to + 1, target |-> pass.target]
      BY <2>2 DEF ScanOwnerFloor
    <3> QED
      BY <2>1, <3>1
  <2>3. CASE ~ Current
    <3>1. pass' = Idle /\ actions' = actions
      BY <2>3 DEF ScanOwnerFloor, Stop
    <3> QED
      BY <2>1, <3>1 DEF Idle
  <2> QED
    BY <2>2, <2>3
<1>2. Recorded(actions', ckpt.cursor) /\ Cached(actions', mem.through)
  BY <1>1, RecordedMore DEF TimelineInv
<1> QED
  BY <1>1, <1>2, SteadyKept, TimelineStep DEF TimelineInv

LEMMA TimelineScanStart ==
  ASSUME OwnerScanAssumption, FromGenesis, Inv, TimelineInv, ScanStart
  PROVE  TimelineInv'
<1>1. /\ UNCHANGED <<node, db, mem, pub>> /\ pass.pc = "start"
      /\ \/ pass.cursor # Absent /\ ToScan(pass.cursor + 1)
         \/ pass.cursor = Absent /\ ToScan(0)
         \/ WriteOrigin(FirstOriginBlock, TRUE, "scan", 0)
  <2> DEFINE cutoff == DepthCutoff(pass.head)
  <2>1. /\ UNCHANGED <<node, db, mem, pub>> /\ pass.pc = "start"
        /\ \/ pass.cursor # Absent /\ ToScan(pass.cursor + 1)
           \/ pass.cursor = Absent /\ ToScan(0)
           \/ WriteOrigin(FirstOriginBlock, TRUE, "scan", 0)
           \/ cutoff > 1
    BY DEF ScanStart
  <2>2. cutoff = 0
    BY GenesisCutoff
  <2>3. ~ (cutoff > 1)
    BY <2>2
  <2> HIDE DEF cutoff
  <2> QED
    BY <2>1, <2>3
<1>2. /\ ver' = ver /\ rows' = rows /\ pub' = pub /\ actions' = actions /\ ckpt' = ckpt /\ mem' = mem
  BY <1>1 DEF node, db
<1>3. pass.cursor \in Cursors /\ (Current => pass.cursor = ckpt.cursor)
  BY <1>1, InFlight DEF Carries
<1>4. ASSUME NEW from \in Starts, ToScan(from), from - 1 = pass.cursor PROVE TimelineInv'
  <2>1. pass'.pc = "scan" /\ pass'.from = from /\ pass'.gen = pass.gen
    BY <1>1, <1>4, Scans
  <2>2. Current' => ckpt.cursor = pass'.from - 1
    BY <1>2, <1>3, <1>4, <2>1 DEF Current
  <2> QED
    BY <1>2, <2>1, <2>2, SteadyKept, TimelinePass
<1>5. CASE pass.cursor # Absent /\ ToScan(pass.cursor + 1)
  <2>1. pass.cursor + 1 \in Starts /\ (pass.cursor + 1) - 1 = pass.cursor
    BY <1>3, <1>5 DEF Cursors, Starts, Absent, OwnerScanAssumption
  <2> QED
    BY <1>4, <1>5, <2>1
<1>6. CASE pass.cursor = Absent /\ ToScan(0)
  <2>1. 0 \in Starts /\ 0 - 1 = pass.cursor
    BY <1>6 DEF Starts, Absent, OwnerScanAssumption
  <2> QED
    BY <1>4, <1>6, <2>1
<1>7. CASE WriteOrigin(FirstOriginBlock, TRUE, "scan", 0)
  <2>1. FirstOriginBlock \in Heights
    BY DEF FirstOriginBlock, Heights, OwnerScanAssumption
  <2> QED
    BY <1>1, <1>7, <2>1, TimelineSamples DEF Carries
<1> QED
  BY <1>1, <1>5, <1>6, <1>7

LEMMA TimelineCommitOrigin ==
  ASSUME OwnerScanAssumption, Inv, TimelineInv, CommitOrigin
  PROVE  TimelineInv'
<1>1. /\ ver' = ver /\ rows' = rows /\ pub' = pub /\ actions' = actions /\ mem' = mem
      /\ pass.pc = "origin"
  BY DEF CommitOrigin, node
<1>2. CASE Current
  <2> DEFINE to == IF pass.origin = NoOrigin THEN "publish" ELSE "load"
  <2>1. ckpt' = [ckpt EXCEPT !.origin = pass.origin] /\ pass' = [pass EXCEPT !.pc = to]
    BY <1>2 DEF CommitOrigin
  <2>2. to \in {"load", "publish"}
    OBVIOUS
  <2> HIDE DEF to
  <2>3. pass \in Sampling /\ ckpt \in Checkpoints
    BY <1>1, InFlight, PassAt DEF Inv, Base, TypeInv
  <2>4. ckpt'.cursor = ckpt.cursor /\ pass'.pc = to /\ pass'.read = pass.read /\ pass'.then = pass.then
        /\ pass'.from = pass.from
    BY <2>1, <2>3 DEF Sampling, Checkpoints
  <2> QED
    BY <1>1, <2>2, <2>4, SteadyKept, TimelineStep DEF TimelineInv
<1>3. CASE ~ Current
  <2>1. ckpt' = ckpt /\ pass'.pc = "idle"
    BY <1>3 DEF CommitOrigin, Stop, Idle
  <2> QED
    BY <1>1, <2>1, SteadyKept, TimelinePass
<1> QED
  BY <1>2, <1>3

LEMMA TimelineLoadSets ==
  ASSUME OwnerScanAssumption, Inv, TimelineInv, LoadSets
  PROVE  TimelineInv'
<1>1. /\ ver' = ver /\ rows' = rows /\ pub' = pub /\ actions' = actions /\ ckpt' = ckpt /\ mem' = mem
      /\ pass' = [pass EXCEPT !.pc = "publish", !.read = actions] /\ pass.pc = "load"
  BY DEF LoadSets, node, db
<1>2. pass \in Sampling
  BY <1>1, InFlight, PassAt
<1>3. pass'.pc = "publish" /\ pass'.read = actions /\ pass'.then = pass.then /\ pass'.from = pass.from
  BY <1>1, <1>2 DEF Sampling
<1> QED
  BY <1>1, <1>3, SteadyKept, TimelinePass DEF TimelineInv

LEMMA TimelinePublishOrigin ==
  ASSUME OwnerScanAssumption, Inv, TimelineInv, PublishOrigin
  PROVE  TimelineInv'
<1>1. /\ ver' = ver /\ rows' = rows /\ pub' = pub /\ actions' = actions /\ ckpt' = ckpt
      /\ mem'.through = mem.through /\ mem'.actions = pass.read /\ pass.pc = "publish"
      /\ pass.then = "extended" => ToStart
      /\ pass.then # "extended" => ToScan(pass.from)
  BY PublishOriginMemory DEF PublishOrigin, node, db
<1>2. Cached(pass.read, mem.through) /\ Recorded(actions, ckpt.cursor) /\ Cached(actions, mem.through)
  BY <1>1 DEF TimelineInv
<1>3. CASE pass.then = "extended"
  <2>1. pass'.pc = "start"
    BY <1>1, <1>3, StartOf
  <2> QED
    BY <1>1, <1>2, <2>1, SteadyKept, TimelineStep
<1>4. CASE pass.then # "extended"
  <2>1. pass.then = "scan" /\ pass.from = 0 /\ 0 \in Starts
    BY <1>1, <1>4, InFlight, PassAt DEF TimelineInv, Sampling, Starts, OwnerScanAssumption
  <2>2. pass'.pc = "scan" /\ pass'.from = 0 /\ pass'.gen = pass.gen
    BY <1>1, <1>4, <2>1, Scans
  <2>3. pass.cursor = Absent /\ (Current => pass.cursor = ckpt.cursor)
    BY <1>1, <2>1, InFlight DEF Inv, Base, CursorInv, Carries
  <2>4. Current' => ckpt.cursor = pass'.from - 1
    BY <1>1, <2>2, <2>3 DEF Current, Absent
  <2> QED
    BY <1>1, <1>2, <2>2, <2>4, SteadyKept, TimelineStep
<1> QED
  BY <1>3, <1>4

LEMMA TimelineFetchChunk ==
  ASSUME OwnerScanAssumption, Inv, TimelineInv, FetchChunk
  PROVE  TimelineInv'
<1>1. /\ ver' = ver /\ rows' = rows /\ pub' = pub /\ actions' = actions /\ ckpt' = ckpt /\ mem' = mem
      /\ pass.pc = "scan" /\ pass.from <= pass.head
      /\ pass'.pc = "store chunk" /\ pass'.gen = pass.gen /\ pass'.from = pass.from
      /\ pass'.to = ChunkEnd /\ pass'.logs = Logs(pass.from, ChunkEnd)
  BY DEF FetchChunk, node, db, FetchOwnerActions
<1>2. ChunkEnd \in Int /\ pass.from \in Int /\ ChunkEnd <= tip
  <2>1. ChunkEnd \in Heights /\ pass.from \in Nat /\ ChunkEnd <= tip
    BY <1>1, ChunkRange
  <2> QED
    BY <2>1 DEF Heights
<1>3. \A h \in Acting : pass.from <= h /\ h <= ChunkEnd => Canonical(h) \in Logs(pass.from, ChunkEnd)
  BY <1>2, LogsRead DEF Inv, Base
<1>4. Current' => Current
  BY <1>1 DEF Current
<1> QED
  BY <1>1, <1>3, <1>4, SteadyKept, TimelineStep DEF TimelineInv

LEMMA TimelineStoreChunk ==
  ASSUME OwnerScanAssumption, Inv, TimelineInv, ScanOwnerRange
  PROVE  TimelineInv'
<1>1. /\ ver' = ver /\ rows' = rows /\ pub' = pub /\ mem' = mem /\ pass.pc = "store chunk"
  BY DEF ScanOwnerRange, node
<1>2. CASE Current
  <2>1. /\ actions' = actions \cup pass.logs /\ ckpt' = [ckpt EXCEPT !.cursor = pass.to]
        /\ pass'.pc = "scan" /\ pass'.from = pass.to + 1
    <3>1. /\ actions' = actions \cup pass.logs /\ ckpt' = [ckpt EXCEPT !.cursor = pass.to]
          /\ pass' = [pc |-> "scan", gen |-> pass.gen, head |-> pass.head, from |-> pass.to + 1,
                      chunks |-> pass.chunks + 1]
      BY <1>2 DEF ScanOwnerRange, Checkpoint
    <3> QED
      BY <3>1
  <2>2. ckpt'.cursor = pass.to
    BY <2>1 DEF Inv, Base, TypeInv, Checkpoints
  <2>3. pass.to \in Nat /\ pass.from \in Nat /\ Acting \subseteq Nat /\ ckpt.cursor = pass.from - 1
    <3>1. pass.to \in Heights /\ pass.from \in Starts /\ Acting \subseteq Heights
      BY <1>1, InFlight, PassAt DEF ChunkRead, OwnerScanAssumption
    <3>2. ckpt.cursor = pass.from - 1
      BY <1>1, <1>2 DEF TimelineInv
    <3>3. pass.to \in Nat /\ pass.from \in Nat /\ Acting \subseteq Nat
      BY <3>1 DEF Heights, Starts
    <3> QED
      BY <3>2, <3>3
  <2>4. Recorded(actions', ckpt'.cursor)
    <3> SUFFICES ASSUME NEW h \in Acting, 1 <= h, h <= pass.to, Survives(h)
                 PROVE  Canonical(h) \in actions'
      BY <2>2 DEF Recorded
    <3>1. CASE h <= ckpt.cursor
      BY <2>1, <3>1 DEF TimelineInv, Recorded
    <3>2. CASE pass.from <= h
      BY <1>1, <1>2, <2>1, <3>2 DEF TimelineInv
    <3> QED
      BY <2>3, <3>1, <3>2
  <2>5. Cached(actions', mem.through) /\ Cached(mem.actions, mem.through)
    BY <2>1, RecordedMore DEF TimelineInv
  <2>6. ckpt'.cursor = pass'.from - 1
    BY <2>1, <2>2, <2>3
  <2> QED
    BY <1>1, <2>1, <2>4, <2>5, <2>6, SteadyKept, TimelineStep
<1>3. CASE ~ Current
  <2>1. actions' = actions /\ ckpt' = ckpt /\ pass' = Idle
    BY <1>3 DEF ScanOwnerRange, Stop
  <2>2. pass'.pc = "idle"
    BY <2>1 DEF Idle
  <2> QED
    BY <1>1, <2>1, <2>2, SteadyKept, TimelinePass
<1> QED
  BY <1>2, <1>3

LEMMA TimelineEnds ==
  ASSUME OwnerScanAssumption, Inv, TimelineInv, Complete
  PROVE  TimelineInv'
<1>1. /\ ver' = ver /\ rows' = rows /\ pub' = pub /\ actions' = actions /\ pass'.pc = "idle"
      /\ pass.pc = "scan" /\ pass.from > pass.head
  BY DEF Complete, node, Stop, Idle
<1>2. /\ mem'.actions = actions /\ ckpt'.cursor = ckpt.cursor
      /\ mem'.through = IF pass.head > mem.through /\ Current THEN pass.head ELSE mem.through
  BY CompleteMemory
<1>3. Recorded(actions, ckpt.cursor) /\ Cached(actions, mem.through)
  BY DEF TimelineInv
<1>4. Current => Cached(actions, pass.head)
  <2> SUFFICES ASSUME Current, NEW h \in Acting, h <= pass.head PROVE h <= ckpt.cursor
    BY <1>3 DEF Recorded, Cached
  <2>1. pass.from \in Starts /\ pass.head \in Heights
    BY <1>1, InFlight, PassAt DEF Scanning
  <2>2. pass.from \in Nat /\ pass.head \in Nat /\ h \in Nat
    <3>1. h \in Heights
      BY DEF OwnerScanAssumption
    <3> QED
      BY <2>1, <3>1 DEF Starts, Heights
  <2>3. ckpt.cursor = pass.from - 1
    BY <1>1 DEF TimelineInv
  <2> QED
    BY <1>1, <2>2, <2>3
<1>5. Cached(actions, mem'.through)
  BY <1>2, <1>3, <1>4
<1> QED
  BY <1>1, <1>2, <1>3, <1>5, SteadyKept, TimelineStep

LEMMA TimelineInit ==
  ASSUME OwnerScanAssumption, Init
  PROVE  TimelineInv
<1>1. Acting \subseteq Nat
  BY DEF OwnerScanAssumption, Heights
<1> QED
  BY <1>1 DEF Init, Idle, Absent, TimelineInv, Recorded, Cached

LEMMA TimelineNext ==
  ASSUME OwnerScanAssumption, FromGenesis, Inv, TimelineInv, [Next]_vars
  PROVE  TimelineInv'
<1>1. CASE ReadGeneration \/ ReadCursor
  <2>1. UNCHANGED <<node, db, mem, pub>> /\ pass'.pc \in {"read", "extend"}
    BY <1>1 DEF ReadGeneration, ReadCursor
  <2> QED
    BY <2>1, TimelineQuiet
<1>2. CASE Yield \/ Fails
  <2>1. UNCHANGED <<node, db, mem, pub>> /\ pass'.pc = "idle"
    BY <1>2 DEF Yield, Fails, Stop, Idle
  <2> QED
    BY <2>1, TimelineQuiet
<1>3. CASE \/ ExtendScanOrigin \/ FetchFloor \/ ScanOwnerFloor \/ ScanStart \/ CommitOrigin \/ LoadSets
           \/ PublishOrigin \/ FetchChunk \/ ScanOwnerRange \/ Complete
  BY <1>3, TimelineExtend, TimelineFloor, TimelineStoreFloor, TimelineScanStart, TimelineCommitOrigin,
     TimelineLoadSets, TimelinePublishOrigin, TimelineFetchChunk, TimelineStoreChunk, TimelineEnds
<1>4. CASE Fast
  BY <1>4, TimelineTick, TimelineRewind, TimelinePublishRewind DEF Fast
<1>5. CASE Mint \/ (\E k \in Forks : Reorg(k))
  BY <1>5, TimelineNode
<1>6. CASE \E d \in Depths, epoch \in BOOLEAN : Restart(d, epoch)
  BY <1>6, TimelineRestart
<1>7. CASE UNCHANGED vars
  <2>1. /\ ver' = ver /\ rows' = rows /\ actions' = actions /\ ckpt' = ckpt /\ mem' = mem /\ pub' = pub
        /\ pass' = pass
    BY <1>7 DEF vars
  <2> QED
    BY <2>1, SteadyKept, TimelineSame
<1> QED
  BY <1>1, <1>2, <1>3, <1>4, <1>5, <1>6, <1>7 DEF Next, Slow

LEMMA TimelineHolds ==
  ASSUME OwnerScanAssumption, Inv, TimelineInv
  PROVE  TimelineComplete /\ CacheComplete
<1>1. TimelineComplete
  <2> SUFFICES ASSUME Quiet, NEW h \in 1 .. ckpt.through, h \in Acting
               PROVE  Canonical(h) \in actions
    BY DEF TimelineComplete, Covers
  <2>1. Survives(h) /\ Recorded(actions, ckpt.cursor)
    BY DEF Quiet, Survives, TimelineInv
  <2>2. ckpt.cursor \in Int /\ ckpt.through \in Nat /\ ckpt.through <= Greater(ckpt.cursor, 0)
    <3>1. ckpt.cursor \in Cursors /\ ckpt.through \in Heights /\ ckpt.through <= Greater(ckpt.cursor, 0)
      BY Typed DEF Inv, Base, CursorInv
    <3> QED
      BY <3>1 DEF Cursors, Heights, OwnerScanAssumption
  <2>3. 1 <= h /\ h <= ckpt.cursor
    BY <2>2 DEF Greater
  <2> QED
    BY <2>1, <2>3 DEF Recorded
<1>2. CacheComplete
  <2> SUFFICES ASSUME Quiet, NEW h \in 1 .. mem.through, h \in Acting
               PROVE  Canonical(h) \in mem.actions
    BY DEF CacheComplete, Covers
  <2>1. Survives(h) /\ Shown(h) /\ Cached(mem.actions, mem.through)
    BY DEF Quiet, Survives, Shown, TimelineInv
  <2>2. mem.through \in Nat
    BY Typed DEF Inv, Base
  <2>3. 1 <= h /\ h <= mem.through
    BY <2>2
  <2> QED
    BY <2>1, <2>3 DEF Cached
<1> QED
  BY <1>1, <1>2

(* A chain scanned from the genesis: the owner-action timeline is complete *)
(* through owner_scan_through in the table and through what memory knows   *)
(* of it in the caches, whatever reorg, rewind, chunk, yield, fault and    *)
(* restart came between (scanOwnerRange, scanOwnerActions,                 *)
(* rewindToAncestor): the invariant adds that everything up to the cursor  *)
(* is recorded.                                                            *)
THEOREM TimelineKnown ==
  OwnerScanAssumption /\ FromGenesis => (Spec => []TimelineExact)
<1> SUFFICES ASSUME OwnerScanAssumption, FromGenesis PROVE Spec => []TimelineExact
  OBVIOUS
<1>1. Init => TimelineInv
  BY TimelineInit
<1>2. Inv /\ TimelineInv /\ [Next]_vars => TimelineInv'
  BY TimelineNext
<1>3. Inv /\ TimelineInv => TimelineExact
  BY TimelineHolds DEF TimelineExact
<1> QED
  BY <1>1, <1>2, <1>3, InvHolds, PTL DEF Spec

-----------------------------------------------------------------------------
(* No step of one loop between a commit of the other's and its publication. *)
Orderly == Overlap = FALSE

LEMMA AliveStep ==
  ASSUME Steady, Alive(actions'), AliveShown(mem'.actions),
         pass'.pc \in {"store floor", "store chunk"} /\ Current' => Alive(pass'.logs),
         pass'.pc = "origin" /\ Current' => Alive(pass'.read),
         pass'.pc \in {"load", "publish"} => Alive(pass'.read)
  PROVE  AliveInv'
<1>1. \A h \in Heights : Survives(h)' => Survives(h) /\ ver'[h] = ver[h]
  BY DEF Steady
<1>2. \A h : Shown(h)' <=> Shown(h)
  BY DEF Steady, Shown
<1>3. Alive(actions)'
  BY <1>1 DEF Alive
<1>4. AliveShown(mem.actions)'
  BY <1>1, <1>2 DEF AliveShown
<1>5. (pass.pc \in {"store floor", "store chunk"} /\ Current => Alive(pass.logs))'
  BY <1>1 DEF Alive
<1>6. (pass.pc = "origin" /\ Current => Alive(pass.read))'
  BY <1>1 DEF Alive
<1>7. (pass.pc \in {"load", "publish"} => Alive(pass.read))'
  BY <1>1 DEF Alive
<1> QED
  BY <1>3, <1>4, <1>5, <1>6, <1>7 DEF AliveInv

LEMMA AliveSame ==
  ASSUME AliveInv, Steady, actions' = actions, ckpt' = ckpt, mem' = mem, pass' = pass
  PROVE  AliveInv'
<1>1. Current' <=> Current
  BY DEF Current
<1> QED
  BY <1>1, AliveStep DEF AliveInv

(* A step that takes nothing in hand but the actions as they are. *)
LEMMA AliveQuiet ==
  ASSUME AliveInv, Steady, actions' = actions, mem'.actions = mem.actions,
         pass'.pc \notin {"store floor", "store chunk"},
         pass'.pc \in {"origin", "load", "publish"} => pass'.read = actions
  PROVE  AliveInv'
  BY AliveStep DEF AliveInv

LEMMA AliveBoth ==
  ASSUME NEW as, NEW bs, Alive(as), Alive(bs)
  PROVE  Alive(as \cup bs) /\ AliveShown(as)
  BY DEF Alive, AliveShown

LEMMA AliveNode ==
  ASSUME OwnerScanAssumption, Inv, AliveInv, Mint \/ (\E k \in Forks : Reorg(k))
  PROVE  AliveInv'
<1>1. actions' = actions /\ ckpt' = ckpt /\ mem' = mem /\ pass' = pass /\ pub' = pub /\ rows' = rows
  BY DEF Mint, Reorg, db
<1>2. Steady
  <2>1. CASE Mint
    BY <1>1, <2>1, SteadyKept DEF Mint
  <2>2. CASE \E k \in Forks : Reorg(k)
    BY <1>1, <2>2, ReorgSurvives DEF Steady
  <2> QED
    BY <2>1, <2>2
<1> QED
  BY <1>1, <1>2, AliveSame

LEMMA AliveTick ==
  ASSUME OwnerScanAssumption, Inv, AliveInv, NEW known \in BOOLEAN, Tick(known)
  PROVE  AliveInv'
<1> DEFINE new == IF known THEN Logs(Head + 1, tip) ELSE {}
<1>1. /\ ver' = ver /\ pub' = pub /\ ckpt' = ckpt /\ pass' = pass /\ actions' = actions \cup new
      /\ mem' = [mem EXCEPT !.head = tip, !.actions = IF known THEN actions' ELSE mem.actions]
  BY DEF Tick, node
<1>2. Steady
  <2>1. \A h : Survives(h)
    BY TickSettled
  <2> QED
    BY <1>1, <2>1 DEF Steady
<1>3. mem'.actions = actions' \/ mem'.actions = mem.actions
  <2> DEFINE as == IF known THEN actions' ELSE mem.actions
  <2>1. mem' = [mem EXCEPT !.head = tip, !.actions = as] /\ (as = actions' \/ as = mem.actions)
    BY <1>1
  <2>2. mem \in Memory
    BY DEF Inv, Base, TypeInv
  <2> HIDE DEF as
  <2> QED
    BY <2>1, <2>2 DEF Memory
<1>4. Alive(new)
  <2>1. Alive(Logs(Head + 1, tip))
    BY TickSettled, LogsRead, Typed DEF Inv, Base
  <2>2. Alive({})
    BY DEF Alive
  <2> QED
    BY <2>1, <2>2
<1> HIDE DEF new
<1>5. Alive(actions \cup new)
  BY <1>4, AliveBoth DEF AliveInv
<1>6. Alive(actions') /\ AliveShown(actions')
  BY <1>1, <1>5, AliveBoth
<1>7. Current' <=> Current
  BY <1>1 DEF Current
<1> QED
  BY <1>1, <1>2, <1>3, <1>6, <1>7, AliveStep DEF AliveInv

LEMMA AliveRewind ==
  ASSUME OwnerScanAssumption, Orderly, Inv, AliveInv, Rewind
  PROVE  AliveInv'
<1>1. /\ pass' = pass /\ mem' = mem /\ ver' = ver /\ (pass.pc # "idle" => ~ Current')
      /\ pass.pc \notin {"load", "publish"}
  BY StaleRewind DEF Rewind, Orderly
<1>2. \A h \in Heights : h <= RewindTo => Survives(h)
  BY RewindKeeps
<1>3. \A h : Shown(h) /\ (Shown(h)' <=> h <= RewindTo)
  BY RewindPublishes
<1>4. \A h, v : <<h, v>> \in actions' => <<h, v>> \in actions /\ h <= RewindTo
  BY RewindCheckpoints DEF Through
<1>5. Alive(actions)'
  BY <1>1, <1>2, <1>4 DEF AliveInv, Alive
<1>6. AliveShown(mem.actions)'
  BY <1>1, <1>2, <1>3 DEF AliveInv, AliveShown
<1> QED
  BY <1>1, <1>5, <1>6 DEF AliveInv

LEMMA AlivePublishRewind ==
  ASSUME OwnerScanAssumption, Inv, AliveInv, PublishRewind
  PROVE  AliveInv'
<1>1. /\ ver' = ver /\ rows' = rows /\ actions' = actions /\ ckpt' = ckpt /\ pass' = pass
      /\ mem'.actions = actions
  BY PublishMemory DEF PublishRewind, node, db
<1>2. \A h : Survives(h)' <=> Survives(h)
  BY <1>1, SurvivesKept
<1>3. Alive(actions)'
  BY <1>1, <1>2 DEF AliveInv, Alive
<1>4. AliveShown(mem.actions)'
  BY <1>1, <1>3 DEF Alive, AliveShown
<1>5. Current' <=> Current
  BY <1>1 DEF Current
<1>6. (pass.pc \in {"store floor", "store chunk"} /\ Current => Alive(pass.logs))'
  BY <1>1, <1>2, <1>5 DEF AliveInv, Alive
<1>7. (pass.pc = "origin" /\ Current => Alive(pass.read))'
  BY <1>1, <1>2, <1>5 DEF AliveInv, Alive
<1>8. (pass.pc \in {"load", "publish"} => Alive(pass.read))'
  BY <1>1, <1>2 DEF AliveInv, Alive
<1> QED
  BY <1>3, <1>4, <1>6, <1>7, <1>8 DEF AliveInv

LEMMA AliveRestart ==
  ASSUME OwnerScanAssumption, Inv, AliveInv, NEW d \in Depths, NEW epoch \in BOOLEAN, Restart(d, epoch)
  PROVE  AliveInv'
<1>1. /\ ver' = ver /\ rows' = rows /\ actions' = actions /\ pass' = Idle /\ mem'.actions = actions
  BY DEF Restart, node, LoadScanState
<1>2. \A h : Survives(h)' <=> Survives(h)
  BY <1>1, SurvivesKept
<1>3. Alive(actions)'
  BY <1>1, <1>2 DEF AliveInv, Alive
<1>4. AliveShown(mem.actions)'
  BY <1>1, <1>3 DEF Alive, AliveShown
<1>5. pass'.pc = "idle"
  BY <1>1 DEF Idle
<1> QED
  BY <1>3, <1>4, <1>5 DEF AliveInv

LEMMA AliveFetch ==
  ASSUME OwnerScanAssumption, Inv, AliveInv, UNCHANGED <<node, db, mem, pub>>,
         pass'.pc \in {"store floor", "store chunk"}, Alive(pass'.logs)
  PROVE  AliveInv'
<1>1. /\ ver' = ver /\ rows' = rows /\ pub' = pub /\ actions' = actions /\ mem' = mem
  BY DEF node, db
<1> QED
  BY <1>1, SteadyKept, AliveStep DEF AliveInv

LEMMA AliveStore ==
  ASSUME AliveInv, pass.pc \in {"store floor", "store chunk"}, Current, ver' = ver, rows' = rows,
         pub' = pub, mem' = mem, actions' = actions \cup pass.logs, pass'.pc \in {"floor", "scan"}
  PROVE  AliveInv'
<1>1. Alive(actions')
  BY AliveBoth DEF AliveInv
<1> QED
  BY <1>1, SteadyKept, AliveStep DEF AliveInv

(* The steps of a pass. *)
LEMMA AliveWrites ==
  ASSUME OwnerScanAssumption, Inv, AliveInv, UNCHANGED <<node, db, mem, pub>>, Carries,
         NEW cutoff \in Heights, NEW only \in BOOLEAN, NEW then \in {"extended", "scan"}, NEW from \in Starts,
         WriteOrigin(cutoff, only, then, from)
  PROVE  AliveInv'
<1>1. /\ ver' = ver /\ rows' = rows /\ pub' = pub /\ actions' = actions /\ mem' = mem
  BY DEF node, db
<1>2. pass'.pc = "origin" /\ pass'.read = actions
  BY Samples
<1> QED
  BY <1>1, <1>2, SteadyKept, AliveQuiet

LEMMA AliveExtend ==
  ASSUME OwnerScanAssumption, Inv, AliveInv, ExtendScanOrigin
  PROVE  AliveInv'
<1> DEFINE cutoff == DepthCutoff(pass.head)
           target == Greater(cutoff, FirstOriginBlock)
<1>1. /\ UNCHANGED <<node, db, pub>> /\ pass.pc = "extend"
      /\ \/ ToStart /\ UNCHANGED mem
         \/ ToStart /\ MarkScanExtended
         \/ WriteOrigin(FirstOriginBlock, TRUE, "extended", 0) /\ UNCHANGED mem
         \/ ActionsFirst(cutoff, target) /\ UNCHANGED mem
  BY DEF ExtendScanOrigin
<1>2. ver' = ver /\ rows' = rows /\ pub' = pub /\ actions' = actions
  BY <1>1 DEF node, db
<1>3. CASE ToStart /\ UNCHANGED mem
  BY <1>1, <1>2, <1>3, StartOf, SteadyKept, AliveQuiet
<1>4. CASE ToStart /\ MarkScanExtended
  <2>1. mem'.actions = mem.actions
    BY <1>4 DEF MarkScanExtended, Inv, Base, TypeInv, Memory
  <2>2. pass'.pc = "start"
    BY <1>1, <1>4, StartOf
  <2> QED
    BY <1>2, <2>1, <2>2, SteadyKept, AliveQuiet
<1>5. CASE WriteOrigin(FirstOriginBlock, TRUE, "extended", 0) /\ UNCHANGED mem
  <2>1. FirstOriginBlock \in Heights /\ 0 \in Starts
    BY <1>1, LowerTarget DEF Starts, OwnerScanAssumption
  <2> QED
    BY <1>1, <1>5, <2>1, AliveWrites DEF Carries
<1>6. CASE ActionsFirst(cutoff, target) /\ UNCHANGED mem
  <2>1. pass'.pc = "floor"
    BY <1>6 DEF ActionsFirst
  <2> QED
    BY <1>1, <1>2, <1>6, <2>1, SteadyKept, AliveQuiet
<1> QED
  BY <1>1, <1>3, <1>4, <1>5, <1>6

LEMMA AliveFloor ==
  ASSUME OwnerScanAssumption, Inv, AliveInv, FetchFloor
  PROVE  AliveInv'
<1>1. UNCHANGED <<node, db, mem, pub>> /\ pass.pc = "floor"
  BY DEF FetchFloor
<1>2. CASE WriteOrigin(pass.target, pass.target = FirstOriginBlock, "extended", 0)
  <2>1. pass.target \in Heights /\ (pass.target = FirstOriginBlock) \in BOOLEAN /\ 0 \in Starts
    BY <1>1, InFlight, PassAt DEF Flooring, Starts, OwnerScanAssumption
  <2> QED
    BY <1>1, <1>2, <2>1, AliveWrites DEF Carries
<1>3. CASE /\ pass.from <= pass.origin.block
           /\ pass' = [pc |-> "store floor", gen |-> pass.gen, head |-> pass.head, cursor |-> pass.cursor,
                       origin |-> pass.origin, from |-> pass.from, target |-> pass.target,
                       to |-> FloorEnd, logs |-> FetchOwnerActions(FloorEnd)]
  <2>1. FloorEnd \in Heights /\ pass.from \in Nat
    BY <1>1, <1>3, FloorRange
  <2>2. FloorEnd \in Int /\ pass.from \in Int
    BY <2>1 DEF Heights
  <2>3. Alive(Logs(pass.from, FloorEnd))
    BY <2>2, LogsRead DEF Inv, Base
  <2>4. pass'.pc = "store floor" /\ pass'.logs = Logs(pass.from, FloorEnd)
    BY <1>3 DEF FetchOwnerActions
  <2> QED
    BY <1>1, <2>3, <2>4, AliveFetch
<1> QED
  BY <1>2, <1>3 DEF FetchFloor

LEMMA AliveStoreFloor ==
  ASSUME OwnerScanAssumption, Inv, AliveInv, ScanOwnerFloor
  PROVE  AliveInv'
<1>1. ver' = ver /\ rows' = rows /\ pub' = pub /\ mem' = mem /\ pass.pc = "store floor"
  BY DEF ScanOwnerFloor, node
<1>2. CASE Current
  <2>1. /\ actions' = actions \cup pass.logs
        /\ pass' = [pc |-> "floor", gen |-> pass.gen, head |-> pass.head, cursor |-> pass.cursor,
                    origin |-> pass.origin, from |-> pass.to + 1, target |-> pass.target]
    BY <1>2 DEF ScanOwnerFloor
  <2>2. pass'.pc = "floor"
    BY <2>1
  <2> QED
    BY <1>1, <1>2, <2>1, <2>2, AliveStore
<1>3. CASE ~ Current
  <2>1. pass' = Idle /\ actions' = actions
    BY <1>3 DEF ScanOwnerFloor, Stop
  <2>2. pass'.pc = "idle"
    BY <2>1 DEF Idle
  <2> QED
    BY <1>1, <2>1, <2>2, SteadyKept, AliveQuiet
<1> QED
  BY <1>2, <1>3

LEMMA AliveScanStart ==
  ASSUME OwnerScanAssumption, Inv, AliveInv, ScanStart
  PROVE  AliveInv'
<1> DEFINE cutoff == DepthCutoff(pass.head)
<1>1. /\ UNCHANGED <<node, db, mem, pub>> /\ pass.pc = "start"
      /\ \/ pass.cursor # Absent /\ ToScan(pass.cursor + 1)
         \/ ToScan(0)
         \/ WriteOrigin(FirstOriginBlock, TRUE, "scan", 0)
         \/ ToScan(cutoff)
         \/ WriteOrigin(cutoff, FALSE, "scan", cutoff)
  BY DEF ScanStart
<1>2. ver' = ver /\ rows' = rows /\ pub' = pub /\ actions' = actions /\ mem' = mem
  BY <1>1 DEF node, db
<1>3. FirstOriginBlock \in Heights /\ 0 \in Starts /\ cutoff \in Heights /\ cutoff \in Starts
  <2>1. cutoff \in Heights
    BY <1>1, InFlight, CutoffBounds DEF Headed, Inv, Base
  <2> QED
    BY <2>1 DEF Heights, Starts, FirstOriginBlock, OwnerScanAssumption
<1> HIDE DEF cutoff
<1>4. ASSUME NEW from, ToScan(from) PROVE AliveInv'
  <2>1. pass'.pc = "scan"
    BY <1>4 DEF ToScan
  <2> QED
    BY <1>2, <2>1, SteadyKept, AliveQuiet
<1>5. CASE \E only \in BOOLEAN, from \in Starts, at \in Heights : WriteOrigin(at, only, "scan", from)
  BY <1>1, <1>5, AliveWrites DEF Carries
<1> QED
  BY <1>1, <1>3, <1>4, <1>5

LEMMA AliveCommitOrigin ==
  ASSUME OwnerScanAssumption, Inv, AliveInv, CommitOrigin
  PROVE  AliveInv'
<1>1. /\ ver' = ver /\ rows' = rows /\ pub' = pub /\ actions' = actions /\ mem' = mem
      /\ pass.pc = "origin"
  BY DEF CommitOrigin, node
<1>2. CASE Current
  <2> DEFINE to == IF pass.origin = NoOrigin THEN "publish" ELSE "load"
  <2>1. pass' = [pass EXCEPT !.pc = to]
    BY <1>2 DEF CommitOrigin
  <2>2. to \in {"load", "publish"}
    OBVIOUS
  <2> HIDE DEF to
  <2>3. pass \in Sampling
    BY <1>1, InFlight, PassAt
  <2>4. pass'.pc = to /\ pass'.read = pass.read
    BY <2>1, <2>3 DEF Sampling
  <2>5. Alive(pass'.read) /\ Alive(actions)
    BY <1>1, <1>2, <2>4 DEF AliveInv
  <2> QED
    BY <1>1, <2>2, <2>4, <2>5, SteadyKept, AliveStep DEF AliveInv
<1>3. CASE ~ Current
  <2>1. pass' = Idle
    BY <1>3 DEF CommitOrigin, Stop
  <2>2. pass'.pc = "idle"
    BY <2>1 DEF Idle
  <2> QED
    BY <1>1, <2>2, SteadyKept, AliveQuiet
<1> QED
  BY <1>2, <1>3

LEMMA AliveLoadSets ==
  ASSUME OwnerScanAssumption, Inv, AliveInv, LoadSets
  PROVE  AliveInv'
<1>1. /\ ver' = ver /\ rows' = rows /\ pub' = pub /\ actions' = actions /\ mem' = mem
      /\ pass' = [pass EXCEPT !.pc = "publish", !.read = actions] /\ pass.pc = "load"
  BY DEF LoadSets, node, db
<1>2. pass \in Sampling
  BY <1>1, InFlight, PassAt
<1>3. pass'.pc = "publish" /\ pass'.read = actions
  BY <1>1, <1>2 DEF Sampling
<1> QED
  BY <1>1, <1>3, SteadyKept, AliveQuiet

LEMMA AlivePublishOrigin ==
  ASSUME OwnerScanAssumption, Inv, AliveInv, PublishOrigin
  PROVE  AliveInv'
<1>1. /\ ver' = ver /\ rows' = rows /\ pub' = pub /\ actions' = actions
      /\ mem'.actions = pass.read /\ pass.pc = "publish"
      /\ ToStart \/ ToScan(pass.from)
  BY PublishOriginMemory DEF PublishOrigin, node, db
<1>2. Alive(pass.read) /\ Alive(actions)
  BY <1>1 DEF AliveInv
<1>3. AliveShown(pass.read)
  BY <1>2, AliveBoth
<1>4. pass'.pc \in {"start", "scan"}
  BY <1>1 DEF ToStart, ToScan
<1> QED
  BY <1>1, <1>2, <1>3, <1>4, SteadyKept, AliveStep

LEMMA AliveFetchChunk ==
  ASSUME OwnerScanAssumption, Inv, AliveInv, FetchChunk
  PROVE  AliveInv'
<1>1. /\ UNCHANGED <<node, db, mem, pub>> /\ pass.pc = "scan" /\ pass.from <= pass.head
      /\ pass'.pc = "store chunk" /\ pass'.logs = Logs(pass.from, ChunkEnd)
  BY DEF FetchChunk, FetchOwnerActions
<1>2. ChunkEnd \in Heights /\ pass.from \in Nat
  BY <1>1, ChunkRange
<1>3. ChunkEnd \in Int /\ pass.from \in Int
  BY <1>2 DEF Heights
<1>4. Alive(Logs(pass.from, ChunkEnd))
  BY <1>3, LogsRead DEF Inv, Base
<1> QED
  BY <1>1, <1>4, AliveFetch

LEMMA AliveStoreChunk ==
  ASSUME OwnerScanAssumption, Inv, AliveInv, ScanOwnerRange
  PROVE  AliveInv'
<1>1. ver' = ver /\ rows' = rows /\ pub' = pub /\ mem' = mem /\ pass.pc = "store chunk"
  BY DEF ScanOwnerRange, node
<1>2. CASE Current
  <2>1. /\ actions' = actions \cup pass.logs
        /\ pass' = [pc |-> "scan", gen |-> pass.gen, head |-> pass.head, from |-> pass.to + 1,
                    chunks |-> pass.chunks + 1]
    BY <1>2 DEF ScanOwnerRange
  <2>2. pass'.pc = "scan"
    BY <2>1
  <2> QED
    BY <1>1, <1>2, <2>1, <2>2, AliveStore
<1>3. CASE ~ Current
  <2>1. pass' = Idle /\ actions' = actions
    BY <1>3 DEF ScanOwnerRange, Stop
  <2>2. pass'.pc = "idle"
    BY <2>1 DEF Idle
  <2> QED
    BY <1>1, <2>1, <2>2, SteadyKept, AliveQuiet
<1> QED
  BY <1>2, <1>3

LEMMA AliveEnds ==
  ASSUME OwnerScanAssumption, Inv, AliveInv, Complete
  PROVE  AliveInv'
<1>1. /\ ver' = ver /\ rows' = rows /\ pub' = pub /\ actions' = actions /\ pass'.pc = "idle"
      /\ mem'.actions = actions
  BY CompleteMemory DEF Complete, node, Stop, Idle
<1>2. Alive(actions) /\ AliveShown(actions)
  BY AliveBoth DEF AliveInv
<1> QED
  BY <1>1, <1>2, SteadyKept, AliveStep

LEMMA AliveNext ==
  ASSUME OwnerScanAssumption, Orderly, Inv, AliveInv, [Next]_vars
  PROVE  AliveInv'
<1>1. CASE ReadGeneration \/ ReadCursor \/ Yield \/ Fails
  <2>1. /\ UNCHANGED <<node, db, mem, pub>> /\ pass'.pc \in {"read", "extend", "idle"}
    BY <1>1 DEF ReadGeneration, ReadCursor, Yield, Fails, Stop, Idle
  <2>2. ver' = ver /\ rows' = rows /\ pub' = pub /\ actions' = actions /\ mem' = mem
    BY <2>1 DEF node, db
  <2> QED
    BY <2>1, <2>2, SteadyKept, AliveQuiet
<1>2. CASE \/ ExtendScanOrigin \/ FetchFloor \/ ScanOwnerFloor \/ ScanStart \/ CommitOrigin \/ LoadSets
           \/ PublishOrigin \/ FetchChunk \/ ScanOwnerRange \/ Complete
  BY <1>2, AliveExtend, AliveFloor, AliveStoreFloor, AliveScanStart, AliveCommitOrigin,
     AliveLoadSets, AlivePublishOrigin, AliveFetchChunk, AliveStoreChunk, AliveEnds
<1>3. CASE Fast
  BY <1>3, AliveTick, AliveRewind, AlivePublishRewind DEF Fast
<1>4. CASE Mint \/ (\E k \in Forks : Reorg(k))
  BY <1>4, AliveNode
<1>5. CASE \E d \in Depths, epoch \in BOOLEAN : Restart(d, epoch)
  BY <1>5, AliveRestart
<1>6. CASE UNCHANGED vars
  <2>1. /\ ver' = ver /\ rows' = rows /\ actions' = actions /\ ckpt' = ckpt /\ mem' = mem /\ pub' = pub
        /\ pass' = pass
    BY <1>6 DEF vars
  <2> QED
    BY <2>1, SteadyKept, AliveSame
<1> QED
  BY <1>1, <1>2, <1>3, <1>4, <1>5, <1>6 DEF Next, Slow

LEMMA AliveHolds ==
  ASSUME OwnerScanAssumption, Inv, AliveInv
  PROVE  NoDeadActions
<1> SUFFICES ASSUME Quiet, NEW a \in mem.actions PROVE a = Canonical(a[1])
  BY DEF NoDeadActions
<1>1. a \in Entries
  BY DEF Inv, Base, TypeInv, Memory
<1>2. PICK h \in Heights, v \in Versions : a = <<h, v>>
  BY <1>1 DEF Entries
<1>3. Survives(h) /\ Shown(h)
  BY DEF Quiet, Survives, Shown
<1>4. v = ver[h]
  BY <1>2, <1>3 DEF AliveInv, AliveShown
<1> QED
  BY <1>2, <1>4 DEF Canonical

-----------------------------------------------------------------------------
(* The origin of memory and the origin of the database.                    *)
LEMMA AgreeSame ==
  ASSUME AgreeInv, ckpt' = ckpt, mem'.origin = mem.origin, pass' = pass, pub' = pub
  PROVE  AgreeInv'
  BY DEF AgreeInv, Current

(* A step of a pass that is not about to publish, and does not sample.      *)
LEMMA AgreeQuiet ==
  ASSUME AgreeInv, ckpt'.origin = ckpt.origin, mem'.origin = mem.origin, pub' = pub,
         pass.pc \notin {"load", "publish"},
         pass'.pc \notin {"load", "publish", "extend", "floor", "store floor", "origin"}
  PROVE  AgreeInv'
  BY DEF AgreeInv

LEMMA AgreeSamples ==
  ASSUME OwnerScanAssumption, Inv, AgreeInv, UNCHANGED <<node, db, mem, pub>>, Carries,
         pass.pc \notin {"load", "publish"},
         NEW cutoff \in Heights, NEW only \in BOOLEAN, NEW then \in {"extended", "scan"}, NEW from \in Starts,
         WriteOrigin(cutoff, only, then, from),
         Current => ckpt.origin = NoOrigin \/ cutoff <= ckpt.origin.block
  PROVE  AgreeInv'
<1>1. ckpt' = ckpt /\ mem' = mem /\ pub' = pub
  BY DEF db
<1>2. pass'.pc = "origin" /\ pass'.gen = pass.gen
  BY Samples
<1>3. pass'.origin = NoOrigin \/ pass'.origin.block = cutoff
  <2>1. \/ pass'.origin = NoOrigin
        \/ pass'.origin = [block |-> cutoff, fork |-> IF Archive THEN ver[cutoff] ELSE 0,
                           archive |-> Archive]
    BY Samples
  <2> QED
    BY <2>1
<1>4. Current' <=> Current
  BY <1>1, <1>2 DEF Current
<1> QED
  BY <1>1, <1>2, <1>3, <1>4 DEF AgreeInv

LEMMA AgreeRewind ==
  ASSUME OwnerScanAssumption, Orderly, Inv, AgreeInv, Rewind
  PROVE  AgreeInv'
<1>1. /\ pass' = pass /\ mem' = mem /\ (pass.pc # "idle" => ~ Current')
      /\ pass.pc \notin {"load", "publish"}
  BY StaleRewind DEF Rewind, Orderly
<1>2. pub = NoRewind /\ pub' # NoRewind
  BY RewindPublishes
<1>3. mem.origin = ckpt.origin
  BY <1>1, <1>2 DEF AgreeInv
<1>4. ckpt'.origin = IF pub'.reset THEN NoOrigin ELSE mem.origin
  BY <1>3, RewindCheckpoints
<1> QED
  BY <1>1, <1>2, <1>4 DEF AgreeInv

LEMMA AgreePublishRewind ==
  ASSUME OwnerScanAssumption, Inv, AgreeInv, PublishRewind
  PROVE  AgreeInv'
<1>1. /\ ckpt' = ckpt /\ pass' = pass /\ pub # NoRewind /\ pub' = NoRewind
      /\ mem'.origin = IF pub.reset THEN NoOrigin ELSE mem.origin
  BY PublishMemory DEF PublishRewind, db
<1> QED
  BY <1>1 DEF AgreeInv, Current

LEMMA AgreeTick ==
  ASSUME Inv, AgreeInv, NEW known \in BOOLEAN, Tick(known)
  PROVE  AgreeInv'
<1>1. /\ ckpt' = ckpt /\ pass' = pass /\ pub' = pub
      /\ mem' = [mem EXCEPT !.head = tip, !.actions = IF known THEN actions' ELSE mem.actions]
  BY DEF Tick
<1>2. mem'.origin = mem.origin
  <2> DEFINE as == IF known THEN actions' ELSE mem.actions
  <2>1. mem' = [mem EXCEPT !.head = tip, !.actions = as] /\ mem \in Memory
    BY <1>1 DEF Inv, Base, TypeInv
  <2> HIDE DEF as
  <2> QED
    BY <2>1 DEF Memory
<1> QED
  BY <1>1, <1>2, AgreeSame

LEMMA AgreeRestart ==
  ASSUME AgreeInv, NEW d \in Depths, NEW epoch \in BOOLEAN, Restart(d, epoch)
  PROVE  AgreeInv'
<1>1. pass' = Idle /\ pub' = NoRewind /\ mem'.origin = ckpt'.origin
  BY DEF Restart, LoadScanState
<1>2. pass'.pc = "idle"
  BY <1>1 DEF Idle
<1> QED
  BY <1>1, <1>2 DEF AgreeInv

LEMMA AgreeReadCursor ==
  ASSUME Orderly, AgreeInv, ReadCursor
  PROVE  AgreeInv'
<1>1. /\ ckpt' = ckpt /\ mem' = mem /\ pub' = pub /\ pub = NoRewind /\ pass.pc = "read"
      /\ pass'.pc = "extend" /\ pass'.origin = mem.origin
  BY DEF ReadCursor, db, Turn, Orderly
<1> QED
  BY <1>1 DEF AgreeInv

LEMMA AgreeExtend ==
  ASSUME OwnerScanAssumption, Inv, AgreeInv, ExtendScanOrigin
  PROVE  AgreeInv'
<1> DEFINE cutoff == DepthCutoff(pass.head)
           target == Greater(cutoff, FirstOriginBlock)
<1>1. /\ UNCHANGED <<node, db, pub>> /\ pass.pc = "extend"
      /\ \/ ToStart /\ UNCHANGED mem
         \/ ToStart /\ MarkScanExtended
         \/ /\ pass.origin = NoOrigin /\ WriteOrigin(FirstOriginBlock, TRUE, "extended", 0)
            /\ UNCHANGED mem
         \/ /\ pass.origin # NoOrigin /\ ~ (target >= pass.origin.block)
            /\ ActionsFirst(cutoff, target) /\ UNCHANGED mem
  BY DEF ExtendScanOrigin
<1>2. ckpt' = ckpt /\ pub' = pub
  BY <1>1 DEF db
<1>3. CASE ToStart /\ (UNCHANGED mem \/ MarkScanExtended)
  <2>1. mem'.origin = mem.origin
    BY <1>3 DEF MarkScanExtended, Inv, Base, TypeInv, Memory
  <2>2. pass'.pc = "start"
    BY <1>1, <1>3, StartOf
  <2> QED
    BY <1>1, <1>2, <2>1, <2>2, AgreeQuiet
<1>4. CASE pass.origin = NoOrigin /\ WriteOrigin(FirstOriginBlock, TRUE, "extended", 0) /\ UNCHANGED mem
  <2>1. FirstOriginBlock \in Heights /\ 0 \in Starts
    BY <1>1, LowerTarget DEF Starts, OwnerScanAssumption
  <2>2. Current => ckpt.origin = NoOrigin
    BY <1>1, <1>4 DEF AgreeInv
  <2> QED
    BY <1>1, <1>4, <2>1, <2>2, AgreeSamples DEF Carries
<1>5. CASE ~ (target >= pass.origin.block) /\ ActionsFirst(cutoff, target) /\ UNCHANGED mem
  <2> HIDE DEF cutoff, target
  <2>1. pass' = [pc |-> "floor", gen |-> pass.gen, head |-> pass.head, cursor |-> pass.cursor,
                 origin |-> pass.origin, from |-> cutoff, target |-> target]
    BY <1>5 DEF ActionsFirst
  <2>2. pass'.pc = "floor" /\ pass'.gen = pass.gen /\ pass'.origin = pass.origin /\ pass'.target = target
    BY <2>1
  <2>3. target <= pass.origin.block
    <3>1. target \in Heights
      BY <1>1, LowerTarget DEF target, cutoff
    <3>2. pass.origin.block \in Heights
      BY <1>1, InFlight, PassAt DEF Extending, Origins
    <3> QED
      BY <1>5, <3>1, <3>2 DEF Heights
  <2>4. Current' <=> Current
    BY <1>2, <2>2 DEF Current
  <2> QED
    BY <1>1, <1>2, <1>5, <2>2, <2>3, <2>4 DEF AgreeInv
<1> QED
  BY <1>1, <1>3, <1>4, <1>5

LEMMA AgreeFloor ==
  ASSUME OwnerScanAssumption, Inv, AgreeInv, FetchFloor
  PROVE  AgreeInv'
<1>1. UNCHANGED <<node, db, mem, pub>> /\ pass.pc = "floor"
  BY DEF FetchFloor
<1>2. CASE WriteOrigin(pass.target, pass.target = FirstOriginBlock, "extended", 0)
  <2>1. pass.target \in Heights /\ (pass.target = FirstOriginBlock) \in BOOLEAN /\ 0 \in Starts
    BY <1>1, InFlight, PassAt DEF Flooring, Starts, OwnerScanAssumption
  <2>2. Current => pass.target <= ckpt.origin.block
    BY <1>1 DEF AgreeInv
  <2> QED
    BY <1>1, <1>2, <2>1, <2>2, AgreeSamples DEF Carries
<1>3. CASE pass' = [pc |-> "store floor", gen |-> pass.gen, head |-> pass.head, cursor |-> pass.cursor,
                    origin |-> pass.origin, from |-> pass.from, target |-> pass.target,
                    to |-> FloorEnd, logs |-> FetchOwnerActions(FloorEnd)]
  <2>1. pass'.pc = "store floor" /\ pass'.gen = pass.gen /\ pass'.origin = pass.origin
        /\ pass'.target = pass.target
    BY <1>3
  <2>2. ckpt' = ckpt /\ mem' = mem /\ pub' = pub
    BY <1>1 DEF db
  <2>3. Current' <=> Current
    BY <2>1, <2>2 DEF Current
  <2> QED
    BY <1>1, <2>1, <2>2, <2>3 DEF AgreeInv
<1> QED
  BY <1>2, <1>3 DEF FetchFloor

LEMMA AgreeStoreFloor ==
  ASSUME AgreeInv, ScanOwnerFloor
  PROVE  AgreeInv'
<1>1. ckpt' = ckpt /\ mem' = mem /\ pub' = pub /\ pass.pc = "store floor"
  BY DEF ScanOwnerFloor
<1>2. CASE Current
  <2>1. pass' = [pc |-> "floor", gen |-> pass.gen, head |-> pass.head, cursor |-> pass.cursor,
                 origin |-> pass.origin, from |-> pass.to + 1, target |-> pass.target]
    BY <1>2 DEF ScanOwnerFloor
  <2>2. pass'.pc = "floor" /\ pass'.gen = pass.gen /\ pass'.origin = pass.origin
        /\ pass'.target = pass.target
    BY <2>1
  <2>3. Current' <=> Current
    BY <1>1, <2>2 DEF Current
  <2> QED
    BY <1>1, <2>2, <2>3 DEF AgreeInv
<1>3. CASE ~ Current
  <2>1. pass' = Idle
    BY <1>3 DEF ScanOwnerFloor, Stop
  <2>2. pass'.pc = "idle"
    BY <2>1 DEF Idle
  <2> QED
    BY <1>1, <2>2, AgreeQuiet
<1> QED
  BY <1>2, <1>3

LEMMA AgreeScanStart ==
  ASSUME OwnerScanAssumption, Orderly, Inv, AgreeInv, ScanStart
  PROVE  AgreeInv'
<1> DEFINE cutoff == DepthCutoff(pass.head)
<1>1. /\ UNCHANGED <<node, db, mem, pub>> /\ pass.pc = "start" /\ pub = NoRewind
      /\ \/ pass.cursor # Absent /\ ToScan(pass.cursor + 1)
         \/ ToScan(0)
         \/ ~ Known /\ WriteOrigin(FirstOriginBlock, TRUE, "scan", 0)
         \/ ToScan(cutoff)
         \/ ~ Known /\ WriteOrigin(cutoff, FALSE, "scan", cutoff)
  BY DEF ScanStart, Turn, Orderly
<1>2. ckpt' = ckpt /\ mem' = mem /\ pub' = pub
  BY <1>1 DEF db
<1>3. FirstOriginBlock \in Heights /\ 0 \in Starts /\ cutoff \in Heights /\ cutoff \in Starts
  <2>1. cutoff \in Heights
    BY <1>1, InFlight, CutoffBounds DEF Headed, Inv, Base
  <2> QED
    BY <2>1 DEF Heights, Starts, FirstOriginBlock, OwnerScanAssumption
<1> HIDE DEF cutoff
<1>4. ASSUME NEW from, ToScan(from) PROVE AgreeInv'
  <2>1. pass'.pc = "scan"
    BY <1>4 DEF ToScan
  <2> QED
    BY <1>1, <1>2, <2>1, AgreeQuiet
<1>5. CASE /\ ~ Known
           /\ \E only \in BOOLEAN, from \in Starts, at \in Heights : WriteOrigin(at, only, "scan", from)
  <2>1. ckpt.origin = NoOrigin
    BY <1>1, <1>5 DEF AgreeInv, Known
  <2> QED
    BY <1>1, <1>5, <2>1, AgreeSamples DEF Carries
<1> QED
  BY <1>1, <1>3, <1>4, <1>5

(* The commit of an origin, and what it does to the one there was. *)
LEMMA AgreeCommitOrigin ==
  ASSUME OwnerScanAssumption, Orderly, Inv, AgreeInv, CommitOrigin
  PROVE  AgreeInv' /\ OriginStep
<1>1. mem' = mem /\ pub' = pub /\ pub = NoRewind /\ pass.pc = "origin"
  BY DEF CommitOrigin, Turn, Orderly
<1>2. CASE Current
  <2> DEFINE to == IF pass.origin = NoOrigin THEN "publish" ELSE "load"
  <2>1. ckpt' = [ckpt EXCEPT !.origin = pass.origin] /\ pass' = [pass EXCEPT !.pc = to]
    BY <1>2 DEF CommitOrigin
  <2>2. to \in {"load", "publish"}
    OBVIOUS
  <2> HIDE DEF to
  <2>3. pass \in Sampling /\ ckpt \in Checkpoints
    BY <1>1, InFlight, PassAt DEF Inv, Base, TypeInv
  <2>4. ckpt'.origin = pass.origin /\ pass'.pc = to /\ pass'.origin = pass.origin
    BY <2>1, <2>3 DEF Sampling, Checkpoints
  <2>5. AgreeInv'
    BY <1>1, <2>2, <2>4 DEF AgreeInv
  <2>6. OriginStep
    BY <1>1, <1>2, <2>4 DEF AgreeInv, OriginStep
  <2> QED
    BY <2>5, <2>6
<1>3. CASE ~ Current
  <2>1. pass' = Idle /\ ckpt' = ckpt
    BY <1>3 DEF CommitOrigin, Stop
  <2>2. pass'.pc = "idle"
    BY <2>1 DEF Idle
  <2>3. ckpt.origin \in Origins
    BY Typed DEF Inv, Base
  <2>4. ckpt.origin.block <= ckpt.origin.block
    BY <2>3, Typed DEF Inv, Base, Origins
  <2> QED
    BY <1>1, <2>1, <2>2, <2>4, AgreeQuiet DEF OriginStep
<1> QED
  BY <1>2, <1>3

LEMMA AgreeLoadSets ==
  ASSUME OwnerScanAssumption, Inv, AgreeInv, LoadSets
  PROVE  AgreeInv'
<1>1. /\ ckpt' = ckpt /\ mem' = mem /\ pub' = pub
      /\ pass' = [pass EXCEPT !.pc = "publish", !.read = actions] /\ pass.pc = "load"
  BY DEF LoadSets, db
<1>2. pass \in Sampling
  BY <1>1, InFlight, PassAt
<1>3. pass'.pc = "publish" /\ pass'.origin = pass.origin
  BY <1>1, <1>2 DEF Sampling
<1> QED
  BY <1>1, <1>3 DEF AgreeInv

LEMMA AgreePublishOrigin ==
  ASSUME OwnerScanAssumption, Inv, AgreeInv, PublishOrigin
  PROVE  AgreeInv'
<1>1. /\ ckpt' = ckpt /\ pub' = pub /\ mem'.origin = pass.origin /\ pass.pc = "publish"
      /\ ToStart \/ ToScan(pass.from)
  BY PublishOriginMemory DEF PublishOrigin, db
<1>2. pass'.pc \in {"start", "scan"}
  BY <1>1 DEF ToStart, ToScan
<1> QED
  BY <1>1, <1>2 DEF AgreeInv

LEMMA AgreeChunks ==
  ASSUME OwnerScanAssumption, Inv, AgreeInv, FetchChunk \/ ScanOwnerRange \/ Complete
  PROVE  AgreeInv' /\ ckpt'.origin = ckpt.origin
<1>1. CASE FetchChunk
  <2>1. ckpt' = ckpt /\ mem' = mem /\ pub' = pub /\ pass.pc = "scan" /\ pass'.pc = "store chunk"
    BY <1>1 DEF FetchChunk, db
  <2> QED
    BY <2>1, AgreeQuiet
<1>2. CASE ScanOwnerRange
  <2>1. mem' = mem /\ pub' = pub /\ pass.pc = "store chunk"
    BY <1>2 DEF ScanOwnerRange
  <2>2. CASE Current
    <3>1. /\ ckpt' = [ckpt EXCEPT !.cursor = pass.to]
          /\ pass' = [pc |-> "scan", gen |-> pass.gen, head |-> pass.head, from |-> pass.to + 1,
                      chunks |-> pass.chunks + 1]
      BY <1>2, <2>2 DEF ScanOwnerRange, Checkpoint
    <3>2. ckpt'.origin = ckpt.origin
      BY <3>1 DEF Inv, Base, TypeInv, Checkpoints
    <3>3. pass'.pc = "scan"
      BY <3>1
    <3> QED
      BY <2>1, <3>2, <3>3, AgreeQuiet
  <2>3. CASE ~ Current
    <3>1. pass' = Idle /\ ckpt' = ckpt
      BY <1>2, <2>3 DEF ScanOwnerRange, Stop
    <3>2. pass'.pc = "idle"
      BY <3>1 DEF Idle
    <3> QED
      BY <2>1, <3>1, <3>2, AgreeQuiet
  <2> QED
    BY <2>2, <2>3
<1>3. CASE Complete
  <2>1. pub' = pub /\ pass.pc = "scan" /\ pass'.pc = "idle"
    BY <1>3 DEF Complete, Stop, Idle
  <2>2. mem'.origin = mem.origin /\ ckpt'.origin = ckpt.origin
    BY <1>3, CompleteMemory
  <2> QED
    BY <2>1, <2>2, AgreeQuiet
<1> QED
  BY <1>1, <1>2, <1>3

LEMMA AgreeEnds ==
  ASSUME AgreeInv, ReadGeneration \/ Yield \/ Fails
  PROVE  AgreeInv'
<1>1. /\ ckpt' = ckpt /\ mem' = mem /\ pub' = pub /\ pass.pc \notin {"load", "publish"}
      /\ pass'.pc \in {"read", "idle"}
  BY DEF ReadGeneration, Yield, Fails, Stop, Idle, db
<1> QED
  BY <1>1, AgreeQuiet

LEMMA AgreeNext ==
  ASSUME OwnerScanAssumption, Orderly, Inv, AgreeInv, [Next]_vars
  PROVE  AgreeInv'
<1>1. CASE ReadGeneration \/ Yield \/ Fails
  BY <1>1, AgreeEnds
<1>2. CASE \/ ReadCursor \/ ExtendScanOrigin \/ FetchFloor \/ ScanOwnerFloor \/ ScanStart \/ CommitOrigin
           \/ LoadSets \/ PublishOrigin \/ FetchChunk \/ ScanOwnerRange \/ Complete
  BY <1>2, AgreeReadCursor, AgreeExtend, AgreeFloor, AgreeStoreFloor, AgreeScanStart, AgreeCommitOrigin,
     AgreeLoadSets, AgreePublishOrigin, AgreeChunks
<1>3. CASE Fast
  BY <1>3, AgreeTick, AgreeRewind, AgreePublishRewind DEF Fast
<1>4. CASE Mint \/ (\E k \in Forks : Reorg(k))
  <2>1. ckpt' = ckpt /\ mem' = mem /\ pass' = pass /\ pub' = pub
    BY <1>4 DEF Mint, Reorg, db
  <2> QED
    BY <2>1, AgreeSame
<1>5. CASE \E d \in Depths, epoch \in BOOLEAN : Restart(d, epoch)
  BY <1>5, AgreeRestart
<1>6. CASE UNCHANGED vars
  <2>1. ckpt' = ckpt /\ mem' = mem /\ pub' = pub /\ pass' = pass
    BY <1>6 DEF vars
  <2> QED
    BY <2>1, AgreeSame
<1> QED
  BY <1>1, <1>2, <1>3, <1>4, <1>5, <1>6 DEF Next, Slow

LEMMA OrderlyInit ==
  ASSUME Init
  PROVE  AliveInv /\ AgreeInv
  BY DEF Init, Idle, NoOrigin, AliveInv, Alive, AliveShown, AgreeInv

(* What leaves the origin, or drops it. *)
LEMMA OriginFallsNext ==
  ASSUME OwnerScanAssumption, Orderly, Inv, AgreeInv, [Next]_vars
  PROVE  OriginStep
<1>1. ckpt.origin.block \in Nat
  BY Typed DEF Inv, Base, Origins
<1>2. ASSUME ckpt'.origin = ckpt.origin \/ ckpt'.origin = NoOrigin PROVE OriginStep
  BY <1>1, <1>2 DEF OriginStep
<1>3. CASE CommitOrigin
  BY <1>3, AgreeCommitOrigin
<1>4. CASE FetchChunk \/ ScanOwnerRange \/ Complete
  BY <1>2, <1>4, AgreeChunks
<1>5. CASE Rewind
  BY <1>2, <1>5, RewindCheckpoints
<1>6. CASE \E d \in Depths, epoch \in BOOLEAN : Restart(d, epoch)
  <2>1. PICK epoch \in BOOLEAN :
          ckpt' = IF epoch THEN [cursor |-> Absent, through |-> 0, origin |-> NoOrigin, gen |-> ckpt.gen + 1]
                  ELSE ckpt
    BY <1>6 DEF Restart
  <2> QED
    BY <1>2, <2>1
<1>7. CASE ckpt' = ckpt
  BY <1>2, <1>7
<1>8. CASE \/ ReadGeneration \/ ReadCursor \/ ExtendScanOrigin \/ FetchFloor \/ ScanOwnerFloor \/ ScanStart
           \/ LoadSets \/ PublishOrigin \/ Yield
  <2>1. ckpt' = ckpt
    BY <1>8 DEF ReadGeneration, ReadCursor, ExtendScanOrigin, FetchFloor, ScanOwnerFloor, ScanStart,
                LoadSets, PublishOrigin, Yield, db
  <2> QED
    BY <1>7, <2>1
<1>9. CASE \/ (\E known \in BOOLEAN : Tick(known)) \/ PublishRewind \/ Mint \/ Fails
           \/ (\E k \in Forks : Reorg(k)) \/ UNCHANGED vars
  <2>1. ckpt' = ckpt
    BY <1>9 DEF Tick, PublishRewind, Mint, Fails, Reorg, db, vars
  <2> QED
    BY <1>7, <2>1
<1> QED
  BY <1>3, <1>4, <1>5, <1>6, <1>8, <1>9 DEF Next, Slow, Fast

LEMMA OrderlyHolds ==
  ASSUME OwnerScanAssumption, Orderly
  PROVE  Spec => [](Inv /\ AliveInv /\ AgreeInv)
<1>1. Init => AliveInv /\ AgreeInv
  BY OrderlyInit
<1>2. Inv /\ AliveInv /\ AgreeInv /\ [Next]_vars => (AliveInv /\ AgreeInv)'
  BY AliveNext, AgreeNext
<1> QED
  BY <1>1, <1>2, InvHolds, PTL DEF Spec

(* A state sampled at the origin is one of the chain that is followed,     *)
(* whatever interleaves; and where the two loops do not step between a     *)
(* commit of the other's and its publication, no action of a dead fork is  *)
(* left for the replays and memory and database agree where the scan       *)
(* began (rewindToAncestor, writeOrigin, applySetsLocked).                 *)
THEOREM OriginIsSound == OwnerScanAssumption => (Spec => []OriginSound)
<1>1. CASE Overlap
  <2> SUFFICES ASSUME OwnerScanAssumption PROVE Spec => []OriginSound
    OBVIOUS
  <2>1. OriginOnChain => OriginSound
    BY <1>1 DEF OriginSound
  <2> QED
    BY <2>1, SampleOnChain, PTL
<1>2. CASE ~Overlap
  <2> SUFFICES ASSUME OwnerScanAssumption PROVE Spec => []OriginSound
    OBVIOUS
  <2>1. Orderly
    BY <1>2 DEF Orderly, OwnerScanAssumption
  <2>2. Inv /\ AliveInv => NoDeadActions
    BY AliveHolds
  <2>3. AgreeInv => OriginAgrees
    BY DEF AgreeInv, OriginAgrees, Idle
  <2>4. OriginOnChain /\ OriginAgrees /\ NoDeadActions => OriginSound
    BY DEF OriginSound
  <2> QED
    BY <2>1, <2>2, <2>3, <2>4, SampleOnChain, OrderlyHolds, PTL
<1> QED
  BY <1>1, <1>2

(* ...and an origin only falls, unless a rewind or a new epoch drops it    *)
(* (extendScanOrigin, which reads the origin in memory and commits under   *)
(* the generation it read).                                                *)
THEOREM OriginOnlyFalls == OwnerScanAssumption /\ Orderly => (Spec => OriginFalls)
<1> SUFFICES ASSUME OwnerScanAssumption, Orderly PROVE Spec => OriginFalls
  OBVIOUS
<1>1. Inv /\ AgreeInv /\ [Next]_vars => [OriginStep]_vars
  BY OriginFallsNext
<1> QED
  BY <1>1, OrderlyHolds, PTL DEF Spec, OriginFalls
=============================================================================
