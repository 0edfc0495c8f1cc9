-------------------------- MODULE PageTableProofs ---------------------------
(***************************************************************************)
(* Proofs about PageTable: for every radix, number of frames and set of    *)
(* kernel pages, no table of a space in use is free, a translation is the  *)
(* one last asked for, and the kernel's mappings are in every space.       *)
(***************************************************************************)
EXTENDS PageTable, Recursion

-----------------------------------------------------------------------------
(* The inductive invariant                                                 *)

(* The four entries that take page w of the space with top-level table s   *)
(* to p.                                                                   *)
Walks(m, s, w, a, b, c, p) ==
    /\ m.tab[s][Indices(w)[1]] = Present(a)
    /\ m.tab[a][Indices(w)[2]] = Present(b)
    /\ m.tab[b][Indices(w)[3]] = Present(c)
    /\ m.tab[c][Indices(w)[4]] = Present(p)

Maps(m, s, w, p) == \E a, b, c \in Frame : Walks(m, s, w, a, b, c, p)

Typed(m) ==
    /\ m = [tab |-> m.tab, free |-> m.free]
    /\ m.tab \in [Roots -> [Index -> Entry]]
    /\ m.free \in SUBSET Frame

(* lev[f] is the level of the table in frame f, 0 when f is no table.      *)
Levels(m, lev) ==
    /\ lev \in [Roots -> 0 .. 4]
    /\ \A f \in Roots : lev[f] > 0 => f # 0 /\ f \notin m.free

(* An entry above the last level is clear or leads one level down.         *)
Leads(m, lev, f, i) ==
    \/ m.tab[f][i] \in {Zero, Hole}
    \/ \E g \in Frame : m.tab[f][i] = Present(g) /\ lev[g] = lev[f] - 1

Descends(m, lev) ==
    \A f \in Roots, i \in Index : lev[f] > 1 => Leads(m, lev, f, i)

(* A table has one entry that leads to it, except that forked spaces share *)
(* their third level at the same index.                                    *)
Unshared(m, lev) ==
    \A f, g \in Roots, i, j \in Index :
        /\ lev[f] > 1 /\ lev[g] = lev[f]
        /\ m.tab[f][i].frame # 0 /\ m.tab[f][i].frame = m.tab[g][j].frame
        => i = j /\ (lev[f] # 4 => f = g)

(* A table in frame 0 faults, so nothing is ever left there.               *)
FrameZero(m) == \A j \in Index : m.tab[0][j] = Zero

Shaped(m, lev) ==
    Typed(m) /\ Levels(m, lev) /\ Descends(m, lev) /\ Unshared(m, lev) /\ FrameZero(m)

SpacesOK(lev, S) == Boot \in S /\ \A r \in S : r \in Roots /\ lev[r] = 4

(* What physmap returned is neither free nor a table; page 0 is returned   *)
(* more than once, as unmap frees frame 0.                                 *)
HeldOK(m, lev, H) ==
    \A v \in H : v \in Frame /\ (v # 0 => v \notin m.free /\ lev[v] = 0)

KernelHalf(m, S) ==
    \A r \in S, i \in Index : i >= Half => m.tab[r][i] = m.tab[Boot][i]

AskedOK(ask) == ask \in [Roots -> [Pages -> Phys \cup {NoPage}]]

MapsAsked(m, S, ask) ==
    \A s \in S, w \in Pages, p \in Phys : Maps(m, s, w, p) => p = ask[s][w]

KernelMapped(m, ask) ==
    \A v \in KernelPages : ask[Boot][v] # NoPage => Maps(m, Boot, v, ask[Boot][v])

Good(m, lev, S, ask) ==
    /\ Shaped(m, lev) /\ SpacesOK(lev, S) /\ KernelHalf(m, S)
    /\ AskedOK(ask) /\ MapsAsked(m, S, ask) /\ KernelMapped(m, ask)

Inv(lev) ==
    /\ Good(mem, lev, spaces, asked)
    /\ ~halted => HeldOK(mem, lev, held)
    /\ ~started => spaces = {Boot}
    /\ Boot \notin left

IInv == \E lev \in [Roots -> 0 .. 4] : Inv(lev)

-----------------------------------------------------------------------------
(* Indices and frames                                                      *)

(* Quotient and remainder, for the shifts and masks of the index           *)
(* computation.                                                            *)
LEMMA DivMod ==
    ASSUME NEW n \in Nat, NEW R \in Nat, R >= 2
    PROVE  /\ n \div R \in Nat /\ n % R \in 0 .. R - 1
           /\ n = R * (n \div R) + (n % R)
  OBVIOUS

(* They determine the number.                                              *)
LEMMA DivUnique ==
    ASSUME NEW R \in Nat, R >= 2, NEW n \in Nat, NEW k \in Nat,
           n \div R = k \div R, n % R = k % R
    PROVE  n = k
  <1>1. PICK q \in Nat : q = n \div R
    BY DivMod
  <1>2. PICK d \in Nat : d = n % R
    BY DivMod
  <1>3. n = R * q + d
    BY <1>1, <1>2, DivMod
  <1>4. k = R * (k \div R) + (k % R)
    BY DivMod
  <1>5. k \div R = q /\ k % R = d
    BY <1>1, <1>2
  <1> QED
    BY <1>3, <1>4, <1>5

(* A number below the modulus is its own remainder.                        *)
LEMMA SmallMod ==
    ASSUME NEW n \in Nat, NEW R \in Nat, n < R
    PROVE  n % R = n
  OBVIOUS

(* alloc_frames returns 0 or a frame that was free, and takes it.          *)
LEMMA AllocSound ==
    ASSUME NEW m, Typed(m)
    PROVE  /\ alloc_frame(m) \in m.free \cup {0}
           /\ alloc_frame(m) \in Frame
           /\ Taken(m) = [tab |-> m.tab, free |-> m.free \ {alloc_frame(m)}]
  <1>1. m.free \in SUBSET Nat /\ 0 \in Frame
    BY MemoryAssumption DEF Typed, Frame
  <1>2. alloc_frame(m) \in m.free \cup {0}
    BY <1>1, MinIsLeast DEF alloc_frame
  <1>3. PICK t, fr : m = [tab |-> t, free |-> fr]
    BY DEF Typed
  <1>4. [m EXCEPT !.free = @ \ {alloc_frame(m)}]
          = [tab |-> m.tab, free |-> m.free \ {alloc_frame(m)}]
    BY <1>3
  <1> QED
    BY <1>1, <1>2, <1>4 DEF Typed, Taken

(* What the proofs use of the constants.                                   *)
LEMMA ConstantFacts ==
    /\ Radix \in Nat /\ Radix >= 2 /\ Frames \in Nat /\ Frames > 0
    /\ Half \in Nat /\ Boot \in Roots /\ Boot \notin Frame /\ 0 \in Frame /\ Boot # 0
    /\ Frame \subseteq Roots /\ Roots \subseteq Phys /\ Phys \subseteq Nat
    /\ Roots = Frame \cup {Boot} /\ Pages \subseteq Nat /\ Frame \subseteq Pages
    /\ KernelPages \subseteq Pages /\ NoPage \notin Phys
  BY MemoryAssumption DEF Half, Boot, Roots, Frame, Phys, Pages, UserPages, NoPage

(* The four indices of a page are indices.                                 *)
LEMMA IndexTyped ==
    ASSUME NEW w \in Pages
    PROVE  /\ Indices(w)[1] \in Index /\ Indices(w)[2] \in Index
           /\ Indices(w)[3] \in Index /\ Indices(w)[4] \in Index
  <1>1. w \in Nat /\ Radix \in Nat /\ Radix >= 2
    BY ConstantFacts
  <1>2. PICK a \in Nat : a = w \div Radix
    BY <1>1, DivMod
  <1>3. PICK b \in Nat : b = a \div Radix
    BY <1>1, DivMod
  <1>4. PICK c \in Nat : c = b \div Radix
    BY <1>1, DivMod
  <1>5. Indices(w) = <<c % Radix, b % Radix, a % Radix, w % Radix>>
    BY <1>2, <1>3, <1>4 DEF Indices, Top
  <1>6. \A n \in Nat : n % Radix \in Index
    BY <1>1, DivMod DEF Index
  <1>7. c % Radix \in Index /\ b % Radix \in Index /\ a % Radix \in Index /\ w % Radix \in Index
    BY <1>1, <1>6
  <1> QED
    BY <1>5, <1>7

(* The top index tells the kernel's pages from the addresses of frames.    *)
LEMMA TopIndex ==
    ASSUME NEW w \in Pages
    PROVE  /\ Indices(w)[1] = Top(w) /\ Top(w) \in 0 .. Radix - 1
           /\ w \in KernelPages <=> Top(w) >= Half
           /\ w \in Frame <=> Top(w) < Half
  <1>1. w \in Nat /\ Radix \in Nat /\ Radix >= 2
    BY ConstantFacts
  <1>2. PICK a \in Nat : a = w \div Radix
    BY <1>1, DivMod
  <1>3. PICK b \in Nat : b = a \div Radix
    BY <1>1, DivMod
  <1>4. PICK c \in Nat : c = b \div Radix
    BY <1>1, DivMod
  <1>5. Top(w) = c /\ Half \in Nat /\ Half < Radix
    BY <1>1, <1>2, <1>3, <1>4 DEF Top, Half
  <1>6. /\ w \in KernelPages <=> c >= Half
        /\ w \in Frame <=> c < Half
        /\ c < Radix
    BY <1>5, MemoryAssumption DEF Pages, UserPages
  <1>7. c % Radix = c
    BY <1>1, <1>6, SmallMod
  <1>8. Indices(w)[1] = c
    BY <1>5, <1>7 DEF Indices
  <1> QED
    BY <1>1, <1>5, <1>6, <1>8

(* Two pages with the same four indices are the same page.                 *)
LEMMA IndexInjective ==
    ASSUME NEW v \in Pages, NEW w \in Pages,
           Indices(v)[1] = Indices(w)[1], Indices(v)[2] = Indices(w)[2],
           Indices(v)[3] = Indices(w)[3], Indices(v)[4] = Indices(w)[4]
    PROVE  v = w
  <1>1. v \in Nat /\ w \in Nat /\ Radix \in Nat /\ Radix >= 2
    BY ConstantFacts
  <1>2. PICK a \in Nat : a = v \div Radix
    BY <1>1, DivMod
  <1>3. PICK b \in Nat : b = a \div Radix
    BY <1>1, DivMod
  <1>4. PICK c \in Nat : c = w \div Radix
    BY <1>1, DivMod
  <1>5. PICK d \in Nat : d = c \div Radix
    BY <1>1, DivMod
  <1>6. Top(v) = b \div Radix /\ Top(w) = d \div Radix
    BY <1>2, <1>3, <1>4, <1>5 DEF Top
  <1>7. b \div Radix = d \div Radix
    BY <1>6, TopIndex
  <1>8. b % Radix = d % Radix /\ a % Radix = c % Radix /\ v % Radix = w % Radix
    BY <1>2, <1>3, <1>4, <1>5 DEF Indices
  <1>9. b = d
    BY <1>1, <1>7, <1>8, DivUnique
  <1>10. a = c
    BY <1>1, <1>3, <1>5, <1>8, <1>9, DivUnique
  <1> QED
    BY <1>1, <1>2, <1>4, <1>8, <1>10, DivUnique

-----------------------------------------------------------------------------
(* Creating tables                                                         *)

(* What creating a table may change, whether or not there is a frame.      *)
Created(m, f, i, n) ==
    /\ Typed(n) /\ n.free \subseteq m.free
    /\ \A h \in Roots, j \in Index :
          h # alloc_frame(m) /\ (h # f \/ j # i) => n.tab[h][j] = m.tab[h][j]
    /\ m.tab[f][i] # Zero => n = m
    /\ m.tab[f][i] = Zero =>
          /\ n.free = m.free \ {alloc_frame(m)}
          /\ n.tab[f][i].frame \in m.free \cup {0}
          /\ n.tab[f][i] \in {Zero, Present(alloc_frame(m))}
          /\ f # alloc_frame(m) => n.tab[f][i] = Present(alloc_frame(m))
          /\ \A j \in Index : n.tab[alloc_frame(m)][j] = Zero

(* page_table_create changes its entry and the frame it took.              *)
LEMMA CreateKeeps ==
    ASSUME NEW m, Typed(m), NEW f \in Roots, NEW i \in Index,
           NEW n, n = page_table_create(m, f, i)
    PROVE  Created(m, f, i, n)
  <1> DEFINE g == alloc_frame(m)
             z == [j \in Index |-> Zero]
             t == [m.tab EXCEPT ![f][i] = Present(g), ![g] = z]
  <1>1. g \in m.free \cup {0} /\ g \in Frame /\ g \in Roots
    BY AllocSound, ConstantFacts
  <1>2. CASE m.tab[f][i] # Zero
    <2>1. n = m
      BY <1>2 DEF page_table_create
    <2> QED
      BY <2>1, <1>2 DEF Created
  <1>3. CASE m.tab[f][i] = Zero
    <2>1. n = [Taken(m) EXCEPT !.tab = [@ EXCEPT ![f][i] = Present(g), ![g] = z]]
      BY <1>3 DEF page_table_create
    <2>2. Taken(m) = [tab |-> m.tab, free |-> m.free \ {g}]
      BY AllocSound
    <2>3. n = [tab |-> t, free |-> m.free \ {g}]
      <3>1. PICK tm, fg : tm = m.tab /\ fg = m.free \ {g}
        OBVIOUS
      <3>2. PICK h : h = g
        OBVIOUS
      <3>3. [[tab |-> tm, free |-> fg] EXCEPT !.tab = [@ EXCEPT ![f][i] = Present(h), ![h] = z]]
              = [tab |-> [tm EXCEPT ![f][i] = Present(h), ![h] = z], free |-> fg]
        OBVIOUS
      <3> QED
        BY <2>1, <2>2, <3>1, <3>2, <3>3
    <2>4. n.tab = t /\ n.free = m.free \ {g}
      BY <2>3
    <2>5. Present(g) \in Entry /\ Zero \in Entry
      BY <1>1, ConstantFacts DEF Present, Zero, Entry
    <2>6. z \in [Index -> Entry] /\ \A j \in Index : z[j] = Zero
      BY <2>5
    <2> HIDE DEF z
    <2>7. m.tab \in [Roots -> [Index -> Entry]]
      BY DEF Typed
    <2>8. t \in [Roots -> [Index -> Entry]]
      BY <2>5, <2>6, <2>7, <1>1
    <2>9. /\ t[g] = z
          /\ \A h \in Roots, j \in Index : h # g /\ (h # f \/ j # i) => t[h][j] = m.tab[h][j]
          /\ g # f => t[f][i] = Present(g)
      BY <2>5, <2>6, <2>7, <1>1
    <2> HIDE DEF t
    <2>10. Typed(n) /\ n.free \subseteq m.free
      BY <2>3, <2>4, <2>8 DEF Typed
    <2>11. n.tab[f][i] = Zero \/ n.tab[f][i] = Present(g)
      BY <2>4, <2>6, <2>9
    <2>12. Zero.frame = 0 /\ Present(g).frame = g
      BY DEF Zero, Present
    <2>13. n.tab[f][i].frame \in m.free \cup {0}
      BY <2>11, <2>12, <1>1
    <2> QED
      BY <1>1, <1>3, <2>4, <2>6, <2>9, <2>10, <2>11, <2>13 DEF Created
  <1> QED
    BY <1>2, <1>3

(* n is m with more tables: what was mapped is mapped, and of the entries  *)
(* at the top only that at index x of table r may have changed.            *)
Grows(m, lev, n, lev2, r, x) ==
    /\ n.free \subseteq m.free
    /\ \A f \in Roots : lev2[f] = lev[f] \/ (lev[f] = 0 /\ f \in m.free)
    /\ \A s \in Roots, w \in Pages, p \in Phys :
          lev[s] = 4 => (Maps(n, s, w, p) <=> Maps(m, s, w, p))
    /\ \A s \in Roots, j \in Index :
          lev[s] = 4 /\ (s # r \/ j # x) => n.tab[s][j] = m.tab[s][j]

Grown(m, lev, n, r, x) ==
    \E lev2 \in [Roots -> 0 .. 4] : Shaped(n, lev2) /\ Grows(m, lev, n, lev2, r, x)

(* The kinds of entry differ.                                              *)
LEMMA EntryFacts ==
    /\ Zero.frame = 0 /\ Hole.frame = 0 /\ Zero # Hole
    /\ \A g : Present(g).frame = g /\ Present(g) # Zero /\ Present(g) # Hole
    /\ \A g, h : Present(g) = Present(h) => g = h
  <1>1. Zero.kind = "zero" /\ Hole.kind = "hole" /\ \A g : Present(g).kind = "present"
    BY DEF Zero, Hole, Present
  <1>2. Zero.frame = 0 /\ Hole.frame = 0 /\ \A g : Present(g).frame = g
    BY DEF Zero, Hole, Present
  <1> QED
    BY <1>1, <1>2

(* Where an entry that is present leads.                                   *)
LEMMA LeadsDown ==
    ASSUME NEW m, NEW lev, Shaped(m, lev), NEW f \in Roots, NEW i \in Index, lev[f] > 1
    PROVE  /\ m.tab[f][i] \in {Zero, Hole} => m.tab[f][i].frame = 0
           /\ \A g : m.tab[f][i] = Present(g) => g \in Frame /\ g \in Roots /\ g # 0
                /\ lev[g] = lev[f] - 1
           /\ m.tab[f][i].frame # 0 => m.tab[f][i] = Present(m.tab[f][i].frame)
           /\ m.tab[f][i].frame \in Frame
  <1>1. Leads(m, lev, f, i)
    BY DEF Shaped, Descends
  <1>2. lev[f] \in 0 .. 4
    BY DEF Shaped, Levels
  <1>3. \A g \in Frame : lev[g] = lev[f] - 1 => g # 0
    BY <1>2, ConstantFacts DEF Shaped, Levels
  <1>4. CASE m.tab[f][i] \in {Zero, Hole}
    BY <1>4, EntryFacts, ConstantFacts
  <1>5. ASSUME NEW g \in Frame, m.tab[f][i] = Present(g), lev[g] = lev[f] - 1
        PROVE  /\ m.tab[f][i] \notin {Zero, Hole} /\ m.tab[f][i].frame = g
               /\ \A h : m.tab[f][i] = Present(h) => h = g
    BY <1>5, EntryFacts
  <1> QED
    BY <1>1, <1>3, <1>4, <1>5, ConstantFacts DEF Leads

(* The tables on the way of a page, level by level.                        *)
LEMMA WalkLevels ==
    ASSUME NEW m, NEW lev, Shaped(m, lev), NEW s \in Roots, lev[s] = 4, NEW w \in Pages,
           NEW a, NEW b, NEW c, NEW p, Walks(m, s, w, a, b, c, p)
    PROVE  /\ a \in Frame /\ a \in Roots /\ a # 0 /\ lev[a] = 3
           /\ b \in Frame /\ b \in Roots /\ b # 0 /\ lev[b] = 2
           /\ c \in Frame /\ c \in Roots /\ c # 0 /\ lev[c] = 1
  <1>1. a \in Frame /\ a \in Roots /\ a # 0 /\ lev[a] = 3
    BY LeadsDown, IndexTyped DEF Walks
  <1>2. b \in Frame /\ b \in Roots /\ b # 0 /\ lev[b] = 2
    BY <1>1, LeadsDown, IndexTyped DEF Walks
  <1>3. c \in Frame /\ c \in Roots /\ c # 0 /\ lev[c] = 1
    BY <1>2, LeadsDown, IndexTyped DEF Walks
  <1> QED
    BY <1>1, <1>2, <1>3

(* When page_table_create finds a frame, the tables stay a forest and      *)
(* nothing is mapped or unmapped: the new table is clear.                  *)
LEMMA CreateGrows ==
    ASSUME NEW m, NEW lev, Shaped(m, lev), NEW f \in Roots, NEW i \in Index, lev[f] \in 2 .. 4,
           NEW n, n = page_table_create(m, f, i), n.tab[f][i].frame # 0,
           NEW r \in Roots, NEW x \in Index, lev[f] = 4 => r = f /\ x = i
    PROVE  Grown(m, lev, n, r, x)
  <1>1. Typed(m) /\ lev \in [Roots -> 0 .. 4]
    BY DEF Shaped, Levels
  <1>2. CASE m.tab[f][i] # Zero
    <2>1. n = m
      BY <1>1, <1>2, CreateKeeps DEF Created
    <2>2. Grows(m, lev, m, lev, r, x)
      BY DEF Grows
    <2> QED
      BY <1>1, <2>1, <2>2 DEF Grown
  <1>3. CASE m.tab[f][i] = Zero
    <2>1. PICK g : g = alloc_frame(m)
      OBVIOUS
    <2>2. /\ Typed(n) /\ n.free = m.free \ {g}
          /\ \A h \in Roots, j \in Index : h # g /\ (h # f \/ j # i)
               => n.tab[h][j] = m.tab[h][j]
          /\ n.tab[f][i] = Zero \/ n.tab[f][i] = Present(g)
          /\ \A j \in Index : n.tab[g][j] = Zero
      <3>1. Created(m, f, i, n)
        BY <1>1, CreateKeeps
      <3> QED
        BY <1>3, <2>1, <3>1 DEF Created
    <2>3. n.tab[f][i] = Present(g) /\ g # 0
      BY <2>2, EntryFacts
    <2>4. g \in m.free /\ g \in Frame /\ g \in Roots
      BY <1>1, <2>1, <2>3, AllocSound, ConstantFacts
    <2>5. lev[g] = 0 /\ g # f /\ f # 0
      BY <1>1, <2>4 DEF Shaped, Levels
    <2>6. PICK k \in 1 .. 3 : k = lev[f] - 1
      OBVIOUS
    <2> DEFINE lv == [lev EXCEPT ![g] = k]
    <2>7. lv \in [Roots -> 0 .. 4] /\ lv[g] = k /\ \A h \in Roots : h # g => lv[h] = lev[h]
      BY <1>1, <2>4
    <2> HIDE DEF lv
    <2>8. Levels(n, lv)
      BY <2>2, <2>3, <2>5, <2>7 DEF Shaped, Levels
    <2>9. ASSUME NEW h \in Roots, NEW j \in Index, h # g, h # f \/ j # i, lev[h] > 1
          PROVE  n.tab[h][j] = m.tab[h][j] /\ Leads(n, lv, h, j) /\ n.tab[h][j].frame # g
      <3>1. n.tab[h][j] = m.tab[h][j]
        BY <2>2, <2>9
      <3>2. CASE m.tab[h][j] \in {Zero, Hole}
        BY <3>1, <3>2, <2>3, EntryFacts DEF Leads
      <3>3. CASE m.tab[h][j] \notin {Zero, Hole}
        <4>1. PICK d \in Frame : m.tab[h][j] = Present(d) /\ lev[d] = lev[h] - 1
          BY <2>9, <3>3 DEF Shaped, Descends, Leads
        <4>2. lev[h] \in 2 .. 4 /\ d \in Roots
          BY <1>1, <2>9, <4>1, ConstantFacts
        <4>3. d # g /\ lv[d] = lv[h] - 1
          BY <2>5, <2>7, <2>9, <4>1, <4>2
        <4> QED
          BY <3>1, <4>1, <4>3, EntryFacts DEF Leads
      <3> QED
        BY <3>2, <3>3
    <2>10. Descends(n, lv)
      <3> SUFFICES ASSUME NEW h \in Roots, NEW j \in Index, lv[h] > 1
                   PROVE  Leads(n, lv, h, j)
        BY DEF Descends
      <3>1. CASE h = g
        BY <2>2, <3>1 DEF Leads
      <3>2. CASE h = f /\ j = i
        <4>1. lv[g] = lv[f] - 1
          BY <2>5, <2>6, <2>7
        <4> QED
          BY <2>3, <2>4, <3>2, <4>1 DEF Leads
      <3> QED
        BY <2>7, <2>9, <3>1, <3>2
    <2>11. Unshared(n, lv)
      <3> SUFFICES ASSUME NEW h1 \in Roots, NEW h2 \in Roots, NEW i1 \in Index,
                          NEW i2 \in Index,
                          lv[h1] > 1, lv[h2] = lv[h1],
                          n.tab[h1][i1].frame # 0, n.tab[h1][i1].frame = n.tab[h2][i2].frame
                   PROVE  i1 = i2 /\ (lv[h1] # 4 => h1 = h2)
        BY DEF Unshared
      <3>1. h1 # g /\ h2 # g
        BY <2>2, EntryFacts
      <3>2. lev[h1] > 1 /\ lev[h2] = lev[h1] /\ lv[h1] = lev[h1]
        BY <2>7, <3>1
      <3>3. CASE h1 = f /\ i1 = i
        BY <2>3, <2>9, <3>1, <3>2, <3>3, EntryFacts
      <3>4. CASE h2 = f /\ i2 = i
        BY <2>3, <2>9, <3>1, <3>2, <3>4, EntryFacts
      <3>5. CASE ~(h1 = f /\ i1 = i) /\ ~(h2 = f /\ i2 = i)
        <4>1. n.tab[h1][i1] = m.tab[h1][i1] /\ n.tab[h2][i2] = m.tab[h2][i2]
          BY <2>9, <3>1, <3>2, <3>5
        <4> QED
          BY <3>2, <4>1 DEF Shaped, Unshared
      <3> QED
        BY <3>3, <3>4, <3>5
    <2>12. FrameZero(n)
      BY <2>2, <2>3, <2>5, ConstantFacts DEF Shaped, FrameZero
    <2>13. Shaped(n, lv)
      BY <2>2, <2>8, <2>10, <2>11, <2>12 DEF Shaped
    <2>14. ASSUME NEW s \in Roots, NEW w \in Pages, NEW p \in Phys, lev[s] = 4
           PROVE  Maps(n, s, w, p) <=> Maps(m, s, w, p)
      <3>0. PICK x1 \in Index : x1 = Indices(w)[1]
        BY IndexTyped
      <3>1. PICK x2 \in Index : x2 = Indices(w)[2]
        BY IndexTyped
      <3>2. PICK x3 \in Index : x3 = Indices(w)[3]
        BY IndexTyped
      <3>3. PICK x4 \in Index : x4 = Indices(w)[4]
        BY IndexTyped
      <3>4. ASSUME NEW a, NEW b, NEW c
            PROVE  /\ Walks(n, s, w, a, b, c, p) <=>
                         /\ n.tab[s][x1] = Present(a) /\ n.tab[a][x2] = Present(b)
                         /\ n.tab[b][x3] = Present(c) /\ n.tab[c][x4] = Present(p)
                   /\ Walks(m, s, w, a, b, c, p) <=>
                         /\ m.tab[s][x1] = Present(a) /\ m.tab[a][x2] = Present(b)
                         /\ m.tab[b][x3] = Present(c) /\ m.tab[c][x4] = Present(p)
        BY <3>0, <3>1, <3>2, <3>3 DEF Walks
      <3>5. ASSUME NEW a \in Frame, NEW b \in Frame, NEW c \in Frame, Walks(m, s, w, a, b, c, p)
            PROVE  Walks(n, s, w, a, b, c, p)
        <4>1. /\ a \in Roots /\ lev[a] = 3 /\ b \in Roots /\ lev[b] = 2
              /\ c \in Roots /\ lev[c] = 1
          BY <2>14, <3>5, WalkLevels
        <4>2. s # g /\ a # g /\ b # g /\ c # g
          BY <2>5, <2>14, <4>1
        <4>3. \A q : \A h \in Roots, j \in Index : h # g /\ m.tab[h][j] = Present(q)
                => n.tab[h][j] = Present(q)
          BY <1>3, <2>2, EntryFacts
        <4> QED
          BY <3>4, <3>5, <4>1, <4>2, <4>3
      <3>6. ASSUME NEW a \in Frame, NEW b \in Frame, NEW c \in Frame, Walks(n, s, w, a, b, c, p)
            PROVE  Walks(m, s, w, a, b, c, p)
        <4>1. lv[s] = 4 /\ s # g
          BY <2>5, <2>7, <2>14
        <4>2. /\ a \in Roots /\ b \in Roots /\ c \in Roots
          BY ConstantFacts
        <4>3. a # g /\ b # g /\ c # g
          BY <2>2, <3>4, <3>6, EntryFacts
        <4>4. \A q : \A h \in Roots, j \in Index : h # g /\ q # g /\ n.tab[h][j] = Present(q)
                => m.tab[h][j] = Present(q)
          BY <2>2, <2>3, EntryFacts
        <4>5. lv[c] = 1
          BY <2>13, <3>6, <4>1, WalkLevels
        <4>6. c # f
          BY <2>5, <2>7, <4>5
        <4>7. n.tab[c][x4] = m.tab[c][x4]
          BY <2>2, <4>2, <4>3, <4>6
        <4> QED
          BY <3>4, <3>6, <4>1, <4>2, <4>3, <4>4, <4>7
      <3> QED
        BY <3>5, <3>6 DEF Maps
    <2>15. Grows(m, lev, n, lv, r, x)
      <3>1. n.free \subseteq m.free
        BY <2>2
      <3>2. \A h \in Roots : lv[h] = lev[h] \/ (lev[h] = 0 /\ h \in m.free)
        BY <2>4, <2>5, <2>7
      <3>3. \A s \in Roots, j \in Index :
              lev[s] = 4 /\ (s # r \/ j # x) => n.tab[s][j] = m.tab[s][j]
        BY <2>2, <2>5
      <3> QED
        BY <2>14, <3>1, <3>2, <3>3 DEF Grows
    <2> QED
      BY <2>7, <2>13, <2>15 DEF Grown
  <1> QED
    BY <1>2, <1>3

(* One creation after another.                                             *)
LEMMA GrowsTransitive ==
    ASSUME NEW m, NEW lev, NEW n, NEW lev2, NEW k, NEW lev3, NEW r, NEW x,
           Grows(m, lev, n, lev2, r, x), Grows(n, lev2, k, lev3, r, x)
    PROVE  Grows(m, lev, k, lev3, r, x)
  <1>1. \A s \in Roots : lev[s] = 4 => lev2[s] = 4
    BY DEF Grows
  <1>2. k.free \subseteq m.free
    BY DEF Grows
  <1>3. \A f \in Roots : lev3[f] = lev[f] \/ (lev[f] = 0 /\ f \in m.free)
    BY DEF Grows
  <1>4. \A s \in Roots, w \in Pages, p \in Phys :
          lev[s] = 4 => (Maps(k, s, w, p) <=> Maps(m, s, w, p))
    BY <1>1, Zenon DEF Grows
  <1>5. \A s \in Roots, j \in Index :
          lev[s] = 4 /\ (s # r \/ j # x) => k.tab[s][j] = m.tab[s][j]
    <2> SUFFICES ASSUME NEW s \in Roots, NEW j \in Index, lev[s] = 4, s # r \/ j # x
                 PROVE  k.tab[s][j] = m.tab[s][j]
      OBVIOUS
    <2>1. n.tab[s][j] = m.tab[s][j]
      BY DEF Grows
    <2>2. k.tab[s][j] = n.tab[s][j]
      BY <1>1 DEF Grows
    <2> QED
      BY <2>1, <2>2
  <1> QED
    BY <1>2, <1>3, <1>4, <1>5 DEF Grows

(* Where the entry leads after the attempt to create its table, and what   *)
(* stays as it was.                                                        *)
LEMMA CreateTarget ==
    ASSUME NEW m, NEW lev, Shaped(m, lev), NEW f \in Roots, NEW i \in Index, lev[f] \in 2 .. 4,
           NEW n, n = page_table_create(m, f, i)
    PROVE  /\ Typed(n) /\ n.free \subseteq m.free
           /\ n.tab[f][i].frame \in Frame /\ n.tab[f][i].frame \in Roots
           /\ \A h \in Roots : lev[h] >= lev[f] => h # n.tab[f][i].frame
           /\ \A h \in Roots, j \in Index :
                 lev[h] > 0 /\ (h # f \/ j # i) => n.tab[h][j] = m.tab[h][j]
  <1>1. Typed(m) /\ lev \in [Roots -> 0 .. 4] /\ m.free \in SUBSET Frame
    BY DEF Shaped, Levels, Typed
  <1>2. Created(m, f, i, n)
    BY <1>1, CreateKeeps
  <1>3. alloc_frame(m) \in m.free \cup {0}
    BY <1>1, AllocSound
  <1>4. \A h \in Roots : lev[h] > 0 => h \notin m.free \cup {0}
    BY DEF Shaped, Levels
  <1>5. \A h \in Roots, j \in Index :
          lev[h] > 0 /\ (h # f \/ j # i) => n.tab[h][j] = m.tab[h][j]
    BY <1>2, <1>3, <1>4 DEF Created
  <1>6. CASE m.tab[f][i] = Zero
    <2>1. n.tab[f][i].frame \in m.free \cup {0}
      BY <1>2, <1>6 DEF Created
    <2>2. \A h \in Roots : lev[h] >= lev[f] => lev[h] > 0
      BY <1>1
    <2> QED
      BY <1>1, <1>2, <1>4, <1>5, <2>1, <2>2, ConstantFacts DEF Created
  <1>7. CASE m.tab[f][i] # Zero
    <2>1. n = m
      BY <1>2, <1>7 DEF Created
    <2>2. m.tab[f][i].frame \in Frame
      BY LeadsDown
    <2>3. m.tab[f][i].frame # 0 => lev[m.tab[f][i].frame] = lev[f] - 1
      BY LeadsDown
    <2>4. \A h \in Roots : lev[h] >= lev[f] => lev[h] > 0 /\ lev[h] # lev[f] - 1
      BY <1>1
    <2> QED
      BY <1>1, <1>2, <1>4, <1>5, <2>1, <2>2, <2>3, <2>4, ConstantFacts
  <1> QED
    BY <1>6, <1>7

(* The part of map before the page's entry is written: when the walk does  *)
(* not fault afterwards, each of the three creations found a frame.        *)
LEMMA WithTablesGrows ==
    ASSUME NEW m, NEW lev, Shaped(m, lev), NEW r \in Roots, lev[r] = 4, NEW v \in Pages,
           NEW n, n = WithTables(m, r, v), ~Unreadable(n, r, v)
    PROVE  Grown(m, lev, n, r, Indices(v)[1])
  <1>1. PICK x1 \in Index : x1 = Indices(v)[1]
    BY IndexTyped
  <1>2. PICK x2 \in Index : x2 = Indices(v)[2]
    BY IndexTyped
  <1>3. PICK x3 \in Index : x3 = Indices(v)[3]
    BY IndexTyped
  <1>4. PICK m3 : m3 = page_table_create(m, r, x1)
    OBVIOUS
  <1>5. PICK l3 : l3 = m3.tab[r][x1].frame
    OBVIOUS
  <1>6. PICK m2 : m2 = page_table_create(m3, l3, x2)
    OBVIOUS
  <1>7. PICK l2 : l2 = m2.tab[l3][x2].frame
    OBVIOUS
  <1>8. n = page_table_create(m2, l2, x3)
    BY <1>1, <1>2, <1>3, <1>4, <1>5, <1>6, <1>7 DEF WithTables
  <1>9. /\ n.tab[r][x1].frame # 0
        /\ n.tab[n.tab[r][x1].frame][x2].frame # 0
        /\ n.tab[n.tab[n.tab[r][x1].frame][x2].frame][x3].frame # 0
    BY <1>1, <1>2, <1>3 DEF Unreadable
  <1>10. /\ Typed(m) /\ Typed(m3) /\ m3.free \subseteq m.free /\ l3 \in Frame /\ l3 \in Roots
              /\ l3 # r
         /\ lev \in [Roots -> 0 .. 4]
    BY <1>4, <1>5, CreateTarget DEF Shaped, Levels
  <1>11. r \notin m.free /\ r # 0
    BY DEF Shaped, Levels
  <1>12. Created(m3, l3, x2, m2) /\ Typed(m2) /\ m2.free \subseteq m3.free
    <2>1. Created(m3, l3, x2, m2)
      BY <1>6, <1>10, CreateKeeps
    <2> QED
      BY <2>1 DEF Created
  <1>13. m2.tab[r][x1] = m3.tab[r][x1]
    <2>1. alloc_frame(m3) \in m3.free \cup {0}
      BY <1>10, AllocSound
    <2> QED
      BY <1>10, <1>11, <1>12, <2>1 DEF Created
  <1>14. l3 # 0
    <2> SUFFICES ASSUME l3 = 0 PROVE FALSE
      OBVIOUS
    <2>1. m3.tab[0][x2] = Zero
      <3>1. Created(m, r, x1, m3)
        BY <1>4, <1>10, CreateKeeps
      <3>2. CASE m.tab[r][x1] = Zero
        <4>1. alloc_frame(m) \in m.free \cup {0}
          BY <1>10, AllocSound
        <4>2. m3.tab[r][x1] = Present(alloc_frame(m))
          BY <1>11, <3>1, <3>2, <4>1 DEF Created
        <4>3. alloc_frame(m) = 0
          BY <1>5, <4>2, EntryFacts
        <4> QED
          BY <3>1, <3>2, <4>3 DEF Created
      <3>3. CASE m.tab[r][x1] # Zero
        BY <3>1, <3>3 DEF Created, Shaped, FrameZero
      <3> QED
        BY <3>2, <3>3
    <2>2. l2 \in m3.free \cup {0}
      BY <1>7, <1>12, <2>1 DEF Created
    <2>3. l2 # r /\ l2 \in Roots
      BY <1>10, <1>11, <2>2, ConstantFacts DEF Typed
    <2>4. Created(m2, l2, x3, n)
      BY <1>8, <1>12, <2>3, CreateKeeps
    <2>5. alloc_frame(m2) # r
      BY <1>10, <1>11, <1>12, AllocSound
    <2>6. n.tab[r][x1] = m2.tab[r][x1]
      BY <2>3, <2>4, <2>5 DEF Created
    <2> QED
      BY <1>5, <1>9, <1>13, <2>6
  <1>15. Grown(m, lev, m3, r, x1)
    BY <1>4, <1>5, <1>14, CreateGrows
  <1>16. PICK lev3 \in [Roots -> 0 .. 4] : Shaped(m3, lev3) /\ Grows(m, lev, m3, lev3, r, x1)
    BY <1>15 DEF Grown
  <1>17. lev3[r] = 4
    BY <1>16 DEF Grows
  <1>18. lev3[l3] = 3
    BY <1>5, <1>14, <1>16, <1>17, LeadsDown
  <1>19. /\ l2 \in Frame /\ l2 \in Roots /\ l2 # r /\ l2 # l3
    BY <1>6, <1>7, <1>10, <1>16, <1>17, <1>18, CreateTarget
  <1>20. Created(m2, l2, x3, n)
    BY <1>8, <1>12, <1>19, CreateKeeps
  <1>21. r \notin m3.free \cup {0} /\ l3 \notin m3.free \cup {0}
    BY <1>10, <1>16, <1>17, <1>18 DEF Shaped, Levels
  <1>22. alloc_frame(m2) # r /\ alloc_frame(m2) # l3
    BY <1>12, <1>21, AllocSound
  <1>23. n.tab[r][x1] = m2.tab[r][x1] /\ n.tab[l3][x2] = m2.tab[l3][x2]
    BY <1>10, <1>19, <1>20, <1>22 DEF Created
  <1>24. l2 # 0 /\ n.tab[l2][x3].frame # 0
    BY <1>5, <1>7, <1>9, <1>13, <1>23
  <1>25. Grown(m3, lev3, m2, r, x1)
    BY <1>6, <1>7, <1>10, <1>16, <1>18, <1>24, CreateGrows
  <1>26. PICK lev2 \in [Roots -> 0 .. 4] : Shaped(m2, lev2) /\ Grows(m3, lev3, m2, lev2, r, x1)
    BY <1>25 DEF Grown
  <1>27. lev2[r] = 4 /\ lev2[l3] = 3
    BY <1>10, <1>17, <1>18, <1>26 DEF Grows
  <1>28. lev2[l2] = 2
    <2>1. lev2[l3] > 1 /\ m2.tab[l3][x2].frame # 0
      BY <1>7, <1>24, <1>27
    <2>2. m2.tab[l3][x2] = Present(m2.tab[l3][x2].frame)
      BY <1>10, <1>26, <2>1, LeadsDown
    <2>3. m2.tab[l3][x2] = Present(l2)
      BY <1>7, <2>2
    <2> QED
      BY <1>10, <1>26, <1>27, <2>1, <2>3, LeadsDown
  <1>29. Grown(m2, lev2, n, r, x1)
    BY <1>8, <1>19, <1>24, <1>26, <1>28, CreateGrows
  <1>30. PICK lev1 \in [Roots -> 0 .. 4] : Shaped(n, lev1) /\ Grows(m2, lev2, n, lev1, r, x1)
    BY <1>29 DEF Grown
  <1>31. Grows(m, lev, n, lev1, r, x1)
    BY <1>16, <1>26, <1>30, GrowsTransitive
  <1> QED
    BY <1>1, <1>30, <1>31 DEF Grown

(* A walk that does not fault, level by level.                             *)
LEMMA ReadablePath ==
    ASSUME NEW m, NEW lev, Shaped(m, lev), NEW r \in Roots, lev[r] = 4, NEW v \in Pages,
           ~Unreadable(m, r, v)
    PROVE  \E l3, l2, l1 \in Frame :
              /\ Tables(m, r, v) = <<r, l3, l2, l1>>
              /\ m.tab[r][Indices(v)[1]] = Present(l3)
              /\ m.tab[l3][Indices(v)[2]] = Present(l2)
              /\ m.tab[l2][Indices(v)[3]] = Present(l1)
              /\ lev[l3] = 3 /\ lev[l2] = 2 /\ lev[l1] = 1
  <1>1. PICK x1 \in Index : x1 = Indices(v)[1]
    BY IndexTyped
  <1>2. PICK x2 \in Index : x2 = Indices(v)[2]
    BY IndexTyped
  <1>3. PICK x3 \in Index : x3 = Indices(v)[3]
    BY IndexTyped
  <1>4. PICK l3 : l3 = m.tab[r][x1].frame
    OBVIOUS
  <1>5. PICK l2 : l2 = m.tab[l3][x2].frame
    OBVIOUS
  <1>6. PICK l1 : l1 = m.tab[l2][x3].frame
    OBVIOUS
  <1>7. Tables(m, r, v) = <<r, l3, l2, l1>>
    BY <1>1, <1>2, <1>3, <1>4, <1>5, <1>6 DEF Tables
  <1>8. l3 # 0 /\ l2 # 0 /\ l1 # 0
    BY <1>1, <1>2, <1>3, <1>4, <1>5, <1>6 DEF Unreadable
  <1>9. m.tab[r][x1] = Present(l3) /\ l3 \in Frame /\ l3 \in Roots /\ lev[l3] = 3
    BY <1>4, <1>8, LeadsDown
  <1>10. m.tab[l3][x2] = Present(l2) /\ l2 \in Frame /\ l2 \in Roots /\ lev[l2] = 2
    BY <1>5, <1>8, <1>9, LeadsDown
  <1>11. m.tab[l2][x3] = Present(l1) /\ l1 \in Frame /\ l1 \in Roots /\ lev[l1] = 1
    BY <1>6, <1>8, <1>10, LeadsDown
  <1> QED
    BY <1>1, <1>2, <1>3, <1>7, <1>9, <1>10, <1>11

-----------------------------------------------------------------------------
(* Writing and clearing entries                                            *)

(* Two entries that lead to one table are at the same index, and below the *)
(* top level they are the same entry.                                      *)
LEMMA OneWay ==
    ASSUME NEW m, NEW lev, Shaped(m, lev), NEW f \in Roots, NEW g \in Roots,
           NEW i \in Index, NEW j \in Index, lev[f] > 1, lev[g] = lev[f],
           NEW d, m.tab[f][i] = Present(d), m.tab[g][j] = Present(d)
    PROVE  i = j /\ (lev[f] # 4 => f = g)
  <1>1. d # 0 /\ m.tab[f][i].frame = d /\ m.tab[g][j].frame = d
    BY LeadsDown, EntryFacts
  <1> QED
    BY <1>1 DEF Shaped, Unshared

(* What writing the entry of page v does.                                  *)
EntryWritten(m, lev, n, r, v, p) ==
    /\ n.free = m.free
    /\ \A s \in Roots, j \in Index : lev[s] = 4 => n.tab[s][j] = m.tab[s][j]
    /\ \A s \in Roots, w \in Pages, q \in Phys :
          /\ lev[s] = 4
          /\ w # v \/ m.tab[s][Indices(v)[1]] # m.tab[r][Indices(v)[1]]
          => (Maps(n, s, w, q) <=> Maps(m, s, w, q))
    /\ \A s \in Roots, q \in Phys :
          lev[s] = 4 /\ m.tab[s][Indices(v)[1]] = m.tab[r][Indices(v)[1]]
          => (Maps(n, s, v, q) <=> q = p)

(* map writes the entry of page v and of no other page, in r and in the    *)
(* spaces that share its lower tables.                                     *)
LEMMA SetEntrySound ==
    ASSUME NEW m, NEW lev, Shaped(m, lev), NEW r \in Roots, lev[r] = 4, NEW v \in Pages,
           ~Unreadable(m, r, v), NEW p \in Phys, NEW n, n = SetEntry(m, r, v, p)
    PROVE  Shaped(n, lev) /\ EntryWritten(m, lev, n, r, v, p)
  <1>1. PICK l3, l2, l1 \in Frame :
              /\ Tables(m, r, v) = <<r, l3, l2, l1>>
              /\ m.tab[r][Indices(v)[1]] = Present(l3)
              /\ m.tab[l3][Indices(v)[2]] = Present(l2)
              /\ m.tab[l2][Indices(v)[3]] = Present(l1)
              /\ lev[l3] = 3 /\ lev[l2] = 2 /\ lev[l1] = 1
    BY ReadablePath
  <1>2. PICK x1 \in Index : x1 = Indices(v)[1]
    BY IndexTyped
  <1>3. PICK x2 \in Index : x2 = Indices(v)[2]
    BY IndexTyped
  <1>4. PICK x3 \in Index : x3 = Indices(v)[3]
    BY IndexTyped
  <1>5. PICK x4 \in Index : x4 = Indices(v)[4]
    BY IndexTyped
  <1>6. l1 \in Roots /\ l2 \in Roots /\ l3 \in Roots /\ lev \in [Roots -> 0 .. 4]
    BY ConstantFacts DEF Shaped, Levels
  <1>7. Typed(m) /\ m.tab \in [Roots -> [Index -> Entry]]
    BY DEF Shaped, Typed
  <1>8. n = [m EXCEPT !.tab[l1][x4] = Present(p)]
    BY <1>1, <1>5 DEF SetEntry
  <1>9. PICK t : t = [m.tab EXCEPT ![l1][x4] = Present(p)]
    OBVIOUS
  <1>10. n = [tab |-> t, free |-> m.free]
    <2>1. PICK tm, fr : tm = m.tab /\ fr = m.free
      OBVIOUS
    <2>2. m = [tab |-> tm, free |-> fr]
      BY <1>7, <2>1 DEF Typed
    <2>3. [[tab |-> tm, free |-> fr] EXCEPT !.tab[l1][x4] = Present(p)]
            = [tab |-> [tm EXCEPT ![l1][x4] = Present(p)], free |-> fr]
      OBVIOUS
    <2> QED
      BY <1>8, <1>9, <2>1, <2>2, <2>3
  <1>11. Present(p) \in Entry
    BY DEF Present, Entry
  <1>12. /\ t \in [Roots -> [Index -> Entry]]
         /\ t[l1][x4] = Present(p)
         /\ \A h \in Roots, j \in Index : h # l1 \/ j # x4 => t[h][j] = m.tab[h][j]
    BY <1>6, <1>7, <1>9, <1>11
  <1>13. Typed(n) /\ n.free = m.free /\ n.tab = t
    BY <1>7, <1>10, <1>12 DEF Typed
  <1>14. \A h \in Roots, j \in Index : lev[h] # 1 => n.tab[h][j] = m.tab[h][j]
    BY <1>1, <1>12, <1>13
  <1>15. Shaped(n, lev)
    <2>1. Levels(n, lev)
      BY <1>13 DEF Shaped, Levels
    <2>2. \A h \in Roots : lev[h] > 1 => lev[h] # 1
      BY <1>6
    <2>3. Descends(n, lev)
      BY <1>14, <2>2 DEF Shaped, Descends, Leads
    <2>4. Unshared(n, lev)
      BY <1>14, <2>2 DEF Shaped, Unshared
    <2>5. lev[0] # 1
      BY ConstantFacts DEF Shaped, Levels
    <2>6. FrameZero(n)
      BY <1>14, <2>5, ConstantFacts DEF Shaped, FrameZero
    <2> QED
      BY <1>13, <2>1, <2>3, <2>4, <2>6 DEF Shaped
  <1>16. \A s \in Roots, j \in Index : lev[s] = 4 => n.tab[s][j] = m.tab[s][j]
    BY <1>14
  <1>17. ASSUME NEW s \in Roots, NEW w \in Pages, NEW q \in Phys, lev[s] = 4,
                w # v \/ m.tab[s][x1] # m.tab[r][x1]
         PROVE  Maps(n, s, w, q) <=> Maps(m, s, w, q)
    <2>1. PICK y1 \in Index : y1 = Indices(w)[1]
      BY IndexTyped
    <2>2. PICK y2 \in Index : y2 = Indices(w)[2]
      BY IndexTyped
    <2>3. PICK y3 \in Index : y3 = Indices(w)[3]
      BY IndexTyped
    <2>4. PICK y4 \in Index : y4 = Indices(w)[4]
      BY IndexTyped
    <2>5. ASSUME NEW a \in Frame, NEW b \in Frame, NEW c \in Frame
          PROVE  Walks(n, s, w, a, b, c, q) <=> Walks(m, s, w, a, b, c, q)
      <3>1. \A k \in {m, n} : Walks(k, s, w, a, b, c, q) <=>
                         /\ k.tab[s][y1] = Present(a) /\ k.tab[a][y2] = Present(b)
                         /\ k.tab[b][y3] = Present(c) /\ k.tab[c][y4] = Present(q)
        BY <2>1, <2>2, <2>3, <2>4 DEF Walks
      <3>2. a \in Roots /\ b \in Roots /\ c \in Roots
        BY ConstantFacts
      <3>3. CASE ~(m.tab[s][y1] = Present(a) /\ m.tab[a][y2] = Present(b)
              /\ m.tab[b][y3] = Present(c))
        <4>1. ~Walks(m, s, w, a, b, c, q)
          BY <3>1, <3>3
        <4>2. ASSUME Walks(n, s, w, a, b, c, q) PROVE FALSE
          <5>1. lev[a] = 3 /\ lev[b] = 2
            BY <1>15, <1>17, <4>2, WalkLevels
          <5> QED
            BY <1>14, <1>17, <3>1, <3>2, <3>3, <4>2, <5>1
        <4> QED
          BY <4>1, <4>2
      <3>4. CASE m.tab[s][y1] = Present(a) /\ m.tab[a][y2] = Present(b)
              /\ m.tab[b][y3] = Present(c)
        <4>1. lev[a] = 3 /\ lev[b] = 2
          <5>1. lev[a] = 3
            BY <1>17, <3>4, LeadsDown
          <5> QED
            BY <3>2, <3>4, <5>1, LeadsDown
        <4>2. n.tab[s][y1] = m.tab[s][y1] /\ n.tab[a][y2] = m.tab[a][y2]
                /\ n.tab[b][y3] = m.tab[b][y3]
          BY <1>14, <1>17, <3>2, <4>1
        <4>3. c # l1 \/ y4 # x4
          <5> SUFFICES ASSUME c = l1, y4 = x4 PROVE FALSE
            OBVIOUS
          <5>1. l2 = b /\ x3 = y3 /\ l3 = a /\ x2 = y2 /\ x1 = y1
            <6>1. m.tab[r][x1] = Present(l3) /\ m.tab[l3][x2] = Present(l2)
                    /\ m.tab[l2][x3] = Present(l1)
              BY <1>1, <1>2, <1>3, <1>4
            <6>2. l2 = b /\ x3 = y3
              BY <1>1, <1>6, <3>2, <3>4, <4>1, <6>1, OneWay
            <6>3. l3 = a /\ x2 = y2
              BY <1>1, <1>6, <3>2, <3>4, <4>1, <6>1, <6>2, OneWay
            <6>4. x1 = y1
              BY <1>17, <3>4, <6>1, <6>3, OneWay
            <6> QED
              BY <6>2, <6>3, <6>4
          <5>2. v = w
            BY <1>2, <1>3, <1>4, <1>5, <2>1, <2>2, <2>3, <2>4, <5>1, IndexInjective
          <5>3. m.tab[s][x1] = m.tab[r][x1]
            BY <1>1, <1>2, <3>4, <5>1
          <5> QED
            BY <1>17, <5>2, <5>3
        <4>4. n.tab[c][y4] = m.tab[c][y4]
          BY <1>12, <1>13, <3>2, <4>3
        <4> QED
          BY <3>1, <4>2, <4>4
      <3> QED
        BY <3>3, <3>4
    <2> QED
      BY <2>5 DEF Maps
  <1>18. ASSUME NEW s \in Roots, NEW q \in Phys, lev[s] = 4, m.tab[s][x1] = m.tab[r][x1]
         PROVE  Maps(n, s, v, q) <=> q = p
    <2>1. \A a, b, c : Walks(n, s, v, a, b, c, q) <=>
                         /\ n.tab[s][x1] = Present(a) /\ n.tab[a][x2] = Present(b)
                         /\ n.tab[b][x3] = Present(c) /\ n.tab[c][x4] = Present(q)
      BY <1>2, <1>3, <1>4, <1>5 DEF Walks
    <2>2. n.tab[s][x1] = Present(l3) /\ n.tab[l3][x2] = Present(l2)
            /\ n.tab[l2][x3] = Present(l1)
      BY <1>1, <1>2, <1>3, <1>4, <1>6, <1>14, <1>18
    <2>3. n.tab[l1][x4] = Present(p)
      BY <1>12, <1>13
    <2>4. Walks(n, s, v, l3, l2, l1, p) \/ q # p
      BY <2>1, <2>2, <2>3
    <2>5. ASSUME NEW a \in Frame, NEW b \in Frame, NEW c \in Frame, Walks(n, s, v, a, b, c, q)
          PROVE  q = p
      BY <2>1, <2>2, <2>3, <2>5, EntryFacts
    <2>6. q = p => Maps(n, s, v, q)
      BY <2>4 DEF Maps
    <2>7. Maps(n, s, v, q) => q = p
      BY <2>5 DEF Maps
    <2> QED
      BY <2>6, <2>7
  <1> QED
    BY <1>2, <1>13, <1>15, <1>16, <1>17, <1>18 DEF EntryWritten

(* What unmapping page v does.                                             *)
Unmapped(m, lev, n, r, v) ==
    /\ n.free = m.free \cup {0}
    /\ \A s \in Roots, j \in Index :
          lev[s] = 4 /\ j # Indices(v)[1] => n.tab[s][j] = m.tab[s][j]
    /\ \A s \in Roots, w \in Pages, q \in Phys :
          lev[s] = 4 /\ Maps(n, s, w, q) => Maps(m, s, w, q)
    /\ \A s \in Roots, w \in Pages, q \in Phys :
          /\ lev[s] = 4 /\ Indices(w)[1] # Indices(v)[1]
          /\ Maps(m, s, w, q)
          => Maps(n, s, w, q)
    /\ \A s \in Roots, q \in Phys :
          lev[s] = 4 /\ m.tab[s][Indices(v)[1]] = m.tab[r][Indices(v)[1]] => ~Maps(n, s, v, q)

(* unmap takes away page v, and with it others of the same l4 entry, but   *)
(* nothing outside that entry, and leaves the tables a forest.             *)
LEMMA UnmapSound ==
    ASSUME NEW m, NEW lev, Shaped(m, lev), NEW r \in Roots, lev[r] = 4, NEW v \in Pages,
           ~Unreadable(m, r, v), NEW n, n = unmap(m, r, v)
    PROVE  Shaped(n, lev) /\ Unmapped(m, lev, n, r, v)
  <1>1. PICK l3, l2, l1 \in Frame :
              /\ Tables(m, r, v) = <<r, l3, l2, l1>>
              /\ m.tab[r][Indices(v)[1]] = Present(l3)
              /\ m.tab[l3][Indices(v)[2]] = Present(l2)
              /\ m.tab[l2][Indices(v)[3]] = Present(l1)
              /\ lev[l3] = 3 /\ lev[l2] = 2 /\ lev[l1] = 1
    BY ReadablePath
  <1>2. PICK x1 \in Index : x1 = Indices(v)[1]
    BY IndexTyped
  <1>3. PICK x2 \in Index : x2 = Indices(v)[2]
    BY IndexTyped
  <1>4. PICK x3 \in Index : x3 = Indices(v)[3]
    BY IndexTyped
  <1>5. PICK x4 \in Index : x4 = Indices(v)[4]
    BY IndexTyped
  <1>6. l1 \in Roots /\ l2 \in Roots /\ l3 \in Roots /\ lev \in [Roots -> 0 .. 4]
    BY ConstantFacts DEF Shaped, Levels
  <1>7. Typed(m) /\ m.tab \in [Roots -> [Index -> Entry]] /\ m.free \in SUBSET Frame
    BY DEF Shaped, Typed
  <1>8. PICK t : t = [m.tab EXCEPT ![r][x1] = Zero, ![l3][x2] = Zero, ![l2][x3] = Zero,
               ![l1][x4] = Zero]
    OBVIOUS
  <1>9. n = [tab |-> t, free |-> m.free \cup {0}]
    <2>1. PICK ts, xs : ts = Tables(m, r, v) /\ xs = Indices(v)
      OBVIOUS
    <2>2. ts[1] = r /\ ts[2] = l3 /\ ts[3] = l2 /\ ts[4] = l1
      BY <1>1, <2>1
    <2>3. xs[1] = x1 /\ xs[2] = x2 /\ xs[3] = x3 /\ xs[4] = x4
      BY <1>2, <1>3, <1>4, <1>5, <2>1
    <2>4. n = [tab  |-> [m.tab EXCEPT ![ts[1]][xs[1]] = Zero, ![ts[2]][xs[2]] = Zero,
                                      ![ts[3]][xs[3]] = Zero, ![ts[4]][xs[4]] = Zero],
               free |-> m.free \cup {0}]
      BY <2>1 DEF unmap
    <2> QED
      BY <1>8, <2>2, <2>3, <2>4
  <1>10. Zero \in Entry
    BY ConstantFacts DEF Zero, Entry
  <1>11. r # l3 /\ r # l2 /\ r # l1 /\ l3 # l2 /\ l3 # l1 /\ l2 # l1
    BY <1>1
  <1>12. /\ t \in [Roots -> [Index -> Entry]]
         /\ t[r][x1] = Zero /\ t[l3][x2] = Zero /\ t[l2][x3] = Zero /\ t[l1][x4] = Zero
         /\ \A h \in Roots, j \in Index :
               /\ h # r \/ j # x1
               /\ h # l3 \/ j # x2
               /\ h # l2 \/ j # x3
               /\ h # l1 \/ j # x4
               => t[h][j] = m.tab[h][j]
    <2>1. PICK t1 : t1 = [m.tab EXCEPT ![r][x1] = Zero]
      OBVIOUS
    <2>2. PICK t2 : t2 = [t1 EXCEPT ![l3][x2] = Zero]
      OBVIOUS
    <2>3. PICK t3 : t3 = [t2 EXCEPT ![l2][x3] = Zero]
      OBVIOUS
    <2>4. t = [t3 EXCEPT ![l1][x4] = Zero]
      BY <1>8, <2>1, <2>2, <2>3
    <2>5. /\ t1 \in [Roots -> [Index -> Entry]] /\ t1[r][x1] = Zero
          /\ \A h \in Roots, j \in Index : h # r \/ j # x1 => t1[h][j] = m.tab[h][j]
      BY <1>7, <1>10, <2>1
    <2>6. /\ t2 \in [Roots -> [Index -> Entry]] /\ t2[l3][x2] = Zero
          /\ \A h \in Roots, j \in Index : h # l3 \/ j # x2 => t2[h][j] = t1[h][j]
      BY <1>6, <1>10, <2>2, <2>5
    <2>7. /\ t3 \in [Roots -> [Index -> Entry]] /\ t3[l2][x3] = Zero
          /\ \A h \in Roots, j \in Index : h # l2 \/ j # x3 => t3[h][j] = t2[h][j]
      BY <1>6, <1>10, <2>3, <2>6
    <2>8. /\ t \in [Roots -> [Index -> Entry]] /\ t[l1][x4] = Zero
          /\ \A h \in Roots, j \in Index : h # l1 \/ j # x4 => t[h][j] = t3[h][j]
      BY <1>6, <1>10, <2>4, <2>7
    <2> QED
      BY <1>6, <1>11, <2>5, <2>6, <2>7, <2>8
  <1>13. n.free = m.free \cup {0} /\ n.tab = t
    BY <1>9
  <1>14. Typed(n)
    BY <1>7, <1>9, <1>12, <1>13, ConstantFacts DEF Typed
  <1>15. \A h \in Roots, j \in Index : n.tab[h][j] = m.tab[h][j] \/ n.tab[h][j] = Zero
    BY <1>12, <1>13
  <1>16. Shaped(n, lev)
    <2>1. Levels(n, lev)
      BY <1>13 DEF Shaped, Levels
    <2>2. Descends(n, lev)
      BY <1>15 DEF Shaped, Descends, Leads
    <2>3. Unshared(n, lev)
      <3> SUFFICES ASSUME NEW f \in Roots, NEW g \in Roots, NEW i \in Index, NEW j \in Index,
                          lev[f] > 1, lev[g] = lev[f],
                          n.tab[f][i].frame # 0, n.tab[f][i].frame = n.tab[g][j].frame
                   PROVE  i = j /\ (lev[f] # 4 => f = g)
        BY DEF Unshared
      <3>1. n.tab[f][i] = m.tab[f][i] /\ n.tab[g][j] = m.tab[g][j]
        BY <1>15, EntryFacts
      <3> QED
        BY <3>1 DEF Shaped, Unshared
    <2>4. FrameZero(n)
      BY <1>15, ConstantFacts DEF Shaped, FrameZero
    <2> QED
      BY <1>14, <2>1, <2>2, <2>3, <2>4 DEF Shaped
  <1>17. \A s \in Roots, j \in Index : lev[s] = 4 /\ j # x1 => n.tab[s][j] = m.tab[s][j]
    BY <1>1, <1>12, <1>13
  <1>18. ASSUME NEW s \in Roots, NEW w \in Pages, NEW q \in Phys, lev[s] = 4, Maps(n, s, w, q)
         PROVE  Maps(m, s, w, q)
    <2>1. PICK a, b, c \in Frame : Walks(n, s, w, a, b, c, q)
      BY <1>18 DEF Maps
    <2>2. a \in Roots /\ b \in Roots /\ c \in Roots
      BY ConstantFacts
    <2>3. \A d : \A h \in Roots, j \in Index : n.tab[h][j] = Present(d)
            => m.tab[h][j] = Present(d)
      BY <1>15, EntryFacts
    <2>4. Walks(m, s, w, a, b, c, q)
      BY <2>1, <2>2, <2>3, IndexTyped DEF Walks
    <2> QED
      BY <2>4 DEF Maps
  <1>19. ASSUME NEW s \in Roots, NEW w \in Pages, NEW q \in Phys, lev[s] = 4,
                Indices(w)[1] # x1, Maps(m, s, w, q)
         PROVE  Maps(n, s, w, q)
    <2>1. PICK a, b, c \in Frame : Walks(m, s, w, a, b, c, q)
      BY <1>19 DEF Maps
    <2>2. PICK y1 \in Index : y1 = Indices(w)[1]
      BY IndexTyped
    <2>3. PICK y2 \in Index : y2 = Indices(w)[2]
      BY IndexTyped
    <2>4. PICK y3 \in Index : y3 = Indices(w)[3]
      BY IndexTyped
    <2>5. PICK y4 \in Index : y4 = Indices(w)[4]
      BY IndexTyped
    <2>6. /\ a \in Roots /\ b \in Roots /\ c \in Roots
          /\ lev[a] = 3 /\ lev[b] = 2 /\ lev[c] = 1
      BY <1>19, <2>1, WalkLevels
    <2>7. /\ m.tab[s][y1] = Present(a) /\ m.tab[a][y2] = Present(b)
          /\ m.tab[b][y3] = Present(c) /\ m.tab[c][y4] = Present(q)
      BY <2>1, <2>2, <2>3, <2>4, <2>5 DEF Walks
    <2>8. a # l3 /\ b # l2 /\ c # l1
      <3>1. m.tab[r][x1] = Present(l3) /\ m.tab[l3][x2] = Present(l2)
              /\ m.tab[l2][x3] = Present(l1)
        BY <1>1, <1>2, <1>3, <1>4
      <3>2. a # l3
        BY <1>19, <2>2, <2>7, <3>1, OneWay
      <3>3. b # l2
        BY <1>1, <1>6, <2>6, <2>7, <3>1, <3>2, OneWay
      <3>4. c # l1
        BY <1>1, <1>6, <2>6, <2>7, <3>1, <3>3, OneWay
      <3> QED
        BY <3>2, <3>3, <3>4
    <2>9. /\ n.tab[s][y1] = m.tab[s][y1] /\ n.tab[a][y2] = m.tab[a][y2]
          /\ n.tab[b][y3] = m.tab[b][y3] /\ n.tab[c][y4] = m.tab[c][y4]
      BY <1>1, <1>12, <1>13, <1>19, <2>2, <2>6, <2>8
    <2>10. Walks(n, s, w, a, b, c, q)
      BY <2>2, <2>3, <2>4, <2>5, <2>7, <2>9 DEF Walks
    <2> QED
      BY <2>10 DEF Maps
  <1>20. ASSUME NEW s \in Roots, NEW q \in Phys, lev[s] = 4, m.tab[s][x1] = m.tab[r][x1],
                Maps(n, s, v, q)
         PROVE  FALSE
    <2>1. PICK a, b, c \in Frame : Walks(n, s, v, a, b, c, q)
      BY <1>20 DEF Maps
    <2>2. n.tab[s][x1] = Present(a) /\ n.tab[a][x2] = Present(b)
      BY <1>2, <1>3, <2>1 DEF Walks
    <2>3. m.tab[s][x1] = Present(a)
      BY <1>15, <2>2, EntryFacts
    <2>4. a = l3
      BY <1>1, <1>2, <1>20, <2>3, EntryFacts
    <2> QED
      BY <1>12, <1>13, <2>2, <2>4, EntryFacts
  <1> QED
    BY <1>2, <1>13, <1>16, <1>17, <1>18, <1>19, <1>20 DEF Unmapped

-----------------------------------------------------------------------------
(* The operations keep the invariant                                       *)

(* Tables appear only in frames that were free.                            *)
NewTables(m, lev, n, lev2) ==
    /\ n.free \subseteq m.free
    /\ \A f \in Roots : lev2[f] = lev[f] \/ (lev[f] = 0 /\ f \in m.free)

AskedAt(ask, rs, v, p) ==
    [r \in Roots |-> IF r \in rs THEN [ask[r] EXCEPT ![v] = p] ELSE ask[r]]

(* The record of what was asked, after one call.                           *)
LEMMA AskedAtFacts ==
    ASSUME NEW ask, AskedOK(ask), NEW rs, NEW v \in Pages, NEW p \in Phys \cup {NoPage}
    PROVE  /\ AskedOK(AskedAt(ask, rs, v, p))
           /\ \A s \in Roots, w \in Pages :
                 AskedAt(ask, rs, v, p)[s][w] = IF s \in rs /\ w = v THEN p ELSE ask[s][w]
  BY DEF AskedOK, AskedAt

(* What was asked of the kernel's table is a physical page.                *)
LEMMA AskedTyped ==
    ASSUME NEW ask, AskedOK(ask), NEW w \in Pages
    PROVE  ask[Boot][w] # NoPage => ask[Boot][w] \in Phys
  <1>1. Boot \in Roots
    BY ConstantFacts
  <1> QED
    BY <1>1 DEF AskedOK

(* The spaces that reach v through the lower tables of r, and the outcome  *)
(* of a step that maps.                                                    *)
SharedBy(k, S, r, v) == {s \in S : k.tab[s][Indices(v)[1]] = k.tab[r][Indices(v)[1]]}

Remapped(m, lev, n, S, ask) ==
    \E lev2 \in [Roots -> 0 .. 4] : Good(n, lev2, S, ask) /\ NewTables(m, lev, n, lev2)

(* map changes what the spaces that share the lower tables map at v, and   *)
(* nothing else.                                                           *)
LEMMA MapGood ==
    ASSUME NEW m, NEW lev \in [Roots -> 0 .. 4], NEW S, NEW ask, Good(m, lev, S, ask),
           NEW r \in S, NEW v \in Pages, v \in KernelPages => S = {Boot}, NEW p \in Phys,
           NEW k, k = WithTables(m, r, v), ~Unreadable(k, r, v),
           NEW n, n = SetEntry(k, r, v, p)
    PROVE  Remapped(m, lev, n, S, AskedAt(ask, SharedBy(k, S, r, v), v, p))
  <1>0. PICK rs : rs = SharedBy(k, S, r, v)
    OBVIOUS
  <1>1. /\ Shaped(m, lev) /\ Boot \in S /\ AskedOK(ask)
        /\ \A s \in S : s \in Roots /\ lev[s] = 4
    BY DEF Good, SpacesOK
  <1>2. Grown(m, lev, k, r, Indices(v)[1])
    BY <1>1, WithTablesGrows
  <1>3. PICK lev2 \in [Roots -> 0 .. 4] : Shaped(k, lev2)
               /\ Grows(m, lev, k, lev2, r, Indices(v)[1])
    BY <1>2 DEF Grown
  <1>4. \A s \in S : s \in Roots /\ lev2[s] = 4
    BY <1>1, <1>3 DEF Grows
  <1>5. Shaped(n, lev2) /\ EntryWritten(k, lev2, n, r, v, p)
    BY <1>3, <1>4, SetEntrySound
  <1>6. NewTables(m, lev, n, lev2)
    BY <1>3, <1>5 DEF Grows, EntryWritten, NewTables
  <1>7. SpacesOK(lev2, S)
    BY <1>1, <1>4 DEF SpacesOK
  <1>8. KernelHalf(n, S)
    <2> SUFFICES ASSUME NEW s \in S, NEW i \in Index, i >= Half
                 PROVE  n.tab[s][i] = n.tab[Boot][i]
      BY DEF KernelHalf
    <2>1. CASE v \in KernelPages
      BY <2>1
    <2>2. CASE v \notin KernelPages
      <3>1. Indices(v)[1] # i
        BY <2>2, TopIndex, ConstantFacts
      <3>2. \A h \in S : n.tab[h][i] = k.tab[h][i]
        BY <1>4, <1>5 DEF EntryWritten
      <3>3. \A h \in S : k.tab[h][i] = m.tab[h][i]
        BY <1>1, <1>3, <3>1 DEF Grows
      <3>4. m.tab[s][i] = m.tab[Boot][i]
        BY DEF Good, KernelHalf
      <3> QED
        BY <1>1, <3>2, <3>3, <3>4
    <2> QED
      BY <2>1, <2>2
  <1>9. PICK ask2 : ask2 = AskedAt(ask, rs, v, p)
    OBVIOUS
  <1>10. /\ AskedOK(ask2)
         /\ \A s \in Roots, w \in Pages : ask2[s][w] = IF s \in rs /\ w = v THEN p
              ELSE ask[s][w]
    BY <1>1, <1>9, AskedAtFacts
  <1>11. ASSUME NEW s \in S, NEW w \in Pages, NEW q \in Phys, ~(s \in rs /\ w = v)
         PROVE  Maps(n, s, w, q) <=> Maps(m, s, w, q)
    <2>1. w # v \/ k.tab[s][Indices(v)[1]] # k.tab[r][Indices(v)[1]]
      BY <1>0, <1>11 DEF SharedBy
    <2>2. Maps(n, s, w, q) <=> Maps(k, s, w, q)
      BY <1>4, <1>5, <2>1 DEF EntryWritten
    <2>3. Maps(k, s, w, q) <=> Maps(m, s, w, q)
      BY <1>1, <1>3 DEF Grows
    <2> QED
      BY <2>2, <2>3
  <1>12. ASSUME NEW s \in rs, NEW q \in Phys
         PROVE  Maps(n, s, v, q) <=> q = p
    BY <1>0, <1>4, <1>5 DEF EntryWritten, SharedBy
  <1>13. MapsAsked(n, S, ask2)
    <2> SUFFICES ASSUME NEW s \in S, NEW w \in Pages, NEW q \in Phys, Maps(n, s, w, q)
                 PROVE  q = ask2[s][w]
      BY DEF MapsAsked
    <2>1. CASE s \in rs /\ w = v
      BY <1>4, <1>10, <1>12, <2>1
    <2>2. CASE ~(s \in rs /\ w = v)
      <3>1. q = ask[s][w]
        BY <1>11, <2>2 DEF Good, MapsAsked
      <3> QED
        BY <1>4, <1>10, <2>2, <3>1
    <2> QED
      BY <2>1, <2>2
  <1>14. KernelMapped(n, ask2)
    <2> SUFFICES ASSUME NEW w \in KernelPages, ask2[Boot][w] # NoPage
                 PROVE  Maps(n, Boot, w, ask2[Boot][w])
      BY DEF KernelMapped
    <2>1. w \in Pages
      BY ConstantFacts
    <2>2. CASE w = v
      <3>1. Boot \in rs
        BY <1>0, <1>1, <2>2 DEF SharedBy
      <3> QED
        BY <1>10, <1>12, <2>1, <2>2, <3>1, ConstantFacts
    <2>3. CASE w # v
      <3>1. ask2[Boot][w] = ask[Boot][w]
        BY <1>10, <2>1, <2>3, ConstantFacts
      <3>2. Maps(m, Boot, w, ask[Boot][w])
        BY <3>1 DEF Good, KernelMapped
      <3>3. ask[Boot][w] \in Phys
        BY <1>1, <2>1, <3>1, AskedTyped
      <3> QED
        BY <1>1, <1>11, <2>1, <2>3, <3>1, <3>2, <3>3
    <2> QED
      BY <2>2, <2>3
  <1> QED
    BY <1>0, <1>5, <1>6, <1>7, <1>8, <1>9, <1>10, <1>13, <1>14 DEF Good, Remapped

(* unmap keeps the invariant: no kernel page is lost, and v is gone from   *)
(* every space that shares the tables of r.                                *)
LEMMA UnmapGood ==
    ASSUME NEW m, NEW lev, NEW S, NEW ask, Good(m, lev, S, ask),
           NEW r \in S, NEW v \in Frame, ~Unreadable(m, r, v),
           NEW n, n = unmap(m, r, v)
    PROVE  /\ Good(n, lev, S, AskedAt(ask, SharedBy(m, S, r, v), v, NoPage))
           /\ n.free = m.free \cup {0}
  <1>0. PICK rs : rs = SharedBy(m, S, r, v)
    OBVIOUS
  <1>1. /\ Shaped(m, lev) /\ Boot \in S /\ AskedOK(ask) /\ v \in Pages
        /\ \A s \in S : s \in Roots /\ lev[s] = 4
    BY ConstantFacts DEF Good, SpacesOK
  <1>2. Shaped(n, lev) /\ Unmapped(m, lev, n, r, v)
    BY <1>1, UnmapSound
  <1>3. PICK ask2 : ask2 = AskedAt(ask, rs, v, NoPage)
    OBVIOUS
  <1>4. /\ AskedOK(ask2)
        /\ \A s \in Roots, w \in Pages : ask2[s][w] = IF s \in rs /\ w = v THEN NoPage
             ELSE ask[s][w]
    <2>1. PICK np \in Phys \cup {NoPage} : np = NoPage
      OBVIOUS
    <2>2. /\ AskedOK(AskedAt(ask, rs, v, np))
          /\ \A s \in Roots, w \in Pages :
                AskedAt(ask, rs, v, np)[s][w] = IF s \in rs /\ w = v THEN np ELSE ask[s][w]
      BY <1>1, AskedAtFacts
    <2> QED
      BY <1>3, <2>1, <2>2
  <1>5. Indices(v)[1] \in Nat /\ Indices(v)[1] < Half /\ v \notin KernelPages
    BY <1>1, TopIndex, ConstantFacts
  <1>6. KernelHalf(n, S)
    <2> SUFFICES ASSUME NEW s \in S, NEW i \in Index, i >= Half
                 PROVE  n.tab[s][i] = n.tab[Boot][i]
      BY DEF KernelHalf
    <2>1. i # Indices(v)[1]
      BY <1>5, ConstantFacts
    <2>2. \A h \in S : n.tab[h][i] = m.tab[h][i]
      BY <1>1, <1>2, <2>1 DEF Unmapped
    <2>3. m.tab[s][i] = m.tab[Boot][i]
      BY DEF Good, KernelHalf
    <2> QED
      BY <1>1, <2>2, <2>3
  <1>7. MapsAsked(n, S, ask2)
    <2> SUFFICES ASSUME NEW s \in S, NEW w \in Pages, NEW q \in Phys, Maps(n, s, w, q)
                 PROVE  q = ask2[s][w]
      BY DEF MapsAsked
    <2>1. ~(s \in rs /\ w = v)
      BY <1>0, <1>1, <1>2 DEF Unmapped, SharedBy
    <2>2. Maps(m, s, w, q)
      BY <1>1, <1>2 DEF Unmapped
    <2>3. q = ask[s][w]
      BY <2>2 DEF Good, MapsAsked
    <2> QED
      BY <1>1, <1>4, <2>1, <2>3
  <1>8. KernelMapped(n, ask2)
    <2> SUFFICES ASSUME NEW w \in KernelPages, ask2[Boot][w] # NoPage
                 PROVE  Maps(n, Boot, w, ask2[Boot][w])
      BY DEF KernelMapped
    <2>1. w \in Pages /\ w # v
      BY <1>5, ConstantFacts
    <2>2. ask2[Boot][w] = ask[Boot][w]
      BY <1>4, <2>1, ConstantFacts
    <2>3. Maps(m, Boot, w, ask[Boot][w])
      BY <2>2 DEF Good, KernelMapped
    <2>4. ask[Boot][w] \in Phys
      BY <1>1, <2>1, <2>2, AskedTyped
    <2>5. Indices(w)[1] # Indices(v)[1]
      BY <1>5, <2>1, TopIndex, ConstantFacts
    <2>6. Maps(n, Boot, w, ask[Boot][w])
      BY <1>1, <1>2, <2>1, <2>3, <2>4, <2>5 DEF Unmapped
    <2> QED
      BY <2>2, <2>6
  <1>9. n.free = m.free \cup {0}
    BY <1>2 DEF Unmapped
  <1> QED
    BY <1>0, <1>1, <1>2, <1>3, <1>4, <1>6, <1>7, <1>8, <1>9 DEF Good, SpacesOK

(* Only the tables matter for what is mapped, so frames can be taken and   *)
(* given back as long as no table is free.                                 *)
LEMMA FreeGood ==
    ASSUME NEW m, NEW lev, NEW S, NEW ask, Good(m, lev, S, ask),
           NEW F \in SUBSET Frame, \A f \in Roots : lev[f] > 0 => f \notin F,
           NEW n, n = [tab |-> m.tab, free |-> F]
    PROVE  Good(n, lev, S, ask) /\ n.free = F
  <1>1. n.tab = m.tab /\ n.free = F
    OBVIOUS
  <1>2. Typed(n) /\ Levels(n, lev)
    BY <1>1 DEF Good, Shaped, Typed, Levels
  <1>3. Descends(n, lev) /\ Unshared(n, lev) /\ FrameZero(n)
    BY <1>1 DEF Good, Shaped, Descends, Leads, Unshared, FrameZero
  <1>4. KernelHalf(n, S)
    BY <1>1 DEF Good, KernelHalf
  <1>5. \A s, w, p : Maps(n, s, w, p) <=> Maps(m, s, w, p)
    BY <1>1 DEF Maps, Walks
  <1>6. MapsAsked(n, S, ask) /\ KernelMapped(n, ask)
    BY <1>5, Zenon DEF Good, MapsAsked, KernelMapped
  <1> QED
    BY <1>1, <1>2, <1>3, <1>4, <1>6 DEF Good, Shaped

(* The copy made by clone_page_table maps what the original maps.          *)
LEMMA ForkGood ==
    ASSUME NEW m, NEW lev \in [Roots -> 0 .. 4], NEW S, NEW ask, Good(m, lev, S, ask),
           NEW g, g = alloc_frame(m), g # 0,
           NEW n, n = [Taken(m) EXCEPT !.tab[g] = copy_page_table(m.tab[Boot])],
           NEW ask2, ask2 = [ask EXCEPT ![g] = ask[Boot]]
    PROVE  Remapped(m, lev, n, S \cup {g}, ask2)
  <1>1. /\ Shaped(m, lev) /\ Boot \in S /\ AskedOK(ask) /\ Typed(m)
        /\ \A s \in S : s \in Roots /\ lev[s] = 4
        /\ Boot \in Roots /\ lev[Boot] = 4
    BY DEF Good, SpacesOK, Shaped
  <1>2. g \in m.free /\ g \in Frame /\ g \in Roots
    BY <1>1, AllocSound, ConstantFacts
  <1>3. lev[g] = 0 /\ g # Boot /\ g \notin S
    BY <1>1, <1>2 DEF Shaped, Levels
  <1>4. PICK row : row = copy_page_table(m.tab[Boot])
    OBVIOUS
  <1>5. PICK t : t = [m.tab EXCEPT ![g] = row]
    OBVIOUS
  <1>6. n = [tab |-> t, free |-> m.free \ {g}]
    <2>1. Taken(m) = [tab |-> m.tab, free |-> m.free \ {g}]
      BY <1>1, AllocSound
    <2>2. PICK tm, fr : tm = m.tab /\ fr = m.free \ {g}
      OBVIOUS
    <2>3. [[tab |-> tm, free |-> fr] EXCEPT !.tab[g] = row]
            = [tab |-> [tm EXCEPT ![g] = row], free |-> fr]
      OBVIOUS
    <2> QED
      BY <1>4, <1>5, <2>1, <2>2, <2>3
  <1>7. n.tab = t /\ n.free = m.free \ {g}
    BY <1>6
  <1>8. m.tab \in [Roots -> [Index -> Entry]] /\ m.free \in SUBSET Frame
    BY <1>1 DEF Typed
  <1>9. Hole \in Entry
    BY ConstantFacts DEF Hole, Entry
  <1>10. /\ row \in [Index -> Entry]
         /\ \A i \in Index : row[i] = m.tab[Boot][i]
              \/ (row[i] = Hole /\ m.tab[Boot][i] = Zero /\ ~(i >= Half))
    BY <1>1, <1>4, <1>8, <1>9 DEF copy_page_table
  <1>11. t \in [Roots -> [Index -> Entry]] /\ t[g] = row /\ \A h \in Roots : h # g
           => t[h] = m.tab[h]
    BY <1>2, <1>5, <1>8, <1>10
  <1>12. Typed(n)
    BY <1>6, <1>7, <1>8, <1>11 DEF Typed
  <1>13. PICK lv : lv = [lev EXCEPT ![g] = 4]
    OBVIOUS
  <1>14. lv \in [Roots -> 0 .. 4] /\ lv[g] = 4 /\ \A h \in Roots : h # g => lv[h] = lev[h]
    BY <1>2, <1>13
  <1>15. Levels(n, lv)
    BY <1>1, <1>2, <1>7, <1>14 DEF Shaped, Levels
  <1>16. ASSUME NEW h \in Roots, NEW i \in Index, lev[h] > 1
         PROVE  m.tab[h][i] \in {Zero, Hole} \/ \E d \in Frame : m.tab[h][i] = Present(d)
                  /\ lv[d] = lev[h] - 1
    <2>1. CASE m.tab[h][i] \in {Zero, Hole}
      BY <2>1
    <2>2. CASE m.tab[h][i] \notin {Zero, Hole}
      <3>1. PICK d \in Frame : m.tab[h][i] = Present(d) /\ lev[d] = lev[h] - 1
        BY <1>1, <1>16, <2>2 DEF Shaped, Descends, Leads
      <3>2. d \in Roots /\ lev[h] \in 2 .. 4
        BY <1>16, ConstantFacts
      <3>3. d # g
        BY <1>3, <3>1, <3>2
      <3> QED
        BY <1>14, <3>1, <3>2, <3>3
    <2> QED
      BY <2>1, <2>2
  <1>17. Descends(n, lv)
    <2> SUFFICES ASSUME NEW h \in Roots, NEW i \in Index, lv[h] > 1
                 PROVE  Leads(n, lv, h, i)
      BY DEF Descends
    <2>1. CASE h # g
      <3>1. lev[h] > 1 /\ lv[h] = lev[h] /\ n.tab[h][i] = m.tab[h][i]
        BY <1>7, <1>11, <1>14, <2>1
      <3> QED
        BY <1>16, <3>1 DEF Leads
    <2>2. CASE h = g
      <3>1. lv[h] = lev[Boot] /\ lev[Boot] > 1
        BY <1>1, <1>14, <2>2
      <3>2. n.tab[h][i] = m.tab[Boot][i] \/ n.tab[h][i] = Hole
        BY <1>7, <1>10, <1>11, <2>2
      <3> QED
        BY <1>1, <1>16, <3>1, <3>2 DEF Leads
    <2> QED
      BY <2>1, <2>2
  <1>18. Unshared(n, lv)
    <2> SUFFICES ASSUME NEW e \in Roots, NEW f \in Roots, NEW i \in Index, NEW j \in Index,
                        lv[e] > 1, lv[f] = lv[e],
                        n.tab[e][i].frame # 0, n.tab[e][i].frame = n.tab[f][j].frame
                 PROVE  i = j /\ (lv[e] # 4 => e = f)
      BY DEF Unshared
    <2>1. PICK e0 \in Roots : e0 = IF e = g THEN Boot ELSE e
      BY <1>1
    <2>2. PICK f0 \in Roots : f0 = IF f = g THEN Boot ELSE f
      BY <1>1
    <2>3. lev[e0] = lv[e] /\ lev[f0] = lv[f]
      BY <1>1, <1>14, <2>1, <2>2
    <2>4. n.tab[e][i] = m.tab[e0][i]
      BY <1>7, <1>10, <1>11, <2>1, EntryFacts
    <2>5. n.tab[f][j] = m.tab[f0][j]
      BY <1>7, <1>10, <1>11, <2>2, EntryFacts
    <2>6. i = j /\ (lev[e0] # 4 => e0 = f0)
      BY <1>1, <2>3, <2>4, <2>5 DEF Shaped, Unshared
    <2> QED
      BY <1>14, <2>1, <2>2, <2>3, <2>6
  <1>19. FrameZero(n)
    BY <1>1, <1>7, <1>11, ConstantFacts DEF Shaped, FrameZero
  <1>20. Shaped(n, lv)
    BY <1>12, <1>15, <1>17, <1>18, <1>19 DEF Shaped
  <1>21. SpacesOK(lv, S \cup {g})
    BY <1>1, <1>2, <1>3, <1>14 DEF SpacesOK
  <1>22. KernelHalf(n, S \cup {g})
    <2> SUFFICES ASSUME NEW s \in S \cup {g}, NEW i \in Index, i >= Half
                 PROVE  n.tab[s][i] = n.tab[Boot][i]
      BY DEF KernelHalf
    <2>1. n.tab[Boot][i] = m.tab[Boot][i]
      BY <1>1, <1>3, <1>7, <1>11
    <2>2. CASE s = g
      BY <1>7, <1>10, <1>11, <2>1, <2>2
    <2>3. CASE s # g
      BY <1>1, <1>7, <1>11, <2>1, <2>3 DEF Good, KernelHalf
    <2> QED
      BY <2>2, <2>3
  <1>23. \A h \in Roots : ask2[h] = IF h = g THEN ask[Boot] ELSE ask[h]
    BY <1>1 DEF AskedOK
  <1>24. AskedOK(ask2)
    BY <1>1, <1>2 DEF AskedOK
  <1>25. ASSUME NEW s \in S \cup {g}, NEW w \in Pages, NEW q \in Phys
         PROVE  Maps(n, s, w, q) <=> Maps(m, IF s = g THEN Boot ELSE s, w, q)
    <2>1. PICK s0 \in Roots : s0 = IF s = g THEN Boot ELSE s
      BY <1>1
    <2>2. lev[s0] = 4 /\ s \in Roots /\ lv[s] = 4
      BY <1>1, <1>2, <1>14, <2>1
    <2>3. PICK x1 \in Index : x1 = Indices(w)[1]
      BY IndexTyped
    <2>4. \A d : n.tab[s][x1] = Present(d) <=> m.tab[s0][x1] = Present(d)
      BY <1>7, <1>10, <1>11, <2>1, <2>2, EntryFacts
    <2>5. ASSUME NEW a \in Frame, NEW b \in Frame, NEW c \in Frame
          PROVE  Walks(n, s, w, a, b, c, q) <=> Walks(m, s0, w, a, b, c, q)
      <3>1. a \in Roots /\ b \in Roots /\ c \in Roots
        BY ConstantFacts
      <3>2. CASE a # g /\ b # g /\ c # g
        <4>1. n.tab[a] = m.tab[a] /\ n.tab[b] = m.tab[b] /\ n.tab[c] = m.tab[c]
          BY <1>7, <1>11, <3>1, <3>2
        <4> QED
          BY <2>3, <2>4, <4>1 DEF Walks
      <3>3. CASE ~(a # g /\ b # g /\ c # g)
        <4>1. ASSUME Walks(n, s, w, a, b, c, q) PROVE FALSE
          <5>1. lv[a] = 3 /\ lv[b] = 2 /\ lv[c] = 1
            BY <1>20, <2>2, <4>1, WalkLevels
          <5> QED
            BY <1>14, <3>3, <5>1
        <4>2. ASSUME Walks(m, s0, w, a, b, c, q) PROVE FALSE
          <5>1. lev[a] = 3 /\ lev[b] = 2 /\ lev[c] = 1
            BY <1>1, <2>2, <4>2, WalkLevels
          <5> QED
            BY <1>3, <3>3, <5>1
        <4> QED
          BY <4>1, <4>2
      <3> QED
        BY <3>2, <3>3
    <2>6. Maps(n, s, w, q) <=> Maps(m, s0, w, q)
      BY <2>5 DEF Maps
    <2> QED
      BY <2>1, <2>6
  <1>26. MapsAsked(n, S \cup {g}, ask2)
    <2> SUFFICES ASSUME NEW s \in S \cup {g}, NEW w \in Pages, NEW q \in Phys, Maps(n, s, w, q)
                 PROVE  q = ask2[s][w]
      BY DEF MapsAsked
    <2>1. CASE s = g
      <3>1. Maps(m, Boot, w, q)
        BY <1>25, <2>1
      <3>2. q = ask[Boot][w]
        BY <1>1, <3>1 DEF Good, MapsAsked
      <3> QED
        BY <1>2, <1>23, <2>1, <3>2
    <2>2. CASE s # g
      <3>1. Maps(m, s, w, q)
        BY <1>25, <2>2
      <3>2. q = ask[s][w]
        BY <2>2, <3>1 DEF Good, MapsAsked
      <3> QED
        BY <1>1, <1>23, <2>2, <3>2
    <2> QED
      BY <2>1, <2>2
  <1>27. KernelMapped(n, ask2)
    <2> SUFFICES ASSUME NEW w \in KernelPages, ask2[Boot][w] # NoPage
                 PROVE  Maps(n, Boot, w, ask2[Boot][w])
      BY DEF KernelMapped
    <2>1. ask2[Boot][w] = ask[Boot][w] /\ w \in Pages
      BY <1>1, <1>3, <1>23, ConstantFacts
    <2>2. ask[Boot][w] \in Phys
      BY <1>1, <2>1, AskedTyped
    <2>3. Maps(m, Boot, w, ask[Boot][w])
      BY <2>1 DEF Good, KernelMapped
    <2> QED
      BY <1>1, <1>3, <1>25, <2>1, <2>2, <2>3
  <1>28. NewTables(m, lev, n, lv)
    BY <1>2, <1>3, <1>7, <1>14 DEF NewTables
  <1> QED
    BY <1>14, <1>20, <1>21, <1>22, <1>24, <1>26, <1>27, <1>28 DEF Good, Remapped

(* A space that goes leaves the others as they are.                        *)
LEMMA ExitGood ==
    ASSUME NEW m, NEW lev, NEW S, NEW ask, Good(m, lev, S, ask), NEW r \in S, r # Boot,
           NEW ask2, ask2 = [ask EXCEPT ![r] = [v \in Pages |-> NoPage]]
    PROVE  Good(m, lev, S \ {r}, ask2)
  <1>1. /\ Boot \in S /\ AskedOK(ask) /\ \A s \in S : s \in Roots /\ lev[s] = 4
    BY DEF Good, SpacesOK
  <1>2. AskedOK(ask2) /\ \A s \in Roots : s # r => ask2[s] = ask[s]
    BY <1>1 DEF AskedOK
  <1>3. MapsAsked(m, S \ {r}, ask2)
    BY <1>1, <1>2 DEF Good, MapsAsked
  <1>4. KernelMapped(m, ask2)
    <2>1. ask2[Boot] = ask[Boot]
      BY <1>1, <1>2
    <2> QED
      BY <2>1 DEF Good, KernelMapped
  <1>5. SpacesOK(lev, S \ {r}) /\ KernelHalf(m, S \ {r})
    BY <1>1 DEF Good, SpacesOK, KernelHalf
  <1> QED
    BY <1>2, <1>3, <1>4, <1>5 DEF Good

(* A frame that physmap returned stays what it is when others are taken.   *)
LEMMA HeldKept ==
    ASSUME NEW m, NEW lev, NEW n, NEW lev2, NEW H, HeldOK(m, lev, H),
           NewTables(m, lev, n, lev2)
    PROVE  HeldOK(n, lev2, H)
  <1>1. ASSUME NEW v \in H
        PROVE  v \in Frame /\ (v # 0 => v \notin n.free /\ lev2[v] = 0)
    <2>1. v \in Frame /\ (v # 0 => v \notin m.free /\ lev[v] = 0)
      BY DEF HeldOK
    <2>2. v \in Roots
      BY <2>1, ConstantFacts
    <2> QED
      BY <2>1, <2>2 DEF NewTables
  <1> QED
    BY <1>1 DEF HeldOK

(* Taking a frame keeps the invariant, and the frame is no table.          *)
LEMMA TakenGood ==
    ASSUME NEW m, NEW lev, NEW S, NEW ask, Good(m, lev, S, ask)
    PROVE  /\ Good(Taken(m), lev, S, ask) /\ NewTables(m, lev, Taken(m), lev)
           /\ alloc_frame(m) \in Frame /\ alloc_frame(m) \notin Taken(m).free
           /\ alloc_frame(m) # 0 => alloc_frame(m) \in m.free /\ lev[alloc_frame(m)] = 0
  <1>1. Typed(m) /\ Levels(m, lev) /\ m.free \in SUBSET Frame
    BY DEF Good, Shaped, Typed
  <1>2. PICK F : F = m.free \ {alloc_frame(m)}
    OBVIOUS
  <1>3. /\ Taken(m) = [tab |-> m.tab, free |-> F]
        /\ alloc_frame(m) \in Frame /\ alloc_frame(m) \in m.free \cup {0}
    BY <1>1, <1>2, AllocSound
  <1>4. F \in SUBSET Frame /\ \A f \in Roots : lev[f] > 0 => f \notin F
    BY <1>1, <1>2 DEF Levels
  <1>5. Good(Taken(m), lev, S, ask) /\ Taken(m).free = F
    BY <1>3, <1>4, FreeGood
  <1>6. NewTables(m, lev, Taken(m), lev)
    BY <1>2, <1>5 DEF NewTables
  <1>7. \A f \in Frame : f \in m.free => lev[f] = 0
    BY <1>1, ConstantFacts DEF Levels
  <1> QED
    BY <1>2, <1>3, <1>5, <1>6, <1>7

(* Frames taken one after another.                                         *)
LEMMA NewTablesTransitive ==
    ASSUME NEW m, NEW n, NEW k, NEW lev, NEW lev2, NEW lev3,
           NewTables(m, lev, n, lev2), NewTables(n, lev2, k, lev3)
    PROVE  NewTables(m, lev, k, lev3)
  BY DEF NewTables

(* map_range from memory m, for the steps that call it.                    *)
MapOutcome(m, lev) ==
    \/ halted' = TRUE /\ mem' = mem /\ asked' = asked
    \/ /\ halted' = halted
       /\ Remapped(m, lev, mem', spaces, asked')

(* map_range either faults or keeps the invariant.                         *)
LEMMA MapRangeStep ==
    ASSUME NEW m, NEW lev \in [Roots -> 0 .. 4], Good(m, lev, spaces, asked),
           NEW r \in spaces, NEW v \in Pages, v \in KernelPages => spaces = {Boot},
           NEW phys \in Devices \cup {0}, map_range(m, r, v, phys)
    PROVE  MapOutcome(m, lev)
  <1>1. PICK p : p = IF phys = 0 THEN alloc_frame(m) ELSE phys
    OBVIOUS
  <1>2. PICK m0 : m0 = IF phys = 0 THEN Taken(m) ELSE m
    OBVIOUS
  <1>3. PICK k : k = WithTables(m0, r, v)
    OBVIOUS
  <1>4. IF Unreadable(k, r, v)
        THEN halted' = TRUE /\ UNCHANGED <<mem, asked>>
        ELSE mem' = SetEntry(k, r, v, p) /\ Note(Sharing(k, r, v), v, p) /\ UNCHANGED halted
    BY <1>1, <1>2, <1>3 DEF map_range
  <1>5. p \in Phys
    BY <1>1, TakenGood DEF Phys
  <1>6. Good(m0, lev, spaces, asked) /\ NewTables(m, lev, m0, lev)
    <2>1. CASE phys = 0
      BY <1>2, <2>1, TakenGood
    <2>2. CASE phys # 0
      BY <1>2, <2>2 DEF NewTables
    <2> QED
      BY <2>1, <2>2
  <1>7. CASE Unreadable(k, r, v)
    BY <1>4, <1>7 DEF MapOutcome
  <1>8. CASE ~Unreadable(k, r, v)
    <2>1. PICK n : n = SetEntry(k, r, v, p)
      OBVIOUS
    <2>2. PICK ask : ask = AskedAt(asked, SharedBy(k, spaces, r, v), v, p)
      OBVIOUS
    <2>3. Remapped(m0, lev, n, spaces, ask)
      BY <1>3, <1>5, <1>6, <1>8, <2>1, <2>2, MapGood
    <2>4. mem' = n /\ halted' = halted /\ asked' = ask
      BY <1>4, <1>8, <2>1, <2>2 DEF Note, Sharing, SharedBy, AskedAt
    <2>5. PICK lev2 \in [Roots -> 0 .. 4] :
             Good(n, lev2, spaces, ask) /\ NewTables(m0, lev, n, lev2)
      BY <2>3 DEF Remapped
    <2>6. NewTables(m, lev, n, lev2)
      BY <1>6, <2>5, NewTablesTransitive
    <2> QED
      BY <2>4, <2>5, <2>6 DEF MapOutcome, Remapped
  <1> QED
    BY <1>7, <1>8

-----------------------------------------------------------------------------
(* The steps                                                               *)

(* The invariant of the next state, for a given assignment of levels.      *)
LEMMA StepTo ==
    ASSUME NEW lev2 \in [Roots -> 0 .. 4], Good(mem', lev2, spaces', asked'),
           ~halted' => HeldOK(mem', lev2, held'), ~started' => spaces' = {Boot},
           Boot \notin left'
    PROVE  IInv'
  BY DEF IInv, Inv

(* The invariant holds at boot.                                            *)
LEMMA InitIInv == Init => IInv
  <1> SUFFICES ASSUME Init PROVE IInv
    OBVIOUS
  <1> DEFINE lv == [f \in Roots |-> IF f = Boot THEN 4 ELSE 0]
  <1>1. lv \in [Roots -> 0 .. 4] /\ lv[Boot] = 4 /\ \A f \in Roots : f # Boot => lv[f] = 0
    BY ConstantFacts
  <1> HIDE DEF lv
  <1>2. PICK t : t = [f \in Roots |-> [i \in Index |-> IF f \in {0, Boot} THEN Zero
               ELSE Present(Frames - 1)]]
    OBVIOUS
  <1>3. mem = [tab |-> t, free |-> Frame \ {0}]
    BY <1>2 DEF Init
  <1>4. mem.tab = t /\ mem.free = Frame \ {0}
    BY <1>3
  <1>5. Zero \in Entry /\ Present(Frames - 1) \in Entry
    BY ConstantFacts DEF Zero, Present, Entry, Frame, Phys
  <1>6. t \in [Roots -> [Index -> Entry]]
    BY <1>2, <1>5
  <1>7. \A i \in Index : t[Boot][i] = Zero /\ t[0][i] = Zero
    BY <1>2, ConstantFacts
  <1>8. Typed(mem)
    BY <1>3, <1>4, <1>6 DEF Typed
  <1>9. Levels(mem, lv)
    BY <1>1, <1>4, ConstantFacts DEF Levels
  <1>10. Descends(mem, lv)
    BY <1>1, <1>4, <1>7 DEF Descends, Leads
  <1>11. Unshared(mem, lv)
    BY <1>1, <1>4, <1>7, EntryFacts DEF Unshared
  <1>12. FrameZero(mem)
    BY <1>4, <1>7 DEF FrameZero
  <1>13. Shaped(mem, lv)
    BY <1>8, <1>9, <1>10, <1>11, <1>12 DEF Shaped
  <1>14. SpacesOK(lv, spaces) /\ KernelHalf(mem, spaces) /\ spaces = {Boot}
    BY <1>1, ConstantFacts DEF Init, SpacesOK, KernelHalf
  <1>15. AskedOK(asked) /\ \A r \in Roots, v \in Pages : asked[r][v] = NoPage
    BY DEF Init, AskedOK
  <1>16. ASSUME NEW w \in Pages, NEW p PROVE ~Maps(mem, Boot, w, p)
    <2>1. mem.tab[Boot][Indices(w)[1]] = Zero
      BY <1>4, <1>7, IndexTyped
    <2> QED
      BY <2>1, EntryFacts DEF Maps, Walks
  <1>17. MapsAsked(mem, spaces, asked)
    BY <1>14, <1>16 DEF MapsAsked
  <1>18. KernelMapped(mem, asked)
    BY <1>15, ConstantFacts DEF KernelMapped
  <1>19. Good(mem, lv, spaces, asked)
    BY <1>13, <1>14, <1>15, <1>17, <1>18 DEF Good
  <1>20. HeldOK(mem, lv, held)
    BY DEF Init, HeldOK
  <1> QED
    BY <1>1, <1>14, <1>19, <1>20 DEF IInv, Inv, Init

(* k_exit never frees a table: free_page_table is reached with the count   *)
(* at 0 and frees only at 1.                                               *)
LEMMA DropKeeps ==
    ASSUME Typed(mem), DropMm
    PROVE  mem' = mem
  <1>1. PICK n : n = (ref_count - 1) % SizeT
    OBVIOUS
  <1>2. PICK d : d = IF n = 0 THEN free_page_table(n) ELSE [count |-> n, frames |-> {}]
    OBVIOUS
  <1>3. mem' = [mem EXCEPT !.free = @ \cup d.frames]
    BY <1>1, <1>2 DEF DropMm
  <1>4. d.frames = {}
    BY <1>2 DEF free_page_table
  <1>5. PICK tm, fr : tm = mem.tab /\ fr = mem.free
    OBVIOUS
  <1>6. mem = [tab |-> tm, free |-> fr]
    BY <1>5 DEF Typed
  <1>7. [[tab |-> tm, free |-> fr] EXCEPT !.free = @ \cup {}] = [tab |-> tm, free |-> fr]
    OBVIOUS
  <1> QED
    BY <1>3, <1>4, <1>6, <1>7

(* The idle thread's table is never left behind.                           *)
LEMMA BootStays == Boot \notin left /\ [Next]_vars => Boot \notin left'
  BY DEF Next, vars, BootMap, Start, k_physmap, k_physunmap, CloneVM, Fork, ExitVM, ExitFork,
         thread_switch_mm

(* Every step keeps the invariant.                                         *)
LEMMA NextIInv == IInv /\ [Next]_vars => IInv'
  <1> SUFFICES ASSUME IInv, [Next]_vars PROVE IInv'
    OBVIOUS
  <1>0. PICK lev \in [Roots -> 0 .. 4] : Inv(lev)
    BY DEF IInv
  <1>1. /\ Good(mem, lev, spaces, asked) /\ Shaped(mem, lev) /\ Typed(mem)
        /\ ~halted => HeldOK(mem, lev, held)
        /\ ~started => spaces = {Boot}
        /\ Boot \notin left
        /\ Boot \in spaces /\ \A r \in spaces : r \in Roots /\ lev[r] = 4
    BY <1>0 DEF Inv, Good, SpacesOK, Shaped
  <1> Boot \notin left'
    BY <1>1, BootStays
  <1>2. ASSUME NEW v \in KernelPages, NEW p \in Devices \cup {0}, BootMap(v, p)
        PROVE  IInv'
    <2>1. v \in Pages /\ spaces = {Boot} /\ ~halted
      BY <1>1, <1>2, ConstantFacts DEF BootMap
    <2>2. map_range(mem, Boot, v, p) /\ UNCHANGED <<spaces, started, held>>
      BY <1>2 DEF BootMap
    <2>3. MapOutcome(mem, lev)
      BY <1>1, <2>1, <2>2, MapRangeStep
    <2>4. CASE halted' = TRUE /\ mem' = mem /\ asked' = asked
      BY <1>1, <2>2, <2>4, StepTo
    <2>5. ASSUME NEW lev2 \in [Roots -> 0 .. 4], Good(mem', lev2, spaces, asked'),
                 NewTables(mem, lev, mem', lev2)
          PROVE  IInv'
      <3>1. HeldOK(mem', lev2, held)
        BY <1>1, <2>1, <2>5, HeldKept
      <3> QED
        BY <1>1, <2>2, <2>5, <3>1, StepTo
    <2> QED
      BY <2>3, <2>4, <2>5 DEF MapOutcome, Remapped
  <1>3. CASE Start
    BY <1>1, <1>3, StepTo DEF Start
  <1>4. ASSUME NEW r \in spaces, NEW p \in Devices \cup {0}, k_physmap(r, p)
        PROVE  IInv'
    <2>1. PICK v : v = alloc_frame(mem)
      OBVIOUS
    <2>2. /\ ~halted /\ started /\ map_range(Taken(mem), r, v, p)
          /\ held' = held \cup {v} /\ spaces' = spaces /\ started' = started
      BY <1>4, <2>1 DEF k_physmap
    <2>3. /\ Good(Taken(mem), lev, spaces, asked) /\ NewTables(mem, lev, Taken(mem), lev)
          /\ v \in Frame /\ v \notin Taken(mem).free
          /\ v # 0 => v \in mem.free /\ lev[v] = 0
      BY <1>1, <2>1, TakenGood
    <2>4. v \in Pages /\ v \in Roots /\ v \notin KernelPages
      <3>1. v \in Pages /\ v \in Roots
        BY <2>3, ConstantFacts
      <3> QED
        BY <2>3, <3>1, TopIndex, ConstantFacts
    <2>5. MapOutcome(Taken(mem), lev)
      BY <2>2, <2>3, <2>4, MapRangeStep
    <2>6. CASE halted' = TRUE /\ mem' = mem /\ asked' = asked
      BY <1>1, <2>2, <2>6, StepTo
    <2>7. ASSUME NEW lev2 \in [Roots -> 0 .. 4], Good(mem', lev2, spaces, asked'),
                 NewTables(Taken(mem), lev, mem', lev2)
          PROVE  IInv'
      <3>1. NewTables(mem, lev, mem', lev2)
        BY <2>3, <2>7, NewTablesTransitive
      <3>2. HeldOK(mem', lev2, held)
        BY <1>1, <2>2, <3>1, HeldKept
      <3>3. v # 0 => v \notin mem'.free /\ lev2[v] = 0
        BY <2>3, <2>4, <2>7 DEF NewTables
      <3>4. HeldOK(mem', lev2, held')
        BY <2>2, <2>3, <3>2, <3>3 DEF HeldOK
      <3> QED
        BY <2>2, <2>7, <3>4, StepTo
    <2> QED
      BY <2>5, <2>6, <2>7 DEF MapOutcome, Remapped
  <1>5. ASSUME NEW r \in spaces, NEW v \in UserPages, k_physunmap(r, v)
        PROVE  IInv'
    <2>1. PICK m : m = [mem EXCEPT !.free = @ \cup {v}]
      OBVIOUS
    <2>2. /\ ~halted /\ started /\ v \in held /\ held' = held \ {v}
          /\ spaces' = spaces /\ started' = started
          /\ IF Unreadable(m, r, v)
             THEN halted' = TRUE /\ UNCHANGED <<mem, asked>>
             ELSE mem' = unmap(m, r, v) /\ Note(Sharing(m, r, v), v, NoPage) /\ UNCHANGED halted
      BY <1>5, <2>1 DEF k_physunmap
    <2>3. CASE Unreadable(m, r, v)
      BY <1>1, <2>2, <2>3, StepTo
    <2>4. CASE ~Unreadable(m, r, v)
      <3>1. v \in Frame /\ v \in Roots
        BY ConstantFacts DEF UserPages
      <3>2. HeldOK(mem, lev, held)
        BY <1>1, <2>2
      <3>3. v # 0 => v \notin mem.free /\ lev[v] = 0
        BY <2>2, <3>2 DEF HeldOK
      <3>4. lev[v] = 0
        <4>1. v # 0 => lev[v] = 0
          BY <3>3
        <4>2. lev[0] = 0
          BY <1>1, ConstantFacts DEF Shaped, Levels
        <4> QED
          BY <4>1, <4>2
      <3>5. PICK F : F = mem.free \cup {v}
        OBVIOUS
      <3>6. m = [tab |-> mem.tab, free |-> F]
        <4>1. PICK tm, fr : tm = mem.tab /\ fr = mem.free
          OBVIOUS
        <4>2. mem = [tab |-> tm, free |-> fr]
          BY <1>1, <4>1 DEF Typed
        <4>3. [[tab |-> tm, free |-> fr] EXCEPT !.free = @ \cup {v}]
                = [tab |-> tm, free |-> fr \cup {v}]
          OBVIOUS
        <4> QED
          BY <2>1, <3>5, <4>1, <4>2, <4>3
      <3>7. F \in SUBSET Frame /\ \A f \in Roots : lev[f] > 0 => f \notin F
        BY <1>1, <3>1, <3>4, <3>5 DEF Typed, Shaped, Levels
      <3>8. Good(m, lev, spaces, asked) /\ m.free = F
        BY <1>1, <3>6, <3>7, FreeGood
      <3>9. PICK n : n = unmap(m, r, v)
        OBVIOUS
      <3>10. mem' = n /\ asked' = AskedAt(asked, SharedBy(m, spaces, r, v), v, NoPage)
        BY <2>2, <2>4, <3>9 DEF Note, Sharing, SharedBy, AskedAt
      <3>11. Good(mem', lev, spaces, asked') /\ mem'.free = F \cup {0}
        BY <2>4, <3>1, <3>8, <3>9, <3>10, UnmapGood
      <3>12. ASSUME NEW w \in held'
             PROVE  w \in Frame /\ (w # 0 => w \notin mem'.free /\ lev[w] = 0)
        <4>1. w \in held /\ w # v
          BY <2>2
        <4>2. w \in Frame /\ (w # 0 => w \notin mem.free /\ lev[w] = 0)
          BY <3>2, <4>1 DEF HeldOK
        <4> QED
          BY <3>5, <3>11, <4>1, <4>2
      <3>13. HeldOK(mem', lev, held')
        BY <3>12 DEF HeldOK
      <3> QED
        BY <2>2, <3>11, <3>13, StepTo
    <2> QED
      BY <2>3, <2>4
  <1>6. ASSUME NEW r \in spaces, ExitFork(r)
        PROVE  IInv'
    <2>1. mem' = mem /\ UNCHANGED <<spaces, started, held, asked, halted>>
      BY <1>1, <1>6, DropKeeps DEF ExitFork
    <2> QED
      BY <1>1, <2>1, StepTo
  <1>7. ASSUME NEW r \in spaces, thread_switch_mm(r)
        PROVE  IInv'
    <2>1. /\ r \in left /\ spaces' = spaces \ {r}
          /\ asked' = [asked EXCEPT ![r] = [v \in Pages |-> NoPage]]
          /\ UNCHANGED <<mem, started, held, halted>>
      BY <1>7 DEF thread_switch_mm
    <2>2. r # Boot
      BY <1>1, <2>1
    <2>3. Good(mem, lev, spaces \ {r}, asked')
      BY <1>1, <2>1, <2>2, ExitGood
    <2> QED
      BY <1>1, <2>1, <2>3, StepTo
  <1>8. CASE CloneVM
    BY <1>1, <1>8, StepTo DEF CloneVM
  <1>9. CASE Fork
    <2>1. PICK g : g = alloc_frame(mem)
      OBVIOUS
    <2>2. /\ ~halted /\ started /\ held' = held /\ started' = started
          /\ IF g = 0
             THEN halted' = TRUE /\ UNCHANGED <<mem, spaces, asked>>
             ELSE /\ mem' = [Taken(mem) EXCEPT !.tab[g] = copy_page_table(mem.tab[Boot])]
                  /\ spaces' = spaces \cup {g}
                  /\ asked' = [asked EXCEPT ![g] = asked[Boot]]
                  /\ UNCHANGED halted
      BY <1>9, <2>1 DEF Fork
    <2>3. CASE g = 0
      BY <1>1, <2>2, <2>3, StepTo
    <2>4. CASE g # 0
      <3>1. Remapped(mem, lev, mem', spaces \cup {g}, asked')
        BY <1>1, <2>1, <2>2, <2>4, ForkGood
      <3>2. PICK lev2 \in [Roots -> 0 .. 4] :
              Good(mem', lev2, spaces \cup {g}, asked') /\ NewTables(mem, lev, mem', lev2)
        BY <3>1 DEF Remapped
      <3>3. HeldOK(mem', lev2, held)
        BY <1>1, <2>2, <3>2, HeldKept
      <3> QED
        BY <2>2, <2>4, <3>2, <3>3, StepTo
    <2> QED
      BY <2>3, <2>4
  <1>10. CASE ExitVM
    <2>1. mem' = mem /\ UNCHANGED <<spaces, started, held, asked, halted>>
      BY <1>1, <1>10, DropKeeps DEF ExitVM
    <2> QED
      BY <1>1, <2>1, StepTo
  <1>11. CASE UNCHANGED vars
    <2>1. UNCHANGED <<mem, spaces, started, held, asked, halted>>
      BY <1>11 DEF vars
    <2> QED
      BY <1>1, <2>1, StepTo
  <1> QED
    BY <1>2, <1>3, <1>4, <1>5, <1>6, <1>7, <1>8, <1>9, <1>10, <1>11 DEF Next

(* The invariant holds in every reachable state.                           *)
THEOREM PagesInvariant == Spec => []IInv
  BY InitIInv, NextIInv, PTL DEF Spec

-----------------------------------------------------------------------------
(* What the invariant gives                                                *)

(* The walk of the processor, one entry at a time.                         *)
Followed(f, i) ==
    IF f = NoPage \/ mem.tab[f][i].kind # "present" THEN NoPage ELSE mem.tab[f][i].frame

(* Translation, written with Followed.                                     *)
LEMMA TranslationFollows ==
    ASSUME NEW r, NEW v
    PROVE  Translation(r, v) =
             Followed(Followed(Followed(Followed(r, Indices(v)[1]), Indices(v)[2]),
               Indices(v)[3]),
                      Indices(v)[4])
  BY DEF Translation, Followed

(* An entry that is present is followed.                                   *)
LEMMA FollowedFacts ==
    ASSUME NEW f \in Roots, NEW i \in Index, Typed(mem)
    PROVE  /\ Followed(f, i) # NoPage => mem.tab[f][i] = Present(Followed(f, i))
                /\ Followed(f, i) \in Phys
           /\ \A g : mem.tab[f][i] = Present(g) => Followed(f, i) = g
  <1>1. f # NoPage
    BY ConstantFacts
  <1>2. PICK e \in Entry : e = mem.tab[f][i]
    BY DEF Typed
  <1>3. e.frame \in Phys /\ (e.kind = "present" => e = Present(e.frame))
    BY DEF Entry, Present
  <1>4. \A g : Present(g).kind = "present" /\ Present(g).frame = g
    BY DEF Present
  <1>5. Followed(f, i) = IF e.kind # "present" THEN NoPage ELSE e.frame
    BY <1>1, <1>2 DEF Followed
  <1>6. Followed(f, i) # NoPage => e.kind = "present" /\ Followed(f, i) = e.frame
    BY <1>5, Zenon
  <1>7. ASSUME NEW g, e = Present(g) PROVE Followed(f, i) = g
    BY <1>4, <1>5, <1>7
  <1> QED
    BY <1>2, <1>3, <1>6, <1>7

(* A walk that has ended stays ended.                                      *)
LEMMA FollowedNowhere ==
    ASSUME NEW i PROVE Followed(NoPage, i) = NoPage
  BY DEF Followed

(* The processor finds p at page v exactly when the four entries are there.*)
LEMMA TranslationMaps ==
    ASSUME NEW lev, Shaped(mem, lev), NEW r \in Roots, lev[r] = 4, NEW v \in Pages
    PROVE  /\ Translation(r, v) # NoPage => Translation(r, v) \in Phys
                /\ Maps(mem, r, v, Translation(r, v))
           /\ \A p : Maps(mem, r, v, p) => Translation(r, v) = p
  <1>1. PICK x1 \in Index : x1 = Indices(v)[1]
    BY IndexTyped
  <1>2. PICK x2 \in Index : x2 = Indices(v)[2]
    BY IndexTyped
  <1>3. PICK x3 \in Index : x3 = Indices(v)[3]
    BY IndexTyped
  <1>4. PICK x4 \in Index : x4 = Indices(v)[4]
    BY IndexTyped
  <1>5. PICK a : a = Followed(r, x1)
    OBVIOUS
  <1>6. PICK b : b = Followed(a, x2)
    OBVIOUS
  <1>7. PICK c : c = Followed(b, x3)
    OBVIOUS
  <1>8. PICK q : q = Followed(c, x4)
    OBVIOUS
  <1>9. Translation(r, v) = q
    BY <1>1, <1>2, <1>3, <1>4, <1>5, <1>6, <1>7, <1>8, TranslationFollows
  <1>10. Typed(mem)
    BY DEF Shaped
  <1>11. ASSUME q # NoPage PROVE q \in Phys /\ Maps(mem, r, v, q)
    <2>1. c # NoPage
      BY <1>8, <1>11, FollowedNowhere
    <2>2. b # NoPage
      BY <1>7, <2>1, FollowedNowhere
    <2>3. a # NoPage
      BY <1>6, <2>2, FollowedNowhere
    <2>4. mem.tab[r][x1] = Present(a)
      BY <1>5, <1>10, <2>3, FollowedFacts
    <2>5. a \in Frame /\ a \in Roots /\ lev[a] = 3
      BY <2>4, LeadsDown
    <2>6. mem.tab[a][x2] = Present(b)
      BY <1>6, <1>10, <2>2, <2>5, FollowedFacts
    <2>7. b \in Frame /\ b \in Roots /\ lev[b] = 2
      BY <2>5, <2>6, LeadsDown
    <2>8. mem.tab[b][x3] = Present(c)
      BY <1>7, <1>10, <2>1, <2>7, FollowedFacts
    <2>9. c \in Frame /\ c \in Roots
      BY <2>7, <2>8, LeadsDown
    <2>10. mem.tab[c][x4] = Present(q) /\ q \in Phys
      BY <1>8, <1>10, <1>11, <2>9, FollowedFacts
    <2>11. Walks(mem, r, v, a, b, c, q)
      BY <1>1, <1>2, <1>3, <1>4, <2>4, <2>6, <2>8, <2>10 DEF Walks
    <2> QED
      BY <2>5, <2>7, <2>9, <2>10, <2>11 DEF Maps
  <1>12. ASSUME NEW p, Maps(mem, r, v, p) PROVE q = p
    <2>1. PICK d, e, f \in Frame : Walks(mem, r, v, d, e, f, p)
      BY <1>12 DEF Maps
    <2>2. /\ mem.tab[r][x1] = Present(d) /\ mem.tab[d][x2] = Present(e)
          /\ mem.tab[e][x3] = Present(f) /\ mem.tab[f][x4] = Present(p)
      BY <1>1, <1>2, <1>3, <1>4, <2>1 DEF Walks
    <2>3. d \in Roots /\ e \in Roots /\ f \in Roots
      BY ConstantFacts
    <2>4. a = d
      BY <1>5, <1>10, <2>2, FollowedFacts
    <2>5. b = e
      BY <1>6, <1>10, <2>2, <2>3, <2>4, FollowedFacts
    <2>6. c = f
      BY <1>7, <1>10, <2>2, <2>3, <2>5, FollowedFacts
    <2> QED
      BY <1>8, <1>10, <2>2, <2>3, <2>6, FollowedFacts
  <1> QED
    BY <1>9, <1>11, <1>12

(* Every translation the processor can use is the one last asked for in    *)
(* that space: map and unmap hit no other page's entry, and no table starts *)
(* with what its frame held before.                                        *)
THEOREM PagesTranslated == Spec => []Translated
  <1>1. IInv => Translated
    <2> SUFFICES ASSUME IInv, NEW r \in spaces, NEW v \in Pages
                 PROVE  Translation(r, v) \in {asked[r][v], NoPage}
      BY DEF Translated
    <2>1. PICK lev \in [Roots -> 0 .. 4] : Inv(lev)
      BY DEF IInv
    <2>2. Shaped(mem, lev) /\ r \in Roots /\ lev[r] = 4 /\ MapsAsked(mem, spaces, asked)
      BY <2>1 DEF Inv, Good, SpacesOK
    <2>3. Translation(r, v) # NoPage => Translation(r, v) \in Phys
            /\ Maps(mem, r, v, Translation(r, v))
      BY <2>2, TranslationMaps
    <2> QED
      BY <2>2, <2>3 DEF MapsAsked
  <1> QED
    BY <1>1, PagesInvariant, PTL

(* The kernel's mappings are the same and complete in every space, after   *)
(* any sequence of maps, unmaps, forks and exits.                          *)
THEOREM PagesKernelShared == Spec => []KernelShared
  <1>1. IInv => KernelShared
    <2> SUFFICES ASSUME IInv, NEW r \in spaces, NEW v \in KernelPages
                 PROVE  Translation(r, v) = asked[Boot][v]
      BY DEF KernelShared
    <2>1. PICK lev \in [Roots -> 0 .. 4] : Inv(lev)
      BY DEF IInv
    <2>2. /\ Shaped(mem, lev) /\ r \in Roots /\ lev[r] = 4 /\ Boot \in Roots /\ lev[Boot] = 4
               /\ v \in Pages
          /\ MapsAsked(mem, spaces, asked) /\ KernelHalf(mem, spaces)
               /\ KernelMapped(mem, asked)
          /\ Boot \in spaces
      BY <2>1, ConstantFacts DEF Inv, Good, SpacesOK
    <2>3. Indices(v)[1] \in Index /\ Indices(v)[1] >= Half
      BY <2>2, TopIndex, IndexTyped
    <2>4. mem.tab[r][Indices(v)[1]] = mem.tab[Boot][Indices(v)[1]]
      BY <2>2, <2>3 DEF KernelHalf
    <2>5. \A p : Maps(mem, r, v, p) <=> Maps(mem, Boot, v, p)
      BY <2>4 DEF Maps, Walks
    <2>6. CASE asked[Boot][v] # NoPage
      <3>1. Maps(mem, r, v, asked[Boot][v])
        BY <2>2, <2>5, <2>6 DEF KernelMapped
      <3> QED
        BY <2>2, <3>1, TranslationMaps
    <2>7. CASE asked[Boot][v] = NoPage
      <3>1. ASSUME Translation(r, v) # NoPage PROVE FALSE
        <4>1. Translation(r, v) \in Phys /\ Maps(mem, r, v, Translation(r, v))
          BY <2>2, <3>1, TranslationMaps
        <4>2. Translation(r, v) = asked[Boot][v]
          BY <2>2, <2>5, <4>1 DEF MapsAsked
        <4> QED
          BY <2>7, <3>1, <4>2
      <3> QED
        BY <2>7, <3>1
    <2> QED
      BY <2>6, <2>7
  <1> QED
    BY <1>1, PagesInvariant, PTL

(* No frame that is a table of a space in use is free, although k_exit     *)
(* drops references to a table that is not its own.                        *)
THEOREM PagesTablesHeld == Spec => []TablesHeld
  <1>1. IInv => TablesHeld
    <2> SUFFICES ASSUME IInv, NEW r \in spaces
                 PROVE  TablesOf(r) \cap mem.free = {}
      BY DEF TablesHeld
    <2>1. PICK lev \in [Roots -> 0 .. 4] : Inv(lev)
      BY DEF IInv
    <2>2. Shaped(mem, lev) /\ r \in Roots /\ lev[r] = 4
      BY <2>1 DEF Inv, Good, SpacesOK
    <2>3. ASSUME NEW f \in Roots, lev[f] > 1, NEW g \in Below(mem, f)
          PROVE  g \in Roots /\ lev[g] = lev[f] - 1
      <3>1. PICK i \in Index : g = mem.tab[f][i].frame /\ g # 0
        BY DEF Below
      <3> QED
        BY <2>2, <2>3, <3>1, LeadsDown
    <2>4. PICK A : A = Below(mem, r)
      OBVIOUS
    <2>5. PICK B : B = UNION {Below(mem, f) : f \in A}
      OBVIOUS
    <2>6. PICK C : C = UNION {Below(mem, f) : f \in B}
      OBVIOUS
    <2>7. TablesOf(r) = {r} \cup A \cup B \cup C
      BY <2>4, <2>5, <2>6 DEF TablesOf
    <2>8. \A g \in A : g \in Roots /\ lev[g] = 3
      BY <2>2, <2>3, <2>4
    <2>9. \A g \in B : g \in Roots /\ lev[g] = 2
      BY <2>3, <2>5, <2>8
    <2>10. \A g \in C : g \in Roots /\ lev[g] = 1
      BY <2>3, <2>6, <2>9
    <2>11. \A g \in TablesOf(r) : g \in Roots /\ lev[g] > 0
      BY <2>2, <2>7, <2>8, <2>9, <2>10
    <2> QED
      BY <2>2, <2>11 DEF Shaped, Levels
  <1> QED
    BY <1>1, PagesInvariant, PTL
=============================================================================
