---------------------------- MODULE MHLifeProofs ----------------------------
(***************************************************************************)
(* Proofs about MHLife, for any number of virtual machines, loaders and    *)
(* requests: the memory of a guest that runs is held, VMM does not block   *)
(* when it wakes a loader, the tables of VMM and of the kernel agree and   *)
(* the buckets of the guests can be filled.                                *)
(***************************************************************************)
EXTENDS MHLife, MHLemmas

------------------------------------------------------------------------------
(* The requests that wait *)

(* No process waits with two requests. *)
Distinct(q) == \A i, j \in 1..Len(q) : q[i].from = q[j].from => i = j

LEMMA TailCalls ==
    ASSUME NEW q \in Seq(Command), q # <<>>, Distinct(q)
    PROVE  /\ Head(q) \in Command /\ Head(q) \in Range(q)
           /\ Tail(q) \in Seq(Command) /\ Distinct(Tail(q))
           /\ \A c \in Range(Tail(q)) : c \in Range(q) /\ c.from # Head(q).from
<1>1. /\ Head(q) \in Command /\ Tail(q) \in Seq(Command) /\ Len(Tail(q)) = Len(q) - 1
      /\ \A i \in 1..Len(Tail(q)) : Tail(q)[i] = q[i + 1]
  BY HeadTailProperties
<1>2. Len(q) \in Nat /\ 1 \in 1..Len(q) /\ Head(q) = q[1] /\ DOMAIN q = 1..Len(q)
  OBVIOUS
<1> DEFINE t == Tail(q)
<1>3. t \in Seq(Command) /\ DOMAIN t = 1..Len(t) /\ Len(t) = Len(q) - 1 /\ \A i \in 1..Len(t) : t[i] = q[i + 1]
  BY <1>1
<1> HIDE DEF t
<1>4. Head(q) \in Range(q)
  BY <1>2 DEF Range
<1>5. \A i \in 1..Len(t) : i + 1 \in 1..Len(q) /\ i + 1 # 1
  BY <1>2, <1>3
<1>6. Distinct(t)
  BY <1>2, <1>3, <1>5 DEF Distinct
<1>7. ASSUME NEW c \in Range(t)
      PROVE  c \in Range(q) /\ c.from # Head(q).from
  <2>1. PICK i \in 1..Len(t) : c = t[i]
    BY <1>3 DEF Range
  <2>2. c = q[i + 1]
    BY <1>3, <2>1
  <2> QED
    BY <1>2, <1>5, <2>2 DEF Range, Distinct
<1> QED
  BY <1>1, <1>4, <1>6, <1>7 DEF t

LEMMA AppendCalls ==
    ASSUME NEW q \in Seq(Command), Distinct(q), NEW c \in Command, \A d \in Range(q) : d.from # c.from
    PROVE  /\ Append(q, c) \in Seq(Command) /\ Distinct(Append(q, c))
           /\ Range(Append(q, c)) = Range(q) \cup {c}
<1> DEFINE t == Append(q, c)
<1>1. Len(q) \in Nat /\ DOMAIN q = 1..Len(q)
  OBVIOUS
<1>2. /\ t \in Seq(Command) /\ DOMAIN t = 1..Len(t) /\ Len(t) = Len(q) + 1
      /\ t[Len(q) + 1] = c /\ \A i \in 1..Len(q) : t[i] = q[i]
  BY AppendProperties
<1> HIDE DEF t
<1>3. \A i \in 1..Len(q) : q[i] \in Range(q) /\ q[i].from # c.from
  BY <1>1 DEF Range
<1>4. Distinct(t)
  BY <1>1, <1>2, <1>3 DEF Distinct
<1>5. Range(t) = Range(q) \cup {c}
  <2>1. \A i \in 1..Len(t) : t[i] \in Range(q) \cup {c}
    BY <1>1, <1>2, <1>3
  <2>2. c \in Range(t)
    BY <1>1, <1>2 DEF Range
  <2>3. ASSUME NEW d \in Range(q)
        PROVE  d \in Range(t)
    <3>1. PICK i \in 1..Len(q) : d = q[i]
      BY <1>1 DEF Range
    <3>2. i \in DOMAIN t /\ t[i] = d
      BY <1>1, <1>2, <3>1
    <3> QED
      BY <3>2 DEF Range
  <2> QED
    BY <1>2, <2>1, <2>2, <2>3 DEF Range
<1> QED
  BY <1>2, <1>4, <1>5 DEF t

(* What Die() leaves. *)
Without(q, p) == RemoveFirstMatch(q, LAMBDA c : c.from = p)

LEMMA WithoutCalls ==
    ASSUME NEW q \in Seq(Command), Distinct(q), NEW p
    PROVE  /\ Without(q, p) \in Seq(Command) /\ Distinct(Without(q, p))
           /\ \A c \in Range(Without(q, p)) : c \in Range(q) /\ c.from # p
<1>1. Len(q) \in Nat /\ DOMAIN q = 1..Len(q)
  OBVIOUS
<1> DEFINE I == {i \in 1..Len(q) : q[i].from = p}
           n == Min(I)
           r == RemoveAt(q, n)
<1>2. CASE I = {}
  <2>1. Without(q, p) = q
    BY <1>2 DEF Without, RemoveFirstMatch
  <2>2. \A c \in Range(q) : c.from # p
    BY <1>1, <1>2 DEF Range
  <2> QED
    BY <2>1, <2>2
<1>3. CASE I # {}
  <2>1. Without(q, p) = r
    BY <1>3 DEF Without, RemoveFirstMatch, SelectInSeq
  <2>2. I \subseteq Nat
    BY <1>1
  <2>4. n \in I
    BY <1>3, <2>2, MinIn
  <2>5. n \in 1..Len(q) /\ q[n].from = p
    BY <2>4
  <2> HIDE DEF I, n
  <2>6. /\ r \in Seq(Command) /\ Len(r) = Len(q) - 1
        /\ \A j \in 1..(Len(q) - 1) : r[j] = IF j < n THEN q[j] ELSE q[j + 1]
    BY <2>5, RemoveAtIs
  <2> HIDE DEF r
  <2>7. DOMAIN r = 1..Len(r)
    BY <2>6
  <2>8. ASSUME NEW j \in 1..Len(r)
        PROVE  \E k \in 1..Len(q) : k # n /\ r[j] = q[k]
    <3>1. CASE j < n
      BY <1>1, <2>5, <2>6, <3>1
    <3>2. CASE j >= n
      <4>1. j + 1 \in 1..Len(q) /\ j + 1 # n /\ r[j] = q[j + 1]
        BY <1>1, <2>5, <2>6, <3>2
      <4> QED
        BY <4>1
    <3> QED
      BY <1>1, <2>5, <2>6, <3>1, <3>2
  <2>9. Distinct(r)
    <3>1. \A i, j \in 1..Len(q) : q[i].from = q[j].from => i = j
      BY DEF Distinct
    <3> SUFFICES ASSUME NEW i \in 1..Len(r), NEW j \in 1..Len(r), r[i].from = r[j].from
                 PROVE  i = j
      BY DEF Distinct
    <3> DEFINE a == IF i < n THEN i ELSE i + 1
               b == IF j < n THEN j ELSE j + 1
    <3>2. a \in 1..Len(q) /\ r[i] = q[a] /\ b \in 1..Len(q) /\ r[j] = q[b]
      BY <1>1, <2>5, <2>6
    <3>3. a = b
      BY <3>1, <3>2
    <3> QED
      BY <1>1, <2>5, <2>6, <3>3
  <2>10. ASSUME NEW c \in Range(r)
         PROVE  c \in Range(q) /\ c.from # p
    <3>1. PICK j \in 1..Len(r) : c = r[j]
      BY <2>7 DEF Range
    <3>2. PICK k \in 1..Len(q) : k # n /\ r[j] = q[k]
      BY <2>8
    <3> QED
      BY <1>1, <2>5, <3>1, <3>2 DEF Range, Distinct
  <2> QED
    BY <2>1, <2>6, <2>9, <2>10
<1> QED
  BY <1>2, <1>3

LEMMA QueuedIs ==
    ASSUME NEW p
    PROVE  /\ Queued(p) <=> \E c \in Range(calls) : c.from = p
           /\ Queued(p)' <=> \E c \in Range(calls') : c.from = p
BY DEF Queued, Range

------------------------------------------------------------------------------
(* The inductive invariant *)

(* Nothing but the requests is in the way: operators kill no VM that runs, *)
(* and do not race with each other, and starts do not fail in the kernel.  *)
Orderly ==
    /\ KillState \subseteq {{"LOADED"}, {"LOADED", "WAITING"}}
    /\ KillState = {} \/ \A o1, o2 \in Operator : o1 = o2
    /\ "start" \notin Fault

(* The states of a guest in the tables; a free one has no flags. *)
Loaded == {"LOADED"}
Waits  == {"LOADED", "WAITING"}
Runs   == {"LOADED", "RUNNING"}

LEMMA FlagSets ==
    /\ Loaded # {} /\ Waits # {} /\ Runs # {} /\ Loaded # Waits /\ Loaded # Runs /\ Waits # Runs
    /\ "RUNNING" \in Runs /\ "RUNNING" \notin Loaded /\ "RUNNING" \notin Waits /\ "RUNNING" \notin {}
    /\ Loaded \cup {"WAITING"} = Waits /\ Loaded \cup {"RUNNING"} = Runs
    /\ Loaded \subseteq Flag /\ Waits \subseteq Flag /\ Runs \subseteq Flag /\ {} \subseteq Flag
    /\ {"RUNNING"} \notin {Loaded, Waits, Runs}
<1>1. "RUNNING" \notin Loaded /\ "RUNNING" \notin Waits /\ "WAITING" \notin Loaded /\ "RUNNING" \in Runs
  BY DEF Loaded, Waits, Runs
<1>2. "WAITING" \in Waits /\ "LOADED" \in Loaded /\ "LOADED" \in Waits /\ "LOADED" \in Runs
  BY DEF Loaded, Waits, Runs
<1>3. "LOADED" \notin {"RUNNING"}
  OBVIOUS
<1> QED
  BY <1>1, <1>2, <1>3 DEF Loaded, Waits, Runs, Flag

(* The loader of v has got its answer only if the kernel has loaded v too. *)
Sound(v)    == hyper[v].flags = Loaded /\ hyper[v].loader = desc[v].loader
Ending(v)   == vmm.pc = "kill_sig" /\ vmm.vm = v
Starting(v) == vmm.pc = "start_wake" /\ vmm.vm = v

(* What the state of a guest in VMM's table says of its loader and of the  *)
(* kernel's table.                                                         *)
DescOK(v) ==
    LET f == desc[v].flags
        p == desc[v].loader
    IN  /\ f \in {{}, Loaded, Waits, Runs}
        /\ IF f = {} THEN p = NIL ELSE p \in Loader /\ at[p] # "new"
        /\ f = Loaded /\ at[p] \in {"loaded", "wait"} => Sound(v) /\ (p \in vm_proc \/ Ending(v))
        /\ f = Waits => /\ hyper[v].loader = p
                        /\ hyper[v].flags = IF Starting(v) THEN Runs ELSE Loaded
                        /\ Ending(v) \/ (at[p] = "wait" /\ p \in vm_proc /\ ~Queued(p))
        /\ f = Runs => /\ hyper[v].loader = p /\ hyper[v].flags = Runs
                       /\ hyper[v].bsize = desc[v].bsize /\ desc[v].tokens = desc[v].bsize
                       /\ desc[v].bsize >= 0 /\ at[p] = "proxy" /\ p \in vm_proc
        /\ f # Runs => desc[v].tokens = 0
        /\ "RUNNING" \in hyper[v].flags => f = Runs \/ Starting(v)
DescsOK == \A v \in Guest : DescOK(v)

(* A loader loads one guest. *)
Own          == \A v, w \in Guest : desc[v].loader = desc[w].loader /\ desc[v].loader # NIL => v = w
Unclaimed(p) == \A v \in Guest : desc[v].loader # p

(* A request that waits for VMM: a loader asks once for its guest, and no  *)
(* guest is started between an operator's KILL and its handling.           *)
CallOK(c) ==
    /\ c.cmd = "LOAD" => c.from \in Loader /\ at[c.from] = "load" /\ Unclaimed(c.from)
    /\ c.cmd = "WAITVM" => c.from \in Loader /\ at[c.from] = "wait"
    /\ c.cmd \in {"START", "KILL"} => c.from \in Operator /\ c.vm \in Guest
    /\ c.cmd = "KILL" => /\ KillState # {} /\ desc[c.vm].flags # Runs
                         /\ vmm.pc \notin {"start_sys", "start_wake"}
CallsOK == Distinct(calls) /\ \A c \in Range(calls) : CallOK(c)

(* What VMM relies on after its calls to PM and to SYSTASK. *)
LoadOK(v, p) ==
    /\ vmm.pc \in {"load_pm", "load_copy", "load_sys"} => v \in Guest /\ p \in Loader /\ at[p] \in {"load", "dead"}
    /\ vmm.pc \in {"load_pm", "load_copy"} => desc[v].flags = {} /\ Unclaimed(p)
    /\ vmm.pc = "load_copy" => at[p] = "dead" \/ p \in vm_proc
    /\ vmm.pc = "load_sys" => desc[v].flags = Loaded /\ desc[v].loader = p /\ at[p] = "load" /\ p \in vm_proc
StartOK(v, p) ==
    /\ vmm.pc \in {"start_sys", "start_wake"} =>
           p \in Operator /\ v \in Guest /\ desc[v].flags = Waits /\ vmm.req.n \in 1..desc[VM0].tokens
    /\ vmm.pc = "start_wake" => vmm.r = "OK" /\ hyper[v].bsize = vmm.req.n
KillOK(v, p) ==
    vmm.pc \in {"kill_pm", "kill_sig"} =>
        KillState # {} /\ p \in Operator /\ v \in Guest /\ desc[v].flags \in {Loaded, Waits}
ReplyOK(p) ==
    vmm.pc = "reply" /\ p \in Loader =>
        \A w \in Guest : desc[w].loader = p =>
            desc[w].flags = Loaded /\ (vmm.r = "OK" /\ at[p] # "dead" => Sound(w) /\ p \in vm_proc)
Serving ==
    vmm.pc # "idle" =>
        /\ vmm.req \in Command /\ ~Queued(vmm.req.from)
        /\ vmm.req.from \in Loader => at[vmm.req.from] \in {"load", "wait", "dead"}
        /\ LoadOK(vmm.vm, vmm.req.from) /\ StartOK(vmm.vm, vmm.req.from)
        /\ KillOK(vmm.vm, vmm.req.from) /\ ReplyOK(vmm.req.from)

(* VMM has given out all tokens but those it has. *)
Purse ==
    /\ desc[VM0].tokens >= 0
    /\ SumFunctionOnSet([v \in VM |-> desc[v].tokens], VM) = MAXTOKENS

IInv == LifeTypeOK /\ DescsOK /\ Own /\ CallsOK /\ Serving /\ Purse

------------------------------------------------------------------------------
(* Types *)

Desc  == [flags : SUBSET Flag, loader : Loader \cup {NIL}, bsize : Int, tokens : Int]
Hyper == [flags : SUBSET Flag, loader : Loader \cup {NIL}, bsize : Int]

LEMMA VMs ==
    /\ VM \subseteq Nat /\ IsFiniteSet(VM) /\ VM0 \in VM /\ Guest \subseteq VM /\ VM0 \notin Guest
    /\ NIL \notin VM /\ NIL \notin Loader /\ NIL \notin Operator /\ IsFiniteSet(Guest)
    /\ \A p \in Loader : p \notin Operator
<1>1. NR_VMS \in Nat /\ NR_VMS >= 1
  BY LifeAssumption
<1>2. IsFiniteSet(VM)
  BY <1>1, FS_Interval DEF VM
<1>3. Guest \subseteq VM
  BY DEF Guest
<1>4. IsFiniteSet(Guest)
  BY <1>2, <1>3, FS_Subset
<1> QED
  BY <1>1, <1>2, <1>3, <1>4, LifeAssumption DEF VM, VM0, Guest

LEMMA TypeFacts ==
    ASSUME LifeTypeOK
    PROVE  /\ desc \in [VM -> Desc] /\ hyper \in [Guest -> Hyper]
           /\ at \in [Loader -> Place] /\ vm_proc \subseteq Loader /\ calls \in Seq(Command)
           /\ vmm \in [pc : Pc, req : Command \cup {NIL}, vm : VM, r : Result]
BY DEF LifeTypeOK, Desc, Hyper

LEMMA InitInv == Init => IInv
<1> SUFFICES ASSUME Init PROVE IInv
  OBVIOUS
<1>1. desc = [v \in VM |-> [flags  |-> IF v = VM0 THEN {"LOADED", "RUNNING"} ELSE {},
                            loader |-> NIL, bsize |-> 0,
                            tokens |-> IF v = VM0 THEN MAXTOKENS ELSE 0]]
  BY DEF Init
<1>2. LifeTypeOK
  <2>1. desc \in [VM -> Desc]
    BY <1>1, LifeAssumption DEF Desc, Flag
  <2>2. hyper \in [Guest -> Hyper]
    BY DEF Init, Hyper
  <2>3. at \in [Loader -> Place] /\ vm_proc \subseteq Loader /\ calls \in Seq(Command)
    BY DEF Init, Place
  <2>4. vmm \in [pc : Pc, req : Command \cup {NIL}, vm : VM, r : Result]
    <3>1. vmm = [pc |-> "idle", req |-> NIL, vm |-> VM0, r |-> "OK"]
      BY DEF Init, Idle
    <3>2. "idle" \in Pc /\ NIL \in Command \cup {NIL} /\ VM0 \in VM /\ "OK" \in Result
      BY VMs DEF Pc, Result
    <3> QED
      BY <3>1, <3>2
  <2> QED
    BY <2>1, <2>2, <2>3, <2>4 DEF LifeTypeOK, Desc, Hyper
<1>3. \A v \in Guest : /\ desc[v].flags = {} /\ desc[v].loader = NIL /\ desc[v].tokens = 0
                       /\ hyper[v].flags = {}
  BY <1>1, VMs DEF Init
<1>4. DescsOK /\ Own
  BY <1>3, FlagSets DEF DescsOK, DescOK, Own
<1>5. CallsOK
  BY DEF Init, CallsOK, Distinct, Range
<1>6. Serving
  BY DEF Init, Idle, Serving
<1>7. Purse
  <2> DEFINE f == [v \in VM |-> desc[v].tokens]
             T == {VM0}
  <2>1. desc[VM0].tokens = MAXTOKENS /\ f[VM0] = MAXTOKENS /\ \A v \in VM \ T : f[v] = 0
    BY <1>1, VMs
  <2> HIDE DEF f
  <2>2. T \in SUBSET VM /\ Ints(f, VM) /\ Ints(f, T) /\ IsFiniteSet(T) /\ VM0 \in T
    <3>1. IsFiniteSet(T) /\ VM0 \in T /\ T \in SUBSET VM
      BY VMs, FS_Singleton
    <3>2. \A v \in VM : f[v] \in Int
      BY <2>1, LifeAssumption
    <3> QED
      BY <3>1, <3>2 DEF Ints
  <2>3. SumFunctionOnSet(f, VM) = SumFunctionOnSet(f, T)
    <3>1. IsFiniteSet(VM)
      BY VMs
    <3>2. \A v \in T : f[v] = f[v]
      OBVIOUS
    <3> HIDE DEF T
    <3> QED
      BY <2>1, <2>2, <3>1, <3>2, SumAgree
  <2>4. SumFunctionOnSet(f, T) = f[VM0] + SumFunctionOnSet(f, T \ {VM0})
    BY <2>2, SumRemove
  <2>5. T \ {VM0} = {} /\ Ints(f, {}) /\ IsFiniteSet({})
    BY FS_EmptySet DEF Ints
  <2>6. SumFunctionOnSet(f, T \ {VM0}) = 0
    BY <2>5, SumType
  <2>7. SumFunctionOnSet(f, VM) = MAXTOKENS /\ desc[VM0].tokens >= 0
    BY <2>1, <2>3, <2>4, <2>6, LifeAssumption
  <2> QED
    BY <2>7 DEF Purse, f
<1> QED
  BY <1>2, <1>4, <1>5, <1>6, <1>7 DEF IInv

------------------------------------------------------------------------------
(* What a step leaves alone *)

LEMMA DescKeeps ==
    ASSUME NEW v \in Guest, DescOK(v), desc'[v] = desc[v], hyper'[v] = hyper[v],
           desc[v].flags # {} => /\ at'[desc[v].loader] = at[desc[v].loader]
                                 /\ desc[v].loader \in vm_proc => desc[v].loader \in vm_proc',
           Queued(desc[v].loader)' => Queued(desc[v].loader),
           Ending(v) => Ending(v)', Starting(v)' <=> Starting(v)
    PROVE  DescOK(v)'
<1> DEFINE p == desc[v].loader
<1>1. desc'[v].loader = p /\ desc'[v].flags = desc[v].flags /\ desc'[v].tokens = desc[v].tokens /\ desc'[v].bsize = desc[v].bsize
  OBVIOUS
<1>2. (Queued(desc[v].loader))' <=> Queued(p)'
  BY DEF Queued
<1>3. CASE desc[v].flags = {}
  BY <1>1, <1>3, FlagSets DEF DescOK
<1>4. CASE desc[v].flags # {}
  <2>1. at'[p] = at[p] /\ (p \in vm_proc => p \in vm_proc')
    BY <1>4
  <2>2. Sound(v)' <=> Sound(v)
    BY DEF Sound
  <2> QED
    BY <1>1, <1>2, <1>4, <2>1, <2>2 DEF DescOK
<1> QED
  BY <1>3, <1>4

LEMMA PurseKeeps ==
    ASSUME Purse, VM0 \in VM, \A v \in VM : desc'[v].tokens = desc[v].tokens
    PROVE  Purse'
<1>1. [v \in VM |-> desc'[v].tokens] = [v \in VM |-> desc[v].tokens]
  OBVIOUS
<1> QED
  BY <1>1 DEF Purse

(* Types in terms of the named record sets. *)
LEMMA TypesNext ==
    ASSUME desc' \in [VM -> Desc], hyper' \in [Guest -> Hyper],
           at' \in [Loader -> Place], vm_proc' \subseteq Loader, calls' \in Seq(Command),
           vmm' \in [pc : Pc, req : Command \cup {NIL}, vm : VM, r : Result]
    PROVE  LifeTypeOK'
BY DEF LifeTypeOK, Desc, Hyper

(* Serving depends on VMM's own state only as far as listed. *)
LEMMA ServingKeeps ==
    ASSUME Serving, vmm' = vmm, desc' = desc, hyper' = hyper,
           vmm.pc # "idle" =>
               /\ ~Queued(vmm.req.from)'
               /\ vmm.req.from \in Loader =>
                      /\ at'[vmm.req.from] \in {at[vmm.req.from], "dead"}
                      /\ vmm.req.from \in vm_proc =>
                             at'[vmm.req.from] = at[vmm.req.from] /\ vmm.req.from \in vm_proc'
    PROVE  Serving'
<1> SUFFICES ASSUME vmm.pc # "idle" PROVE Serving'
  BY DEF Serving
<1> DEFINE p == vmm.req.from
           v == vmm.vm
<1>1. /\ vmm.req \in Command /\ LoadOK(v, p) /\ StartOK(v, p) /\ KillOK(v, p) /\ ReplyOK(p)
      /\ p \in Loader => at[p] \in {"load", "wait", "dead"}
  BY DEF Serving
<1>2. vmm'.req.from = p /\ vmm'.vm = v /\ vmm'.pc = vmm.pc /\ vmm'.r = vmm.r /\ vmm'.req = vmm.req
  OBVIOUS
<1>3. ~Queued(vmm.req.from)'
  OBVIOUS
<1>4. p \in Loader => /\ at'[p] \in {at[p], "dead"}
                      /\ p \in vm_proc => at'[p] = at[p] /\ p \in vm_proc'
  OBVIOUS
<1>5. LoadOK(v, p)'
  BY <1>1, <1>2, <1>4 DEF LoadOK, Unclaimed
<1>6. StartOK(v, p)' /\ KillOK(v, p)'
  BY <1>1, <1>2 DEF StartOK, KillOK
<1>7. ReplyOK(p)'
  BY <1>1, <1>2, <1>4 DEF ReplyOK, Sound
<1> QED
  BY <1>1, <1>2, <1>3, <1>4, <1>5, <1>6, <1>7 DEF Serving

(* No request of VMM's list is in the way of what a step does to desc, at  *)
(* and VMM.                                                                *)
LEMMA CallsKeep ==
    ASSUME CallsOK, Distinct(calls'), Range(calls') \subseteq Range(calls),
           \A c \in Range(calls') :
               /\ c.from \in Loader => at'[c.from] = at[c.from]
               /\ c.cmd = "LOAD" /\ Unclaimed(c.from) => Unclaimed(c.from)'
               /\ c.cmd = "KILL" /\ desc[c.vm].flags # Runs => desc'[c.vm].flags # Runs
               /\ c.cmd = "KILL" /\ vmm.pc \notin {"start_sys", "start_wake"} =>
                      vmm'.pc \notin {"start_sys", "start_wake"}
    PROVE  CallsOK'
<1>1. ASSUME NEW c \in Range(calls')
      PROVE  CallOK(c)'
  <2>1. CallOK(c)
    BY DEF CallsOK
  <2>2. /\ c.from \in Loader => at'[c.from] = at[c.from]
        /\ c.cmd = "LOAD" /\ Unclaimed(c.from) => Unclaimed(c.from)'
        /\ c.cmd = "KILL" /\ desc[c.vm].flags # Runs => desc'[c.vm].flags # Runs
        /\ c.cmd = "KILL" /\ vmm.pc \notin {"start_sys", "start_wake"} =>
               vmm'.pc \notin {"start_sys", "start_wake"}
    OBVIOUS
  <2> QED
    BY <2>1, <2>2 DEF CallOK
<1> QED
  BY <1>1 DEF CallsOK

(* VMM goes on and changes no table. *)
LEMMA TablesKeep ==
    ASSUME IInv, desc' = desc, hyper' = hyper, at' = at, vm_proc \subseteq vm_proc',
           Distinct(calls'), Range(calls') \subseteq Range(calls),
           \A w \in Guest : (Ending(w) => Ending(w)') /\ (Starting(w)' <=> Starting(w)),
           \A c \in Range(calls') : c.cmd = "KILL" /\ vmm.pc \notin {"start_sys", "start_wake"} =>
                                        vmm'.pc \notin {"start_sys", "start_wake"}
    PROVE  DescsOK' /\ Own' /\ CallsOK' /\ Purse'
<1>1. DescsOK'
  <2> SUFFICES ASSUME NEW w \in Guest PROVE DescOK(w)'
    BY DEF DescsOK
  <2>1. DescOK(w) /\ desc'[w] = desc[w] /\ hyper'[w] = hyper[w]
    BY DEF IInv, DescsOK
  <2>2. desc[w].flags # {} => /\ at'[desc[w].loader] = at[desc[w].loader]
                              /\ desc[w].loader \in vm_proc => desc[w].loader \in vm_proc'
    OBVIOUS
  <2>3. Queued(desc[w].loader)' => Queued(desc[w].loader)
    <3>1. desc'[w].loader = desc[w].loader
      OBVIOUS
    <3>2. Queued(desc[w].loader)' => \E c \in Range(calls') : c.from = desc[w].loader
      BY <3>1 DEF Queued, Range
    <3> QED
      BY <3>2, QueuedIs
  <2> QED
    BY <2>1, <2>2, <2>3, DescKeeps
<1>2. Own'
  BY DEF IInv, Own
<1>3. CallsOK'
  <2>1. CallsOK
    BY DEF IInv
  <2>2. \A c \in Range(calls') :
               /\ c.from \in Loader => at'[c.from] = at[c.from]
               /\ c.cmd = "LOAD" /\ Unclaimed(c.from) => Unclaimed(c.from)'
               /\ c.cmd = "KILL" /\ desc[c.vm].flags # Runs => desc'[c.vm].flags # Runs
               /\ c.cmd = "KILL" /\ vmm.pc \notin {"start_sys", "start_wake"} =>
                      vmm'.pc \notin {"start_sys", "start_wake"}
    BY DEF Unclaimed
  <2> QED
    BY <2>1, <2>2, CallsKeep
<1>4. Purse'
  BY VMs, PurseKeeps DEF IInv
<1> QED
  BY <1>1, <1>2, <1>3, <1>4

(* Where VMM is after a step. *)
VmmType == [pc : Pc, req : Command \cup {NIL}, vm : VM, r : Result]

LEMMA VmmGoes ==
    ASSUME vmm \in VmmType, NEW pc \in Pc, NEW r \in Result, Proceed(pc, r)
    PROVE  vmm' \in VmmType /\ vmm'.pc = pc /\ vmm'.req = vmm.req /\ vmm'.vm = vmm.vm /\ vmm'.r = r
BY DEF VmmType, Proceed

LEMMA VmmAnswers ==
    ASSUME vmm \in VmmType, NEW r \in Result, Answer(r)
    PROVE  vmm' \in VmmType /\ vmm'.pc = "reply" /\ vmm'.req = vmm.req /\ vmm'.vm = vmm.vm /\ vmm'.r = r
BY DEF VmmType, Answer, Pc

LEMMA VmmTakes ==
    ASSUME NEW pc \in Pc, NEW v \in VM, NEW r \in Result, Head(calls) \in Command, Goto(pc, v, r)
    PROVE  vmm' \in VmmType /\ vmm'.pc = pc /\ vmm'.req = Head(calls) /\ vmm'.vm = v /\ vmm'.r = r
BY DEF VmmType, Goto

LEMMA ServingNext ==
    ASSUME NEW p, NEW v, vmm'.req \in Command, vmm'.req.from = p, vmm'.vm = v, ~Queued(p)',
           p \in Loader => at'[p] \in {"load", "wait", "dead"},
           LoadOK(v, p)', StartOK(v, p)', KillOK(v, p)', ReplyOK(p)'
    PROVE  Serving'
<1>1. Queued(vmm.req.from)' <=> Queued(p)'
  BY DEF Queued
<1>2. LoadOK(vmm.vm, vmm.req.from)' /\ StartOK(vmm.vm, vmm.req.from)'
  BY DEF LoadOK, StartOK, Unclaimed
<1>3. KillOK(vmm.vm, vmm.req.from)' /\ ReplyOK(vmm.req.from)'
  BY DEF KillOK, ReplyOK, Sound
<1> QED
  BY <1>1, <1>2, <1>3 DEF Serving

(* VMM is about to answer p. *)
LEMMA ReplyNext ==
    ASSUME NEW p, vmm'.pc = "reply", vmm'.req \in Command, vmm'.req.from = p, ~Queued(p)',
           p \in Loader => at'[p] \in {"load", "wait", "dead"}, ReplyOK(p)'
    PROVE  Serving'
<1>1. \A v : LoadOK(v, p)' /\ StartOK(v, p)' /\ KillOK(v, p)'
  BY DEF LoadOK, StartOK, KillOK
<1> QED
  BY <1>1, ServingNext

(* VMM takes the first request of its list. *)
LEMMA TakeFacts ==
    ASSUME IInv, NEW cmd, Take(cmd), NEW c, c = Head(calls)
    PROVE  /\ vmm.pc = "idle" /\ c \in Command /\ c.cmd = cmd /\ CallOK(c) /\ c \in Range(calls)
           /\ calls' \in Seq(Command) /\ Distinct(calls') /\ Range(calls') \subseteq Range(calls)
           /\ \A d \in Range(calls') : d.from # c.from
           /\ ~Queued(c.from)'
<1>1. calls \in Seq(Command) /\ calls # <<>> /\ Distinct(calls) /\ calls' = Tail(calls)
  BY TypeFacts DEF IInv, CallsOK, Take
<1>2. /\ c \in Command /\ c \in Range(calls) /\ calls' \in Seq(Command) /\ Distinct(calls')
      /\ \A d \in Range(calls') : d \in Range(calls) /\ d.from # c.from
  BY <1>1, TailCalls
<1>3. vmm.pc = "idle" /\ c.cmd = cmd
  BY DEF Take
<1>4. CallOK(c)
  BY <1>2 DEF IInv, CallsOK
<1>5. ~Queued(c.from)'
  BY <1>2, QueuedIs
<1> QED
  BY <1>2, <1>3, <1>4, <1>5

(* Who waits with a request, or is served. *)
LEMMA NotQueued ==
    ASSUME IInv, NEW p \in Loader, at[p] \notin {"load", "wait"}
    PROVE  /\ \A c \in Range(calls) : c.from # p
           /\ at[p] # "dead" => vmm.pc = "idle" \/ vmm.req.from # p
<1>1. ASSUME NEW c \in Range(calls), c.from = p
      PROVE  FALSE
  <2>1. CallOK(c) /\ c \in Command
    <3>1. calls \in Seq(Command)
      BY TypeFacts DEF IInv
    <3>2. PICK i \in DOMAIN calls : c = calls[i]
      BY DEF Range
    <3>3. c \in Command
      BY <3>1, <3>2
    <3> QED
      BY <3>3 DEF IInv, CallsOK
  <2>2. c.cmd \in {"LOAD", "WAITVM", "START", "KILL"}
    BY <2>1 DEF Command
  <2> QED
    BY <1>1, <2>1, <2>2, VMs DEF CallOK
<1>2. at[p] # "dead" => vmm.pc = "idle" \/ vmm.req.from # p
  BY DEF IInv, Serving
<1> QED
  BY <1>1, <1>2

------------------------------------------------------------------------------
(* Loaders and operators *)

(* A loader asks VMM for the load or for its start. *)
Ask(p, cmd, place) ==
    /\ at' = [at EXCEPT ![p] = place]
    /\ calls' = Append(calls, Request(cmd, p, VM0, 0))
    /\ UNCHANGED <<desc, hyper, vm_proc, vmm>>

LEMMA AskInv ==
    ASSUME IInv, NEW p \in Loader, NEW cmd, NEW place, Ask(p, cmd, place),
           \/ at[p] = "new" /\ cmd = "LOAD" /\ place = "load"
           \/ at[p] = "loaded" /\ cmd = "WAITVM" /\ place = "wait"
    PROVE  IInv'
<1> DEFINE c == Request(cmd, p, VM0, 0)
<1>1. /\ desc' = desc /\ hyper' = hyper /\ vm_proc' = vm_proc /\ vmm' = vmm
      /\ calls' = Append(calls, c) /\ at' = [at EXCEPT ![p] = place]
  BY DEF Ask
<1>2. c \in Command /\ c.from = p /\ c.cmd = cmd
  BY VMs DEF Request, Command
<1> HIDE DEF c
<1>3. at \in [Loader -> Place] /\ calls \in Seq(Command)
  BY TypeFacts DEF IInv
<1>4. at' \in [Loader -> Place] /\ at'[p] = place /\ \A q \in Loader \ {p} : at'[q] = at[q]
  BY <1>1, <1>3 DEF Place
<1>5. \A d \in Range(calls) : d.from # p
  BY NotQueued
<1>6. calls' \in Seq(Command) /\ Distinct(calls') /\ Range(calls') = Range(calls) \cup {c}
  BY <1>1, <1>2, <1>3, <1>5, AppendCalls DEF IInv, CallsOK
<1>7. LifeTypeOK'
  BY <1>1, <1>4, <1>6, TypeFacts, TypesNext DEF IInv
<1>8. \A q : q # p => (Queued(q)' <=> Queued(q))
  BY <1>2, <1>6, QueuedIs
<1>9. ASSUME NEW v \in Guest
      PROVE  DescOK(v)'
  <2>1. DescOK(v) /\ desc'[v] = desc[v] /\ hyper'[v] = hyper[v]
    BY <1>1 DEF IInv, DescsOK
  <2>2. (Ending(v)' <=> Ending(v)) /\ (Starting(v)' <=> Starting(v)) /\ (Sound(v)' <=> Sound(v))
    BY <1>1 DEF Ending, Starting, Sound
  <2>3. desc[v].flags # {} => desc[v].loader \in Loader
    BY <2>1 DEF DescOK
  <2>4. CASE desc[v].loader # p
    <3>1. Queued(desc[v].loader)' => Queued(desc[v].loader)
      BY <1>1, <1>8, <2>4 DEF Queued
    <3> QED
      BY <1>1, <1>4, <2>1, <2>2, <2>3, <2>4, <3>1, DescKeeps
  <2>5. CASE desc[v].loader = p
    <3>1. desc[v].flags # {} /\ at[p] = "loaded" /\ at'[p] = "wait"
      BY <1>4, <2>1, <2>5, VMs DEF DescOK
    <3>2. desc[v].flags = Loaded \/ (desc[v].flags = Waits /\ Ending(v))
      BY <2>1, <2>5, <3>1 DEF DescOK
    <3> QED
      BY <1>1, <2>1, <2>2, <2>5, <3>1, <3>2, FlagSets DEF DescOK
  <2> QED
    BY <2>4, <2>5
<1>10. Own' /\ Purse'
  BY <1>1, VMs, PurseKeeps DEF IInv, Own
<1>11. CallsOK'
  <2>1. CallOK(c)'
    <3>1. at[p] = "new" => Unclaimed(p)
      <4> SUFFICES ASSUME NEW v \in Guest, desc[v].loader = p, at[p] = "new" PROVE FALSE
        BY DEF Unclaimed
      <4>1. DescOK(v)
        BY DEF IInv, DescsOK
      <4> QED
        BY <4>1, VMs DEF DescOK
    <3> QED
      BY <1>1, <1>2, <1>4, <3>1 DEF CallOK, Unclaimed
  <2>2. ASSUME NEW d \in Range(calls)
        PROVE  CallOK(d)'
    <3>1. CallOK(d) /\ d.from # p
      BY <1>5 DEF IInv, CallsOK
    <3>2. d.from \in Loader => at'[d.from] = at[d.from]
      BY <1>4, <3>1
    <3> QED
      BY <1>1, <3>1, <3>2 DEF CallOK, Unclaimed
  <2> QED
    BY <1>6, <2>1, <2>2 DEF CallsOK
<1>12. Serving'
  <2>1. vmm.pc # "idle" => vmm.req.from # p /\ ~Queued(vmm.req.from)
    BY NotQueued DEF IInv, Serving
  <2>2. vmm.pc # "idle" => ~Queued(vmm.req.from)'
    BY <1>1, <1>8, <2>1 DEF Queued
  <2>3. vmm.pc # "idle" /\ vmm.req.from \in Loader => at'[vmm.req.from] = at[vmm.req.from]
    BY <1>4, <2>1
  <2> QED
    BY <1>1, <2>2, <2>3, ServingKeeps DEF IInv
<1> QED
  BY <1>7, <1>9, <1>10, <1>11, <1>12 DEF IInv, DescsOK

LEMMA LoaderAsks ==
    ASSUME IInv, NEW p \in Loader, LoaderLoad(p) \/ LoaderWait(p)
    PROVE  IInv'
<1>1. CASE LoaderLoad(p)
  BY <1>1, AskInv DEF LoaderLoad, Ask
<1>2. CASE LoaderWait(p)
  BY <1>2, AskInv DEF LoaderWait, Ask
<1> QED
  BY <1>1, <1>2

(* What Die() does to the lists and to the other processes. *)
LEMMA DieFacts ==
    ASSUME IInv, NEW p \in Loader, Die(p)
    PROVE  /\ at' \in [Loader -> Place] /\ at'[p] = "dead" /\ \A q \in Loader \ {p} : at'[q] = at[q]
           /\ vm_proc' \subseteq Loader /\ \A q \in vm_proc : q # p => q \in vm_proc'
           /\ calls' \in Seq(Command) /\ Distinct(calls') /\ Range(calls') \subseteq Range(calls)
           /\ \A d \in Range(calls') : d.from # p
<1>1. at \in [Loader -> Place] /\ calls \in Seq(Command) /\ vm_proc \subseteq Loader /\ Distinct(calls)
  BY TypeFacts DEF IInv, CallsOK
<1>2. at' = [at EXCEPT ![p] = "dead"] /\ vm_proc' = vm_proc \ {p} /\ calls' = Without(calls, p)
  BY DEF Die, Without
<1>3. /\ calls' \in Seq(Command) /\ Distinct(calls')
      /\ \A c \in Range(calls') : c \in Range(calls) /\ c.from # p
  BY <1>1, <1>2, WithoutCalls
<1> QED
  BY <1>1, <1>2, <1>3 DEF Place

LEMMA LoaderDies ==
    ASSUME IInv, NEW p \in Loader, LoaderExit(p) \/ Signal(p)
    PROVE  IInv'
<1>1. Die(p) /\ desc' = desc /\ hyper' = hyper /\ vmm' = vmm
  BY DEF LoaderExit, Signal
<1>2. at[p] = "exit" \/ p \notin vm_proc
  BY DEF LoaderExit, Signal
<1>3. /\ at' \in [Loader -> Place] /\ at'[p] = "dead" /\ \A q \in Loader \ {p} : at'[q] = at[q]
      /\ vm_proc' \subseteq Loader /\ \A q \in vm_proc : q # p => q \in vm_proc'
      /\ calls' \in Seq(Command) /\ Distinct(calls') /\ Range(calls') \subseteq Range(calls)
      /\ \A d \in Range(calls') : d.from # p
  BY <1>1, DieFacts
<1>4. LifeTypeOK'
  BY <1>1, <1>3, TypeFacts, TypesNext DEF IInv
<1>5. \A q : Queued(q)' => Queued(q)
  BY <1>3, QueuedIs
<1>6. ASSUME NEW v \in Guest
      PROVE  DescOK(v)'
  <2>1. DescOK(v) /\ desc'[v] = desc[v] /\ hyper'[v] = hyper[v]
    BY <1>1 DEF IInv, DescsOK
  <2>2. (Ending(v)' <=> Ending(v)) /\ (Starting(v)' <=> Starting(v)) /\ (Sound(v)' <=> Sound(v))
    BY <1>1 DEF Ending, Starting, Sound
  <2>3. desc[v].flags # {} => desc[v].loader \in Loader
    BY <2>1 DEF DescOK
  <2>4. CASE desc[v].loader # p
    <3>1. Queued(desc[v].loader)' => Queued(desc[v].loader)
      BY <1>1, <1>5 DEF Queued
    <3> QED
      BY <1>1, <1>3, <2>1, <2>2, <2>3, <2>4, <3>1, DescKeeps
  <2>5. CASE desc[v].loader = p
    <3>1. desc[v].flags # {}
      BY <2>1, <2>5, VMs DEF DescOK
    <3>2. desc[v].flags = Loaded \/ (desc[v].flags = Waits /\ Ending(v))
      BY <1>2, <2>1, <2>5, <3>1 DEF DescOK
    <3> QED
      BY <1>1, <1>3, <2>1, <2>2, <2>5, <3>1, <3>2, FlagSets DEF DescOK
  <2> QED
    BY <2>4, <2>5
<1>7. Own' /\ Purse'
  BY <1>1, VMs, PurseKeeps DEF IInv, Own
<1>8. CallsOK'
  <2>1. CallsOK
    BY DEF IInv
  <2>2. \A c \in Range(calls') :
               /\ c.from \in Loader => at'[c.from] = at[c.from]
               /\ c.cmd = "LOAD" /\ Unclaimed(c.from) => Unclaimed(c.from)'
               /\ c.cmd = "KILL" /\ desc[c.vm].flags # Runs => desc'[c.vm].flags # Runs
               /\ c.cmd = "KILL" /\ vmm.pc \notin {"start_sys", "start_wake"} =>
                      vmm'.pc \notin {"start_sys", "start_wake"}
    BY <1>1, <1>3 DEF Unclaimed
  <2> QED
    BY <1>3, <2>1, <2>2, CallsKeep
<1>9. Serving'
  <2>1. vmm.pc # "idle" => /\ ~Queued(vmm.req.from)
                           /\ vmm.req.from \in Loader => at[vmm.req.from] \in {"load", "wait", "dead"}
    BY DEF IInv, Serving
  <2>2. vmm.pc # "idle" => ~Queued(vmm.req.from)'
    BY <1>1, <1>5, <2>1 DEF Queued
  <2>3. vmm.pc # "idle" /\ vmm.req.from \in Loader =>
            /\ at'[vmm.req.from] \in {at[vmm.req.from], "dead"}
            /\ vmm.req.from \in vm_proc => at'[vmm.req.from] = at[vmm.req.from] /\ vmm.req.from \in vm_proc'
    BY <1>2, <1>3, <2>1
  <2> QED
    BY <1>1, <2>2, <2>3, ServingKeeps DEF IInv
<1> QED
  BY <1>4, <1>6, <1>7, <1>8, <1>9 DEF IInv, DescsOK

(* An operator asks; a KILL never crosses a start. *)
LEMMA OperatorAsks ==
    ASSUME Orderly, IInv, NEW o \in Operator, StartCommand(o) \/ KillCommand(o)
    PROVE  IInv'
<1>1. ~Busy(o) /\ desc' = desc /\ hyper' = hyper /\ at' = at /\ vm_proc' = vm_proc /\ vmm' = vmm
  BY DEF StartCommand, KillCommand
<1>2. PICK c : /\ c \in Command /\ c.from = o /\ c.cmd \in {"START", "KILL"} /\ c.vm \in Guest
               /\ c.cmd = "KILL" => desc[c.vm].flags \in KillState
               /\ calls' = Append(calls, c)
  <2>1. CASE StartCommand(o)
    <3>1. PICK v \in Guest, n \in Tokens : calls' = Append(calls, Request("START", o, v, n))
      BY <2>1 DEF StartCommand
    <3> DEFINE c == Request("START", o, v, n)
    <3>2. c \in Command /\ c.from = o /\ c.cmd = "START" /\ c.vm \in Guest
      BY VMs, LifeAssumption DEF Request, Command
    <3> HIDE DEF c
    <3> QED
      BY <3>1, <3>2 DEF c
  <2>2. CASE KillCommand(o)
    <3>1. PICK v \in Guest : desc[v].flags \in KillState /\ calls' = Append(calls, Request("KILL", o, v, 0))
      BY <2>2 DEF KillCommand
    <3> DEFINE c == Request("KILL", o, v, 0)
    <3>2. c \in Command /\ c.from = o /\ c.cmd = "KILL" /\ c.vm = v
      BY VMs DEF Request, Command
    <3> HIDE DEF c
    <3> QED
      BY <3>1, <3>2 DEF c
  <2> QED
    BY <2>1, <2>2
<1>3. calls \in Seq(Command) /\ Distinct(calls)
  BY TypeFacts DEF IInv, CallsOK
<1>4. \A d \in Range(calls) : d.from # o
  BY <1>1, QueuedIs DEF Busy
<1>5. calls' \in Seq(Command) /\ Distinct(calls') /\ Range(calls') = Range(calls) \cup {c}
  BY <1>2, <1>3, <1>4, AppendCalls
<1>6. LifeTypeOK'
  BY <1>1, <1>5, TypeFacts, TypesNext DEF IInv
<1>7. \A q : q # o => (Queued(q)' <=> Queued(q))
  BY <1>2, <1>5, QueuedIs
<1>8. ASSUME NEW v \in Guest
      PROVE  DescOK(v)'
  <2>1. DescOK(v) /\ desc'[v] = desc[v] /\ hyper'[v] = hyper[v]
    BY <1>1 DEF IInv, DescsOK
  <2>2. (Ending(v)' <=> Ending(v)) /\ (Starting(v)' <=> Starting(v))
    BY <1>1 DEF Ending, Starting
  <2>3. desc[v].loader # o
    BY <2>1, VMs DEF DescOK
  <2>4. Queued(desc[v].loader)' => Queued(desc[v].loader)
    BY <1>1, <1>7, <2>3 DEF Queued
  <2> QED
    BY <1>1, <2>1, <2>2, <2>4, DescKeeps
<1>9. Own' /\ Purse'
  BY <1>1, VMs, PurseKeeps DEF IInv, Own
<1>10. CallsOK'
  <2>1. CallOK(c)'
    <3>1. CASE c.cmd = "START"
      BY <1>2, <3>1 DEF CallOK
    <3>2. CASE c.cmd = "KILL"
      <4>1. KillState # {} /\ desc[c.vm].flags \in {Loaded, Waits}
        BY <1>2, <3>2 DEF Orderly, Loaded, Waits
      <4>2. \A q \in Operator : q = o
        BY <4>1 DEF Orderly
      <4>3. vmm.pc \notin {"start_sys", "start_wake"}
        BY <1>1, <4>2 DEF IInv, Serving, StartOK, Busy
      <4> QED
        BY <1>1, <1>2, <3>2, <4>1, <4>3, FlagSets DEF CallOK
    <3> QED
      BY <1>2, <3>1, <3>2
  <2>2. ASSUME NEW d \in Range(calls)
        PROVE  CallOK(d)'
    BY <1>1 DEF IInv, CallsOK, CallOK, Unclaimed
  <2> QED
    BY <1>5, <2>1, <2>2 DEF CallsOK
<1>11. Serving'
  <2>1. vmm.pc # "idle" => vmm.req.from # o /\ ~Queued(vmm.req.from)
    BY <1>1 DEF IInv, Serving, Busy
  <2>2. vmm.pc # "idle" => ~Queued(vmm.req.from)'
    BY <1>1, <1>7, <2>1 DEF Queued
  <2> QED
    BY <1>1, <2>2, ServingKeeps DEF IInv
<1> QED
  BY <1>6, <1>8, <1>9, <1>10, <1>11 DEF IInv, DescsOK

------------------------------------------------------------------------------
(* LOAD and WAITVM *)

LEMMA AllocFree ==
    ASSUME LifeTypeOK
    PROVE  alloc_vmdesc # NIL => alloc_vmdesc \in Guest /\ desc[alloc_vmdesc].flags = {}
<1> DEFINE free == {v \in Guest : desc[v].flags = {}}
<1>1. alloc_vmdesc = IF free = {} THEN NIL ELSE Min(free)
  BY DEF alloc_vmdesc
<1>2. free # {} => Min(free) \in free
  <2>1. free \subseteq Nat
    BY VMs
  <2> HIDE DEF free
  <2> QED
    BY <2>1, MinIn
<1> QED
  BY <1>1, <1>2

LEMMA TakeLoadInv ==
    ASSUME IInv, TakeLoad
    PROVE  IInv'
<1>1. PICK c : c = Head(calls)
  OBVIOUS
<1>2. /\ vmm.pc = "idle" /\ c \in Command /\ c.cmd = "LOAD" /\ CallOK(c) /\ c \in Range(calls)
      /\ calls' \in Seq(Command) /\ Distinct(calls') /\ Range(calls') \subseteq Range(calls)
      /\ \A d \in Range(calls') : d.from # c.from
      /\ ~Queued(c.from)'
  BY <1>1, TakeFacts DEF TakeLoad
<1>3. desc' = desc /\ hyper' = hyper /\ at' = at /\ vm_proc' = vm_proc
  BY DEF TakeLoad
<1>4. c.from \in Loader /\ at[c.from] = "load" /\ Unclaimed(c.from)
  BY <1>2 DEF CallOK
<1>5. /\ vmm' \in VmmType /\ vmm'.req = c
      /\ \/ vmm'.pc = "reply"
         \/ vmm'.pc = "load_pm" /\ vmm'.vm \in Guest /\ desc[vmm'.vm].flags = {}
  <2>1. CASE alloc_vmdesc = NIL
    <3>1. Goto("reply", VM0, "ENOMEM")
      BY <2>1 DEF TakeLoad
    <3>2. "reply" \in Pc /\ VM0 \in VM /\ "ENOMEM" \in Result
      BY VMs DEF Pc, Result
    <3> QED
      BY <1>1, <1>2, <3>1, <3>2, VmmTakes
  <2>2. CASE alloc_vmdesc # NIL
    <3>1. Goto("load_pm", alloc_vmdesc, "OK")
      BY <2>2 DEF TakeLoad
    <3>2. alloc_vmdesc \in Guest /\ desc[alloc_vmdesc].flags = {}
      BY <2>2, AllocFree DEF IInv
    <3>3. "load_pm" \in Pc /\ alloc_vmdesc \in VM /\ "OK" \in Result
      BY <3>2, VMs DEF Pc, Result
    <3> HIDE DEF alloc_vmdesc
    <3> QED
      BY <1>1, <1>2, <3>1, <3>2, <3>3, VmmTakes
  <2> QED
    BY <2>1, <2>2
<1>6. LifeTypeOK'
  BY <1>2, <1>3, <1>5, TypeFacts, TypesNext DEF IInv, VmmType
<1>7. DescsOK' /\ Own' /\ CallsOK' /\ Purse'
  <2>1. \A w \in Guest : (Ending(w) => Ending(w)') /\ (Starting(w)' <=> Starting(w))
    BY <1>2, <1>5 DEF Ending, Starting
  <2> QED
    BY <1>2, <1>3, <1>5, <2>1, TablesKeep
<1>8. Serving'
  <2> DEFINE p == c.from
  <2>1. p \in Loader /\ at'[p] = "load" /\ Unclaimed(p)' /\ ~Queued(p)' /\ vmm'.req.from = p
    BY <1>2, <1>3, <1>4, <1>5 DEF Unclaimed
  <2>2. ReplyOK(p)'
    BY <2>1 DEF ReplyOK, Unclaimed
  <2> HIDE DEF p
  <2>3. CASE vmm'.pc = "reply"
    BY <1>2, <1>5, <2>1, <2>2, <2>3, ReplyNext
  <2>4. CASE vmm'.pc = "load_pm" /\ vmm'.vm \in Guest /\ desc[vmm'.vm].flags = {}
    <3>1. PICK v : v = vmm'.vm
      OBVIOUS
    <3>2. LoadOK(v, p)' /\ StartOK(v, p)' /\ KillOK(v, p)'
      BY <1>3, <2>1, <2>4, <3>1 DEF LoadOK, StartOK, KillOK
    <3> QED
      BY <1>2, <1>5, <2>1, <2>2, <3>1, <3>2, ServingNext
  <2> QED
    BY <1>5, <2>3, <2>4
<1> QED
  BY <1>6, <1>7, <1>8 DEF IInv

(* What VMM knows while it serves p for v. *)
LEMMA Served ==
    ASSUME IInv, vmm.pc # "idle", NEW p, p = vmm.req.from, NEW v, v = vmm.vm
    PROVE  /\ vmm \in VmmType /\ vmm.req \in Command /\ ~Queued(p)
           /\ p \in Loader => at[p] \in {"load", "wait", "dead"}
           /\ LoadOK(v, p) /\ StartOK(v, p) /\ KillOK(v, p) /\ ReplyOK(p)
BY TypeFacts DEF IInv, Serving, VmmType

LEMMA LoadPmInv ==
    ASSUME IInv, LoadPm
    PROVE  IInv'
<1>1. PICK p, v : p = vmm.req.from /\ v = vmm.vm
  OBVIOUS
<1>2. vmm.pc = "load_pm" /\ desc' = desc /\ hyper' = hyper /\ at' = at /\ calls' = calls
  BY DEF LoadPm
<1>3. vmm \in VmmType /\ vmm.req \in Command /\ ~Queued(p) /\ LoadOK(v, p)
  BY <1>1, <1>2, Served
<1>4. p \in Loader /\ v \in Guest /\ at[p] \in {"load", "dead"} /\ desc[v].flags = {} /\ Unclaimed(p)
  BY <1>2, <1>3 DEF LoadOK
<1>5. /\ vm_proc \subseteq vm_proc' /\ vm_proc' \subseteq Loader
      /\ \/ Proceed("load_copy", "OK") /\ (at[p] = "dead" \/ p \in vm_proc')
         \/ Answer("EBADSRCDST")
  <2>1. vm_proc \subseteq Loader
    BY TypeFacts DEF IInv
  <2> QED
    BY <1>1, <1>4, <2>1 DEF LoadPm, Alive
<1>6. /\ vmm' \in VmmType /\ vmm'.req = vmm.req /\ vmm'.vm = v
      /\ vmm'.pc = "reply" \/ (vmm'.pc = "load_copy" /\ (at[p] = "dead" \/ p \in vm_proc'))
  <2>1. "load_copy" \in Pc /\ "OK" \in Result /\ "EBADSRCDST" \in Result
    BY DEF Pc, Result
  <2>2. CASE Proceed("load_copy", "OK") /\ (at[p] = "dead" \/ p \in vm_proc')
    BY <1>1, <1>3, <2>1, <2>2, VmmGoes
  <2>3. CASE Answer("EBADSRCDST")
    BY <1>1, <1>3, <2>1, <2>3, VmmAnswers
  <2> QED
    BY <1>5, <2>2, <2>3
<1>7. LifeTypeOK'
  BY <1>2, <1>5, <1>6, TypeFacts, TypesNext DEF IInv, VmmType
<1>8. DescsOK' /\ Own' /\ CallsOK' /\ Purse'
  <2>1. \A w \in Guest : (Ending(w) => Ending(w)') /\ (Starting(w)' <=> Starting(w))
    BY <1>2, <1>6 DEF Ending, Starting
  <2>2. Distinct(calls') /\ Range(calls') \subseteq Range(calls)
    BY <1>2 DEF IInv, CallsOK
  <2> QED
    BY <1>2, <1>5, <1>6, <2>1, <2>2, TablesKeep
<1>9. Serving'
  <2>1. at'[p] \in {"load", "wait", "dead"} /\ ~Queued(p)' /\ Unclaimed(p)' /\ vmm'.req.from = p
    BY <1>1, <1>2, <1>3, <1>4, <1>6 DEF Queued, Unclaimed
  <2>2. ReplyOK(p)'
    BY <2>1 DEF ReplyOK, Unclaimed
  <2>3. LoadOK(v, p)' /\ StartOK(v, p)' /\ KillOK(v, p)'
    BY <1>2, <1>4, <1>6, <2>1 DEF LoadOK, StartOK, KillOK
  <2> QED
    BY <1>3, <1>6, <2>1, <2>2, <2>3, ServingNext
<1> QED
  BY <1>7, <1>8, <1>9 DEF IInv

(* VMM fails and answers with an error. *)
LEMMA AnswerInv ==
    ASSUME IInv, vmm.pc \notin {"idle", "start_wake", "kill_sig"}, NEW r \in Result, Answer(r),
           desc' = desc, hyper' = hyper, at' = at, vm_proc' = vm_proc, calls' = calls,
           NEW p, p = vmm.req.from, p \in Loader => \A w \in Guest : desc[w].loader = p => desc[w].flags = Loaded,
           r # "OK"
    PROVE  IInv'
<1>1. vmm \in VmmType /\ vmm.req \in Command /\ ~Queued(p) /\ (p \in Loader => at[p] \in {"load", "wait", "dead"})
  BY Served
<1>2. vmm' \in VmmType /\ vmm'.pc = "reply" /\ vmm'.req = vmm.req /\ vmm'.vm = vmm.vm /\ vmm'.r = r
  BY <1>1, VmmAnswers
<1>3. LifeTypeOK'
  BY <1>2, TypeFacts, TypesNext DEF IInv, VmmType
<1>4. DescsOK' /\ Own' /\ CallsOK' /\ Purse'
  <2>1. \A w \in Guest : (Ending(w) => Ending(w)') /\ (Starting(w)' <=> Starting(w))
    BY <1>2 DEF Ending, Starting
  <2>2. Distinct(calls') /\ Range(calls') \subseteq Range(calls)
    BY DEF IInv, CallsOK
  <2> QED
    BY <1>2, <2>1, <2>2, TablesKeep
<1>5. Serving'
  <2>1. ~Queued(p)' /\ vmm'.req.from = p
    BY <1>1, <1>2 DEF Queued
  <2>2. ReplyOK(p)'
    BY <1>2 DEF ReplyOK
  <2> QED
    BY <1>1, <1>2, <2>1, <2>2, ReplyNext
<1> QED
  BY <1>3, <1>4, <1>5 DEF IInv

LEMMA LoadCopyInv ==
    ASSUME IInv, LoadCopy
    PROVE  IInv'
<1>1. PICK p, v : p = vmm.req.from /\ v = vmm.vm
  OBVIOUS
<1>2. vmm.pc = "load_copy" /\ hyper' = hyper /\ at' = at /\ vm_proc' = vm_proc /\ calls' = calls
  BY DEF LoadCopy
<1>3. vmm \in VmmType /\ vmm.req \in Command /\ ~Queued(p) /\ LoadOK(v, p)
  BY <1>1, <1>2, Served
<1>4. /\ p \in Loader /\ v \in Guest /\ at[p] \in {"load", "dead"} /\ desc[v].flags = {} /\ Unclaimed(p)
      /\ at[p] = "dead" \/ p \in vm_proc
  BY <1>2, <1>3 DEF LoadOK
<1>5. CASE Answer("EFAULT") /\ UNCHANGED desc
  <2>1. "EFAULT" \in Result /\ "EFAULT" # "OK"
    BY DEF Result
  <2>2. vmm.pc \notin {"idle", "start_wake", "kill_sig"}
    BY <1>2
  <2>3. p \in Loader => \A w \in Guest : desc[w].loader = p => desc[w].flags = Loaded
    BY <1>4 DEF Unclaimed
  <2> QED
    BY <1>1, <1>2, <1>5, <2>1, <2>2, <2>3, AnswerInv
<1>6. CASE /\ Alive(p) /\ Proceed("load_sys", "OK")
           /\ desc' = [desc EXCEPT ![v].flags = {"LOADED"}, ![v].loader = p]
  <2>1. at[p] = "load" /\ p \in vm_proc
    BY <1>4, <1>6 DEF Alive
  <2>2. vmm' \in VmmType /\ vmm'.pc = "load_sys" /\ vmm'.req = vmm.req /\ vmm'.vm = v
    <3>1. "load_sys" \in Pc /\ "OK" \in Result
      BY DEF Pc, Result
    <3> QED
      BY <1>1, <1>3, <1>6, <3>1, VmmGoes
  <2>3. desc \in [VM -> Desc] /\ v \in VM /\ Loaded \in SUBSET Flag
    BY <1>4, TypeFacts, VMs, FlagSets DEF IInv
  <2>4. /\ desc' \in [VM -> Desc] /\ \A w \in VM \ {v} : desc'[w] = desc[w]
        /\ desc'[v].flags = Loaded /\ desc'[v].loader = p /\ desc'[v].tokens = desc[v].tokens
    BY <1>4, <1>6, <2>3 DEF Desc, Loaded
  <2>5. LifeTypeOK'
    BY <1>2, <2>2, <2>4, TypeFacts, TypesNext DEF IInv, VmmType
  <2>6. ASSUME NEW w \in Guest
        PROVE  DescOK(w)'
    <3>1. DescOK(w) /\ hyper'[w] = hyper[w] /\ w \in VM
      BY <1>2, VMs DEF IInv, DescsOK
    <3>2. (Ending(w)' <=> Ending(w)) /\ (Starting(w)' <=> Starting(w))
      BY <1>2, <2>2 DEF Ending, Starting
    <3>3. CASE w # v
      <4>1. Queued(desc[w].loader)' => Queued(desc[w].loader)
        BY <1>2, <2>4, <3>1, <3>3 DEF Queued
      <4> QED
        BY <1>2, <2>4, <3>1, <3>2, <3>3, <4>1, DescKeeps
    <3>4. CASE w = v
      <4>1. DescOK(v) /\ ~Starting(v)
        BY <1>2, <3>1, <3>4 DEF Starting
      <4>2. desc[v].tokens = 0 /\ "RUNNING" \notin hyper[v].flags
        BY <1>4, <4>1, FlagSets DEF DescOK
      <4>3. at'[p] = "load"
        BY <1>2, <2>1
      <4> QED
        BY <1>2, <1>4, <2>4, <3>4, <4>2, <4>3, FlagSets DEF DescOK
    <3> QED
      BY <3>3, <3>4
  <2>7. Own'
    BY <1>4, <2>4, VMs DEF IInv, Own, Unclaimed
  <2>8. CallsOK'
    <3>1. CallsOK /\ Distinct(calls') /\ Range(calls') \subseteq Range(calls)
      BY <1>2 DEF IInv, CallsOK
    <3>2. ASSUME NEW c \in Range(calls')
          PROVE  /\ c.from \in Loader => at'[c.from] = at[c.from]
                 /\ c.cmd = "LOAD" /\ Unclaimed(c.from) => Unclaimed(c.from)'
                 /\ c.cmd = "KILL" /\ desc[c.vm].flags # Runs => desc'[c.vm].flags # Runs
                 /\ c.cmd = "KILL" /\ vmm.pc \notin {"start_sys", "start_wake"} =>
                        vmm'.pc \notin {"start_sys", "start_wake"}
      <4>1. c.from # p
        BY <1>2, <1>3, QueuedIs
      <4>2. Unclaimed(c.from) => Unclaimed(c.from)'
        BY <2>4, <4>1, VMs DEF Unclaimed
      <4>3. c.cmd = "KILL" => c.vm \in Guest
        BY <3>1 DEF CallsOK, CallOK
      <4>4. c.cmd = "KILL" /\ desc[c.vm].flags # Runs => desc'[c.vm].flags # Runs
        BY <2>4, <4>3, VMs, FlagSets
      <4> QED
        BY <1>2, <2>2, <4>2, <4>4
    <3> QED
      BY <3>1, <3>2, CallsKeep
  <2>9. Purse'
    BY <2>3, <2>4, VMs, PurseKeeps DEF IInv
  <2>10. Serving'
    <3>1. at'[p] = "load" /\ ~Queued(p)' /\ vmm'.req.from = p
      BY <1>1, <1>2, <1>3, <2>1, <2>2 DEF Queued
    <3>2. LoadOK(v, p)'
      BY <1>2, <1>4, <2>1, <2>2, <2>4 DEF LoadOK
    <3>3. StartOK(v, p)' /\ KillOK(v, p)' /\ ReplyOK(p)'
      BY <2>2 DEF StartOK, KillOK, ReplyOK
    <3> QED
      BY <1>3, <2>2, <3>1, <3>2, <3>3, ServingNext
  <2> QED
    BY <2>5, <2>6, <2>7, <2>8, <2>9, <2>10 DEF IInv, DescsOK
<1> QED
  BY <1>1, <1>5, <1>6 DEF LoadCopy

LEMMA LoadSysInv ==
    ASSUME IInv, LoadSys
    PROVE  IInv'
<1>1. PICK p, v : p = vmm.req.from /\ v = vmm.vm
  OBVIOUS
<1>2. vmm.pc = "load_sys" /\ desc' = desc /\ at' = at /\ vm_proc' = vm_proc /\ calls' = calls
  BY DEF LoadSys
<1>3. vmm \in VmmType /\ vmm.req \in Command /\ ~Queued(p) /\ LoadOK(v, p)
  BY <1>1, <1>2, Served
<1>4. /\ p \in Loader /\ v \in Guest /\ desc[v].flags = Loaded /\ desc[v].loader = p
      /\ at[p] = "load" /\ p \in vm_proc
  BY <1>2, <1>3 DEF LoadOK
<1>5. \A w \in Guest : desc[w].loader = p => w = v
  BY <1>4, VMs DEF IInv, Own
<1>6. CASE Answer("EVMSTATUS") /\ UNCHANGED hyper
  <2>1. "EVMSTATUS" \in Result /\ "EVMSTATUS" # "OK"
    BY DEF Result
  <2>2. vmm.pc \notin {"idle", "start_wake", "kill_sig"}
    BY <1>2
  <2>3. p \in Loader => \A w \in Guest : desc[w].loader = p => desc[w].flags = Loaded
    BY <1>4, <1>5
  <2> QED
    BY <1>1, <1>2, <1>6, <2>1, <2>2, <2>3, AnswerInv
<1>7. ASSUME NEW f \in {{}, Loaded}, NEW r \in Result, Answer(r), r = "OK" => f = Loaded,
             hyper[v].flags = {}, hyper' = [hyper EXCEPT ![v].flags = f, ![v].loader = p]
      PROVE  IInv'
  <2>1. vmm' \in VmmType /\ vmm'.pc = "reply" /\ vmm'.req = vmm.req /\ vmm'.vm = v /\ vmm'.r = r
    BY <1>1, <1>3, <1>7, VmmAnswers
  <2>2. hyper \in [Guest -> Hyper] /\ f \in SUBSET Flag
    BY <1>7, TypeFacts, FlagSets DEF IInv
  <2>3. /\ hyper' \in [Guest -> Hyper] /\ \A w \in Guest \ {v} : hyper'[w] = hyper[w]
        /\ hyper'[v].flags = f /\ hyper'[v].loader = p
    BY <1>4, <1>7, <2>2 DEF Hyper
  <2>4. LifeTypeOK'
    BY <1>2, <2>1, <2>3, TypeFacts, TypesNext DEF IInv, VmmType
  <2>5. ASSUME NEW w \in Guest
        PROVE  DescOK(w)'
    <3>1. DescOK(w) /\ desc'[w] = desc[w]
      BY <1>2 DEF IInv, DescsOK
    <3>2. (Ending(w)' <=> Ending(w)) /\ (Starting(w)' <=> Starting(w))
      BY <1>2, <2>1 DEF Ending, Starting
    <3>3. CASE w # v
      <4>1. Queued(desc[w].loader)' => Queued(desc[w].loader)
        BY <1>2 DEF Queued
      <4> QED
        BY <1>2, <2>3, <3>1, <3>2, <3>3, <4>1, DescKeeps
    <3>4. CASE w = v
      <4>1. DescOK(v)
        BY <3>1, <3>4
      <4>2. "RUNNING" \notin f /\ at'[p] = "load" /\ desc'[v].flags = Loaded /\ desc'[v].loader = p
        BY <1>2, <1>4, <1>7, FlagSets
      <4>3. desc'[v].tokens = 0
        BY <1>2, <1>4, <4>1, FlagSets DEF DescOK
      <4> QED
        BY <1>4, <2>3, <3>4, <4>2, <4>3, FlagSets DEF DescOK
    <3> QED
      BY <3>3, <3>4
  <2>6. Own' /\ Purse'
    BY <1>2, VMs, PurseKeeps DEF IInv, Own
  <2>7. CallsOK'
    <3>1. CallsOK /\ Distinct(calls') /\ Range(calls') \subseteq Range(calls)
      BY <1>2 DEF IInv, CallsOK
    <3>2. \A c \in Range(calls') :
               /\ c.from \in Loader => at'[c.from] = at[c.from]
               /\ c.cmd = "LOAD" /\ Unclaimed(c.from) => Unclaimed(c.from)'
               /\ c.cmd = "KILL" /\ desc[c.vm].flags # Runs => desc'[c.vm].flags # Runs
               /\ c.cmd = "KILL" /\ vmm.pc \notin {"start_sys", "start_wake"} =>
                      vmm'.pc \notin {"start_sys", "start_wake"}
      BY <1>2, <2>1 DEF Unclaimed
    <3> QED
      BY <3>1, <3>2, CallsKeep
  <2>8. Serving'
    <3>1. at'[p] = "load" /\ ~Queued(p)' /\ vmm'.req.from = p
      BY <1>1, <1>2, <1>3, <1>4, <2>1 DEF Queued
    <3>2. r = "OK" => Sound(v)' /\ p \in vm_proc'
      BY <1>2, <1>4, <1>7, <2>3 DEF Sound
    <3>3. ReplyOK(p)'
      <4> SUFFICES ASSUME NEW w \in Guest, desc'[w].loader = p
                   PROVE  desc'[w].flags = Loaded /\ (r = "OK" => Sound(w)' /\ p \in vm_proc')
        BY <2>1 DEF ReplyOK
      <4>1. w = v
        BY <1>2, <1>5
      <4> QED
        BY <1>2, <1>4, <3>2, <4>1
    <3> QED
      BY <1>3, <2>1, <3>1, <3>3, ReplyNext
  <2> QED
    BY <2>4, <2>5, <2>6, <2>7, <2>8 DEF IInv, DescsOK
<1>8. CASE /\ hyper[v].flags = {} /\ Answer("OK")
           /\ hyper' = [hyper EXCEPT ![v].flags = {"LOADED"}, ![v].loader = p]
  <2>1. "OK" \in Result /\ Loaded \in {{}, Loaded} /\ hyper' = [hyper EXCEPT ![v].flags = Loaded, ![v].loader = p]
    BY <1>8 DEF Result, Loaded
  <2> QED
    BY <1>7, <1>8, <2>1
<1>9. CASE /\ hyper[v].flags = {} /\ Answer("EINVAL")
           /\ hyper' = [hyper EXCEPT ![v].loader = p]
  <2>1. "EINVAL" \in Result /\ "EINVAL" # "OK" /\ {} \in {{}, Loaded}
    BY DEF Result
  <2>2. hyper' = [hyper EXCEPT ![v].flags = {}, ![v].loader = p]
    <3>1. hyper \in [Guest -> Hyper]
      BY TypeFacts DEF IInv
    <3>2. hyper[v] \in Hyper
      BY <1>4, <3>1
    <3>3. [hyper[v] EXCEPT !.loader = p] = [hyper[v] EXCEPT !.flags = {}, !.loader = p]
      BY <1>9, <3>2 DEF Hyper
    <3>4. hyper' = [hyper EXCEPT ![v] = [hyper[v] EXCEPT !.loader = p]]
      BY <1>9
    <3>5. hyper' = [hyper EXCEPT ![v] = [hyper[v] EXCEPT !.flags = {}, !.loader = p]]
      BY <3>3, <3>4
    <3> QED
      BY <1>4, <3>1, <3>5
  <2> QED
    BY <1>7, <1>9, <2>1, <2>2
<1> QED
  BY <1>1, <1>4, <1>6, <1>8, <1>9 DEF LoadSys

LEMMA TakeWaitInv ==
    ASSUME IInv, TakeWait
    PROVE  IInv'
<1>1. PICK c : c = Head(calls)
  OBVIOUS
<1>2. /\ vmm.pc = "idle" /\ c \in Command /\ c.cmd = "WAITVM" /\ CallOK(c) /\ c \in Range(calls)
      /\ calls' \in Seq(Command) /\ Distinct(calls') /\ Range(calls') \subseteq Range(calls)
      /\ \A d \in Range(calls') : d.from # c.from
      /\ ~Queued(c.from)'
  BY <1>1, TakeFacts DEF TakeWait
<1>3. hyper' = hyper /\ at' = at /\ vm_proc' = vm_proc
  BY DEF TakeWait
<1> DEFINE p == c.from
           mine == {v \in Guest : desc[v].flags = Loaded /\ desc[v].loader = p}
<1>4. p \in Loader /\ at[p] = "wait" /\ Queued(p) /\ ~Queued(p)'
  BY <1>2, QueuedIs DEF CallOK
<1>5. \/ \E r \in {"ENAMETOOLONG", "EFAULT", "EPROXYSVR"} : Goto("reply", VM0, r) /\ desc' = desc
      \/ /\ mine # {} /\ vmm' = vmm
         /\ desc' = [desc EXCEPT ![Min(mine)].flags = @ \cup {"WAITING"}]
  BY <1>1 DEF TakeWait, Loaded
<1>6. mine \subseteq Nat
  BY VMs
<1>7. \A w \in Guest : desc[w].loader = p => w \in mine
  <2> SUFFICES ASSUME NEW w \in Guest, desc[w].loader = p PROVE desc[w].flags = Loaded
    OBVIOUS
  <2>1. DescOK(w) /\ ~Ending(w)
    BY <1>2 DEF IInv, DescsOK, Ending
  <2>2. desc[w].flags # {}
    BY <1>4, <2>1, VMs DEF DescOK
  <2>3. desc[w].flags # Waits /\ desc[w].flags # Runs
    BY <1>4, <2>1 DEF DescOK
  <2> QED
    BY <2>1, <2>2, <2>3 DEF DescOK
<1>8. ASSUME NEW r \in {"ENAMETOOLONG", "EFAULT", "EPROXYSVR"}, Goto("reply", VM0, r), desc' = desc
      PROVE  IInv'
  <2>1. vmm' \in VmmType /\ vmm'.req = c /\ vmm'.pc = "reply" /\ vmm'.r # "OK" /\ desc' = desc
    <3>1. "reply" \in Pc /\ VM0 \in VM /\ r \in Result
      BY VMs DEF Pc, Result
    <3>2. vmm'.r # "OK"
      BY <1>8 DEF Goto
    <3> QED
      BY <1>1, <1>2, <1>8, <3>1, <3>2, VmmTakes
  <2>2. LifeTypeOK'
    BY <1>2, <1>3, <2>1, TypeFacts, TypesNext DEF IInv, VmmType
  <2>3. DescsOK' /\ Own' /\ CallsOK' /\ Purse'
    <3>1. \A w \in Guest : (Ending(w) => Ending(w)') /\ (Starting(w)' <=> Starting(w))
      BY <1>2, <2>1 DEF Ending, Starting
    <3> QED
      BY <1>2, <1>3, <2>1, <3>1, TablesKeep
  <2>4. Serving'
    <3>1. at'[p] = "wait" /\ ~Queued(p)' /\ vmm'.req.from = p
      BY <1>3, <1>4, <2>1
    <3>2. \A w \in Guest : desc'[w].loader = p => desc'[w].flags = Loaded
      BY <1>7, <2>1
    <3> HIDE DEF mine, p
    <3>3. ReplyOK(p)'
      BY <2>1, <3>2 DEF ReplyOK
    <3> QED
      BY <1>2, <2>1, <3>1, <3>3, ReplyNext
  <2> QED
    BY <2>2, <2>3, <2>4 DEF IInv
<1>9. CASE /\ mine # {} /\ vmm' = vmm
           /\ desc' = [desc EXCEPT ![Min(mine)].flags = @ \cup {"WAITING"}]
  <2>0. PICK m : m = Min(mine)
    OBVIOUS
  <2>1. m \in mine
    BY <1>6, <1>9, <2>0, MinIn
  <2>2. m \in Guest /\ desc[m].flags = Loaded /\ desc[m].loader = p
    BY <2>1
  <2>3. desc' = [desc EXCEPT ![m].flags = @ \cup {"WAITING"}] /\ vmm' = vmm
    BY <1>9, <2>0
  <2> HIDE DEF mine
  <2>4. desc \in [VM -> Desc] /\ m \in VM
    BY <2>2, TypeFacts, VMs DEF IInv
  <2>5. desc' = [desc EXCEPT ![m].flags = Waits]
    BY <2>2, <2>3, FlagSets
  <2>6. /\ desc' \in [VM -> Desc] /\ \A w \in VM \ {m} : desc'[w] = desc[w]
        /\ desc'[m].flags = Waits /\ desc'[m].loader = p /\ desc'[m].tokens = desc[m].tokens
    <3>1. Waits \in SUBSET Flag
      BY FlagSets
    <3> QED
      BY <2>2, <2>4, <2>5, <3>1 DEF Desc
  <2>7. LifeTypeOK'
    BY <1>2, <1>3, <2>3, <2>6, TypeFacts, TypesNext DEF IInv
  <2>8. ASSUME NEW w \in Guest
        PROVE  DescOK(w)'
    <3>1. DescOK(w) /\ hyper'[w] = hyper[w] /\ w \in VM
      BY <1>3, VMs DEF IInv, DescsOK
    <3>2. ~Ending(w) /\ ~Starting(w) /\ ~Ending(w)' /\ ~Starting(w)'
      BY <1>2, <2>3 DEF Ending, Starting
    <3>3. CASE w # m
      <4>1. desc'[w] = desc[w]
        BY <2>6, <3>1, <3>3
      <4>2. Queued(desc[w].loader)' => Queued(desc[w].loader)
        <5>1. Queued(desc[w].loader)' => \E d \in Range(calls') : d.from = desc[w].loader
          BY <4>1 DEF Queued, Range
        <5> QED
          BY <1>2, <5>1, QueuedIs
      <4> QED
        BY <1>3, <3>1, <3>2, <4>1, <4>2, DescKeeps
    <3>4. CASE w = m
      <4>1. hyper[m].flags = Loaded /\ hyper[m].loader = p /\ p \in vm_proc
        BY <1>4, <2>2, <3>1, <3>2, <3>4 DEF DescOK, Sound
      <4>2. desc[m].tokens = 0
        BY <2>2, <3>1, <3>4, FlagSets DEF DescOK
      <4>3. Queued(desc[m].loader)' <=> Queued(p)'
        BY <2>6 DEF Queued
      <4>4. p \in Loader /\ at'[p] = "wait" /\ p \in vm_proc' /\ ~Queued(desc[m].loader)' /\ hyper'[m] = hyper[m]
        BY <1>3, <1>4, <4>1, <4>3
      <4> HIDE DEF p
      <4> QED
        BY <2>6, <3>2, <3>4, <4>1, <4>2, <4>4, FlagSets DEF DescOK
    <3> QED
      BY <3>3, <3>4
  <2>9. \A w \in Guest : desc'[w].loader = desc[w].loader
    BY <2>2, <2>6, VMs
  <2>10. Own'
    BY <2>9 DEF IInv, Own
  <2>11. CallsOK'
    <3>1. CallsOK
      BY DEF IInv
    <3>2. ASSUME NEW d \in Range(calls')
          PROVE  /\ d.from \in Loader => at'[d.from] = at[d.from]
                 /\ d.cmd = "LOAD" /\ Unclaimed(d.from) => Unclaimed(d.from)'
                 /\ d.cmd = "KILL" /\ desc[d.vm].flags # Runs => desc'[d.vm].flags # Runs
                 /\ d.cmd = "KILL" /\ vmm.pc \notin {"start_sys", "start_wake"} =>
                        vmm'.pc \notin {"start_sys", "start_wake"}
      <4>1. Unclaimed(d.from) => Unclaimed(d.from)'
        BY <2>9 DEF Unclaimed
      <4>2. d.cmd = "KILL" => d.vm \in Guest
        BY <1>2, <3>1 DEF CallsOK, CallOK
      <4>3. d.cmd = "KILL" /\ desc[d.vm].flags # Runs => desc'[d.vm].flags # Runs
        BY <2>6, <4>2, VMs, FlagSets
      <4> QED
        BY <1>3, <2>3, <4>1, <4>3
    <3> QED
      BY <1>2, <3>1, <3>2, CallsKeep
  <2>12. Purse'
    BY <2>4, <2>6, VMs, PurseKeeps DEF IInv
  <2>13. Serving'
    BY <1>2, <2>3 DEF Serving
  <2> QED
    BY <2>7, <2>8, <2>10, <2>11, <2>12, <2>13 DEF IInv, DescsOK
<1> QED
  BY <1>5, <1>8, <1>9

------------------------------------------------------------------------------
(* START *)

LEMMA TakeStartInv ==
    ASSUME Orderly, IInv, TakeStart
    PROVE  IInv'
<1>1. PICK c : c = Head(calls)
  OBVIOUS
<1>2. /\ vmm.pc = "idle" /\ c \in Command /\ c.cmd = "START" /\ CallOK(c) /\ c \in Range(calls)
      /\ calls' \in Seq(Command) /\ Distinct(calls') /\ Range(calls') \subseteq Range(calls)
      /\ \A d \in Range(calls') : d.from # c.from
      /\ ~Queued(c.from)'
  BY <1>1, TakeFacts DEF TakeStart
<1>3. desc' = desc /\ hyper' = hyper /\ at' = at /\ vm_proc' = vm_proc
  BY DEF TakeStart
<1>4. c.from \in Operator /\ c.from \notin Loader /\ c.vm \in Guest /\ c.vm \in VM
  BY <1>2, VMs DEF CallOK
<1>5. /\ vmm' \in VmmType /\ vmm'.req = c /\ vmm'.vm = c.vm
      /\ \/ vmm'.pc = "reply"
         \/ vmm'.pc = "start_sys" /\ c.n \in 1..desc[VM0].tokens /\ desc[c.vm].flags = Waits
  <2>1. "start_sys" \in Pc /\ "reply" \in Pc /\ "OK" \in Result /\ "ERROR" \in Result
    BY DEF Pc, Result
  <2>2. CASE Goto("reply", c.vm, "ERROR")
    BY <1>1, <1>2, <1>4, <2>1, <2>2, VmmTakes
  <2>3. CASE /\ Goto("start_sys", c.vm, "OK")
             /\ c.n \in 1..desc[VM0].tokens /\ desc[c.vm].flags = Waits
    BY <1>1, <1>2, <1>4, <2>1, <2>3, VmmTakes
  <2> QED
    BY <1>1, <2>2, <2>3 DEF TakeStart, Waits
<1>6. LifeTypeOK'
  BY <1>2, <1>3, <1>5, TypeFacts, TypesNext DEF IInv, VmmType
<1>7. \A d \in Range(calls') : d.cmd # "KILL"
  <2> SUFFICES ASSUME NEW d \in Range(calls'), d.cmd = "KILL" PROVE FALSE
    OBVIOUS
  <2>1. KillState # {} /\ d.from \in Operator /\ d.from # c.from
    BY <1>2 DEF IInv, CallsOK, CallOK
  <2> QED
    BY <1>4, <2>1 DEF Orderly
<1>8. DescsOK' /\ Own' /\ CallsOK' /\ Purse'
  <2>1. \A w \in Guest : (Ending(w) => Ending(w)') /\ (Starting(w)' <=> Starting(w))
    BY <1>2, <1>5 DEF Ending, Starting
  <2> QED
    BY <1>2, <1>3, <1>7, <2>1, TablesKeep
<1>9. Serving'
  <2> DEFINE p == c.from
             v == c.vm
  <2>1. p \in Operator /\ p \notin Loader /\ ~Queued(p)' /\ vmm'.req.from = p /\ vmm'.vm = v /\ v \in Guest
    BY <1>2, <1>4, <1>5
  <2>2. ReplyOK(p)'
    BY <2>1 DEF ReplyOK
  <2>3. LoadOK(v, p)' /\ StartOK(v, p)' /\ KillOK(v, p)'
    BY <1>3, <1>5, <2>1 DEF LoadOK, StartOK, KillOK
  <2> HIDE DEF p, v
  <2> QED
    BY <1>2, <1>5, <2>1, <2>2, <2>3, ServingNext
<1> QED
  BY <1>6, <1>8, <1>9 DEF IInv

(* The start does not fail: the loader of a VM that waits is there. *)
LEMMA StartSysInv ==
    ASSUME Orderly, IInv, StartSys
    PROVE  IInv'
<1>1. PICK p, v, n : p = vmm.req.from /\ v = vmm.vm /\ n = vmm.req.n
  OBVIOUS
<1>2. vmm.pc = "start_sys" /\ desc' = desc /\ at' = at /\ vm_proc' = vm_proc /\ calls' = calls
  BY DEF StartSys
<1>3. vmm \in VmmType /\ vmm.req \in Command /\ ~Queued(p) /\ StartOK(v, p)
  BY <1>1, <1>2, Served
<1>4. p \in Operator /\ p \notin Loader /\ v \in Guest /\ desc[v].flags = Waits /\ n \in 1..desc[VM0].tokens /\ n \in Int
  BY <1>1, <1>2, <1>3, VMs DEF StartOK, Command
<1>5. \A w \in Guest : ~Ending(w) /\ ~Starting(w)
  BY <1>2 DEF Ending, Starting
<1>6. /\ hyper[v].flags = Loaded /\ hyper[v].loader = desc[v].loader
      /\ desc[v].loader \in Loader /\ at[desc[v].loader] = "wait"
  BY <1>4, <1>5, FlagSets DEF IInv, DescsOK, DescOK
<1>7. /\ hyper' = [hyper EXCEPT ![v].flags = @ \cup {"RUNNING"}, ![v].bsize = n]
      /\ Proceed("start_wake", "OK")
  BY <1>1, <1>6 DEF StartSys, Alive, Orderly, Loaded
<1>8. /\ vmm' \in VmmType /\ vmm'.pc = "start_wake" /\ vmm'.req = vmm.req /\ vmm'.vm = v /\ vmm'.r = "OK"
  <2>1. "start_wake" \in Pc /\ "OK" \in Result
    BY DEF Pc, Result
  <2> QED
    BY <1>1, <1>3, <1>7, <2>1, VmmGoes
<1>9. /\ hyper' \in [Guest -> Hyper] /\ \A w \in Guest \ {v} : hyper'[w] = hyper[w]
      /\ hyper'[v].flags = Runs /\ hyper'[v].loader = hyper[v].loader /\ hyper'[v].bsize = n
  <2>1. hyper \in [Guest -> Hyper] /\ Runs \in SUBSET Flag
    BY TypeFacts, FlagSets DEF IInv
  <2>2. hyper' = [hyper EXCEPT ![v].flags = Runs, ![v].bsize = n]
    BY <1>6, <1>7, FlagSets
  <2> QED
    BY <1>4, <2>1, <2>2 DEF Hyper
<1>10. LifeTypeOK'
  BY <1>2, <1>8, <1>9, TypeFacts, TypesNext DEF IInv, VmmType
<1>11. ASSUME NEW w \in Guest
       PROVE  DescOK(w)'
  <2>1. DescOK(w) /\ desc'[w] = desc[w] /\ ~Ending(w) /\ ~Starting(w)
    BY <1>2, <1>5 DEF IInv, DescsOK
  <2>2. ~Ending(w)' /\ (Starting(w)' <=> w = v)
    BY <1>8 DEF Ending, Starting
  <2>3. CASE w # v
    <3>1. Queued(desc[w].loader)' => Queued(desc[w].loader)
      BY <1>2 DEF Queued
    <3> QED
      BY <1>2, <1>9, <2>1, <2>2, <2>3, <3>1, DescKeeps
  <2>4. CASE w = v
    <3>1. Queued(desc[v].loader)' <=> Queued(desc[v].loader)
      BY <1>2 DEF Queued
    <3>2. DescOK(v) /\ Starting(v)'
      BY <2>1, <2>2, <2>4
    <3>3. desc[v].tokens = 0 /\ desc[v].loader \in vm_proc /\ ~Queued(desc[v].loader)
      BY <1>4, <1>5, <3>2, FlagSets DEF DescOK
    <3> QED
      BY <1>2, <1>4, <1>6, <1>9, <2>4, <3>1, <3>2, <3>3, FlagSets DEF DescOK
  <2> QED
    BY <2>3, <2>4
<1>12. Own' /\ Purse'
  BY <1>2, VMs, PurseKeeps DEF IInv, Own
<1>13. CallsOK'
  <2>1. CallsOK /\ Distinct(calls') /\ Range(calls') \subseteq Range(calls)
    BY <1>2 DEF IInv, CallsOK
  <2>2. \A c \in Range(calls') :
               /\ c.from \in Loader => at'[c.from] = at[c.from]
               /\ c.cmd = "LOAD" /\ Unclaimed(c.from) => Unclaimed(c.from)'
               /\ c.cmd = "KILL" /\ desc[c.vm].flags # Runs => desc'[c.vm].flags # Runs
               /\ c.cmd = "KILL" /\ vmm.pc \notin {"start_sys", "start_wake"} =>
                      vmm'.pc \notin {"start_sys", "start_wake"}
    BY <1>2 DEF Unclaimed
  <2> QED
    BY <2>1, <2>2, CallsKeep
<1>14. Serving'
  <2>1. ~Queued(p)' /\ vmm'.req.from = p
    BY <1>1, <1>2, <1>3, <1>8 DEF Queued
  <2>2. StartOK(v, p)'
    BY <1>1, <1>2, <1>4, <1>8, <1>9 DEF StartOK
  <2>3. LoadOK(v, p)' /\ KillOK(v, p)' /\ ReplyOK(p)'
    BY <1>8 DEF LoadOK, KillOK, ReplyOK
  <2> QED
    BY <1>3, <1>4, <1>8, <2>1, <2>2, <2>3, ServingNext
<1> QED
  BY <1>10, <1>11, <1>12, <1>13, <1>14 DEF IInv, DescsOK

(* The tokens of a VM come from VM0. *)
IsStarted(d, v, n) ==
    /\ d \in [VM -> Desc]
    /\ \A w \in VM \ {v, VM0} : d[w] = desc[w]
    /\ d[v] = [desc[v] EXCEPT !.flags = Runs, !.bsize = n, !.tokens = n]
    /\ d[VM0].tokens = desc[VM0].tokens - n

LEMMA StartedIs ==
    ASSUME desc \in [VM -> Desc], NEW v \in Guest, NEW n \in Int
    PROVE  IsStarted(Started(v, n), v, n)
<1>1. v \in VM /\ VM0 \in VM /\ v # VM0
  BY VMs
<1> DEFINE a == [desc EXCEPT ![v].flags = Runs, ![v].bsize = n, ![v].tokens = n]
<1>2. desc[v] \in Desc /\ desc[VM0] \in Desc /\ Runs \in SUBSET Flag
  BY <1>1, FlagSets
<1>3. a = [desc EXCEPT ![v] = [desc[v] EXCEPT !.flags = Runs, !.bsize = n, !.tokens = n]]
  BY <1>1
<1>4. [desc[v] EXCEPT !.flags = Runs, !.bsize = n, !.tokens = n] \in Desc
  BY <1>2 DEF Desc
<1>5. a \in [VM -> Desc] /\ a[VM0] = desc[VM0]
  BY <1>1, <1>3, <1>4
<1>6. Started(v, n) = [a EXCEPT ![VM0] = [a[VM0] EXCEPT !.tokens = @ - n]]
  BY DEF Started, Runs
<1>7. /\ a[v] = [desc[v] EXCEPT !.flags = Runs, !.bsize = n, !.tokens = n]
      /\ \A w \in VM \ {v} : a[w] = desc[w]
  BY <1>1, <1>3
<1> HIDE DEF a
<1>8. [a[VM0] EXCEPT !.tokens = @ - n] \in Desc /\ [a[VM0] EXCEPT !.tokens = @ - n].tokens = desc[VM0].tokens - n
  BY <1>2, <1>5 DEF Desc
<1>9. /\ Started(v, n) \in [VM -> Desc]
      /\ \A w \in VM \ {v, VM0} : Started(v, n)[w] = desc[w]
      /\ Started(v, n)[v] = [desc[v] EXCEPT !.flags = Runs, !.bsize = n, !.tokens = n]
      /\ Started(v, n)[VM0].tokens = desc[VM0].tokens - n
  BY <1>1, <1>5, <1>6, <1>7, <1>8
<1> QED
  BY <1>9 DEF IsStarted

LEMMA StartWakeInv ==
    ASSUME IInv, StartWake
    PROVE  IInv'
<1>1. PICK o, v, n, p : o = vmm.req.from /\ v = vmm.vm /\ n = vmm.req.n /\ p = desc[v].loader
  OBVIOUS
<1>2. vmm.pc = "start_wake" /\ hyper' = hyper /\ vm_proc' = vm_proc /\ calls' = calls
  BY DEF StartWake
<1>3. vmm \in VmmType /\ vmm.req \in Command /\ ~Queued(o) /\ StartOK(v, o)
  BY <1>1, <1>2, Served
<1>4. /\ o \in Operator /\ o \notin Loader /\ v \in Guest /\ desc[v].flags = Waits
      /\ n \in 1..desc[VM0].tokens /\ n \in Int /\ vmm.r = "OK" /\ hyper[v].bsize = n
  BY <1>1, <1>2, <1>3, VMs DEF StartOK, Command
<1>5. /\ Starting(v) /\ \A w \in Guest : ~Ending(w) /\ (Starting(w) <=> w = v)
  BY <1>1, <1>2 DEF Ending, Starting
<1>6. DescOK(v)
  BY <1>4 DEF IInv, DescsOK
<1>7. /\ p \in Loader /\ at[p] = "wait" /\ p \in vm_proc /\ ~Queued(p)
      /\ hyper[v].flags = Runs /\ hyper[v].loader = p /\ desc[v].tokens = 0
  BY <1>1, <1>4, <1>5, <1>6, FlagSets DEF DescOK
<1>8. at' = [at EXCEPT ![p] = "proxy"] /\ desc' = Started(v, n) /\ Answer("OK")
  BY <1>1, <1>4, <1>7 DEF StartWake, Alive
<1>9. /\ vmm' \in VmmType /\ vmm'.pc = "reply" /\ vmm'.req = vmm.req /\ vmm'.vm = v
  <2>1. "OK" \in Result
    BY DEF Result
  <2> QED
    BY <1>1, <1>3, <1>8, <2>1, VmmAnswers
<1>10. /\ at' \in [Loader -> Place] /\ at'[p] = "proxy" /\ \A q \in Loader \ {p} : at'[q] = at[q]
  <2>1. at \in [Loader -> Place]
    BY TypeFacts DEF IInv
  <2> QED
    BY <1>7, <1>8, <2>1 DEF Place
<1>11. desc \in [VM -> Desc] /\ v \in VM /\ VM0 \in VM /\ v # VM0
  BY <1>4, VMs, TypeFacts DEF IInv
<1>12. /\ desc' \in [VM -> Desc]
       /\ \A w \in VM \ {v, VM0} : desc'[w] = desc[w]
       /\ desc'[v] = [desc[v] EXCEPT !.flags = Runs, !.bsize = n, !.tokens = n]
       /\ desc'[VM0].tokens = desc[VM0].tokens - n
  <2>1. IsStarted(Started(v, n), v, n)
    BY <1>4, <1>11, StartedIs
  <2> QED
    BY <1>8, <2>1 DEF IsStarted
<1>13. desc'[v].flags = Runs /\ desc'[v].bsize = n /\ desc'[v].tokens = n /\ desc'[v].loader = p
  <2>1. desc[v] \in Desc
    BY <1>11
  <2> QED
    BY <1>1, <1>12, <2>1 DEF Desc
<1>14. \A w \in Guest : desc'[w].loader = desc[w].loader
  BY <1>1, <1>12, <1>13, VMs
<1>15. \A w \in Guest : desc[w].loader = p => w = v
  BY <1>1, <1>4, <1>7, VMs DEF IInv, Own
<1>16. LifeTypeOK'
  BY <1>2, <1>9, <1>10, <1>12, TypeFacts, TypesNext DEF IInv, VmmType
<1>17. ASSUME NEW w \in Guest
       PROVE  DescOK(w)'
  <2>1. DescOK(w) /\ hyper'[w] = hyper[w] /\ w \in VM /\ w # VM0
    BY <1>2, VMs DEF IInv, DescsOK
  <2>2. ~Ending(w)' /\ ~Starting(w)'
    BY <1>9 DEF Ending, Starting
  <2>3. CASE w # v
    <3>1. desc'[w] = desc[w]
      BY <1>12, <2>1, <2>3
    <3>2. Queued(desc[w].loader)' => Queued(desc[w].loader)
      BY <1>2, <3>1 DEF Queued
    <3>3. desc[w].flags # {} => desc[w].loader \in Loader /\ desc[w].loader # p
      BY <1>15, <2>1, <2>3 DEF DescOK
    <3> QED
      BY <1>2, <1>5, <1>10, <2>1, <2>2, <2>3, <3>1, <3>2, <3>3, DescKeeps
  <2>4. CASE w = v
    <3>1. hyper'[v] = hyper[v] /\ p \in vm_proc' /\ n >= 0
      BY <1>2, <1>4, <1>7
    <3> QED
      BY <1>4, <1>7, <1>10, <1>13, <2>4, <3>1, FlagSets DEF DescOK
  <2> QED
    BY <2>3, <2>4
<1>18. Own'
  BY <1>14 DEF IInv, Own
<1>19. CallsOK'
  <2>1. CallsOK /\ Distinct(calls') /\ Range(calls') \subseteq Range(calls)
    BY <1>2 DEF IInv, CallsOK
  <2>2. ASSUME NEW c \in Range(calls')
        PROVE  /\ c.from \in Loader => at'[c.from] = at[c.from]
               /\ c.cmd = "LOAD" /\ Unclaimed(c.from) => Unclaimed(c.from)'
               /\ c.cmd = "KILL" /\ desc[c.vm].flags # Runs => desc'[c.vm].flags # Runs
               /\ c.cmd = "KILL" /\ vmm.pc \notin {"start_sys", "start_wake"} =>
                      vmm'.pc \notin {"start_sys", "start_wake"}
    <3>1. c.from # p
      BY <1>2, <1>7, QueuedIs
    <3>2. Unclaimed(c.from) => Unclaimed(c.from)'
      BY <1>14 DEF Unclaimed
    <3>3. c.cmd # "KILL"
      BY <1>2, <2>1 DEF CallsOK, CallOK
    <3> QED
      BY <1>10, <3>1, <3>2, <3>3
  <2> QED
    BY <2>1, <2>2, CallsKeep
<1>20. Purse'
  <2> DEFINE f == [w \in VM |-> desc[w].tokens]
             g == [w \in VM |-> desc'[w].tokens]
  <2>1. Ints(f, VM)
    BY <1>11 DEF Ints, Desc
  <2>2. g[v] = f[v] + n /\ g[VM0] = f[VM0] - n /\ \A w \in VM \ {v, VM0} : g[w] = f[w]
    <3>1. \A w \in VM : f[w] = desc[w].tokens /\ g[w] = desc'[w].tokens
      OBVIOUS
    <3> HIDE DEF f, g
    <3>2. n \in Int
      BY <1>4
    <3>3. f[v] = 0 /\ g[v] = n /\ g[VM0] = f[VM0] - n
      BY <1>7, <1>11, <1>12, <1>13, <3>1
    <3>4. \A w \in VM \ {v, VM0} : g[w] = f[w]
      BY <1>12, <3>1
    <3> QED
      BY <3>2, <3>3, <3>4
  <2> HIDE DEF f, g
  <2>3. SumFunctionOnSet(g, VM) = SumFunctionOnSet(f, VM)
    <3>1. IsFiniteSet(VM) /\ v \in VM /\ VM0 \in VM /\ v # VM0 /\ n \in Int
      BY <1>4, <1>11, VMs
    <3> QED
      BY <2>1, <2>2, <3>1, SumMove
  <2>4. desc[VM0].tokens \in Int /\ desc[VM0].tokens >= 0
    BY <1>11 DEF Desc, IInv, Purse
  <2>5. desc'[VM0].tokens >= 0
    BY <1>4, <1>12, <2>4
  <2> QED
    BY <2>3, <2>5 DEF f, g, IInv, Purse
<1>21. Serving'
  <2>1. ~Queued(o)' /\ vmm'.req.from = o
    BY <1>1, <1>2, <1>3, <1>9 DEF Queued
  <2>2. ReplyOK(o)'
    BY <1>4 DEF ReplyOK
  <2> QED
    BY <1>3, <1>4, <1>9, <2>1, <2>2, ReplyNext
<1> QED
  BY <1>16, <1>17, <1>18, <1>19, <1>20, <1>21 DEF IInv, DescsOK

------------------------------------------------------------------------------
(* KILL *)

LEMMA TakeKillInv ==
    ASSUME IInv, TakeKill
    PROVE  IInv'
<1>1. PICK c : c = Head(calls)
  OBVIOUS
<1>2. /\ vmm.pc = "idle" /\ c \in Command /\ c.cmd = "KILL" /\ CallOK(c) /\ c \in Range(calls)
      /\ calls' \in Seq(Command) /\ Distinct(calls') /\ Range(calls') \subseteq Range(calls)
      /\ \A d \in Range(calls') : d.from # c.from
      /\ ~Queued(c.from)'
  BY <1>1, TakeFacts DEF TakeKill
<1>3. desc' = desc /\ hyper' = hyper /\ at' = at /\ vm_proc' = vm_proc
  BY DEF TakeKill
<1>4. /\ c.from \in Operator /\ c.from \notin Loader /\ c.vm \in Guest /\ c.vm \in VM
      /\ KillState # {} /\ desc[c.vm].flags # Runs
  BY <1>2, VMs DEF CallOK
<1>5. desc[c.vm].flags \in {{}, Loaded, Waits}
  BY <1>4 DEF IInv, DescsOK, DescOK
<1>6. /\ vmm' \in VmmType /\ vmm'.req = c /\ vmm'.vm = c.vm
      /\ vmm'.pc = "reply" \/ (vmm'.pc = "kill_pm" /\ desc[c.vm].flags \in {Loaded, Waits})
  <2>1. "kill_pm" \in Pc /\ "reply" \in Pc /\ "ERROR" \in Result
    BY DEF Pc, Result
  <2>2. CASE Goto("reply", c.vm, "ERROR")
    BY <1>1, <1>2, <1>4, <2>1, <2>2, VmmTakes
  <2>3. CASE Goto("kill_pm", c.vm, "ERROR") /\ desc[c.vm].flags \in {Loaded, Waits}
    BY <1>1, <1>2, <1>4, <2>1, <2>3, VmmTakes
  <2>4. Goto(IF desc[c.vm].flags \in {{}, {"RUNNING"}} THEN "reply" ELSE "kill_pm", c.vm, "ERROR")
    BY <1>1 DEF TakeKill
  <2> QED
    BY <1>5, <2>2, <2>3, <2>4
<1>7. LifeTypeOK'
  BY <1>2, <1>3, <1>6, TypeFacts, TypesNext DEF IInv, VmmType
<1>8. DescsOK' /\ Own' /\ CallsOK' /\ Purse'
  <2>1. \A w \in Guest : (Ending(w) => Ending(w)') /\ (Starting(w)' <=> Starting(w))
    BY <1>2, <1>6 DEF Ending, Starting
  <2> QED
    BY <1>2, <1>3, <1>6, <2>1, TablesKeep
<1>9. Serving'
  <2> DEFINE p == c.from
             v == c.vm
  <2>1. p \in Operator /\ p \notin Loader /\ ~Queued(p)' /\ vmm'.req.from = p /\ vmm'.vm = v /\ v \in Guest
    BY <1>2, <1>4, <1>6
  <2>2. ReplyOK(p)'
    BY <2>1 DEF ReplyOK
  <2>3. LoadOK(v, p)' /\ StartOK(v, p)' /\ KillOK(v, p)'
    BY <1>3, <1>4, <1>6, <2>1 DEF LoadOK, StartOK, KillOK
  <2> HIDE DEF p, v
  <2> QED
    BY <1>2, <1>6, <2>1, <2>2, <2>3, ServingNext
<1> QED
  BY <1>7, <1>8, <1>9 DEF IInv

LEMMA KillPmInv ==
    ASSUME IInv, KillPm
    PROVE  IInv'
<1>1. PICK o, v, p : o = vmm.req.from /\ v = vmm.vm /\ p = desc[v].loader
  OBVIOUS
<1>2. vmm.pc = "kill_pm" /\ desc' = desc /\ hyper' = hyper /\ at' = at /\ calls' = calls
  BY DEF KillPm
<1>3. vmm \in VmmType /\ vmm.req \in Command /\ ~Queued(o) /\ KillOK(v, o)
  BY <1>1, <1>2, Served
<1>4. o \in Operator /\ o \notin Loader /\ v \in Guest /\ desc[v].flags \in {Loaded, Waits} /\ KillState # {}
  BY <1>2, <1>3, VMs DEF KillOK
<1>5. vm_proc' = vm_proc \ {p} /\ IF p \in vm_proc THEN Proceed("kill_sig", "OK") ELSE Answer("ENOENT")
  BY <1>1 DEF KillPm
<1>6. CASE p \notin vm_proc
  <2>1. "ENOENT" \in Result /\ "ENOENT" # "OK"
    BY DEF Result
  <2>2. vm_proc' = vm_proc /\ Answer("ENOENT")
    BY <1>5, <1>6
  <2>3. vmm.pc \notin {"idle", "start_wake", "kill_sig"}
    BY <1>2
  <2> QED
    BY <1>1, <1>2, <1>4, <2>1, <2>2, <2>3, AnswerInv
<1>7. CASE p \in vm_proc
  <2>1. vmm' \in VmmType /\ vmm'.pc = "kill_sig" /\ vmm'.req = vmm.req /\ vmm'.vm = v
    <3>1. "kill_sig" \in Pc /\ "OK" \in Result
      BY DEF Pc, Result
    <3> QED
      BY <1>1, <1>3, <1>5, <1>7, <3>1, VmmGoes
  <2>2. vm_proc \subseteq Loader /\ vm_proc' \subseteq Loader
    BY <1>5, TypeFacts DEF IInv
  <2>3. LifeTypeOK'
    BY <1>2, <2>1, <2>2, TypeFacts, TypesNext DEF IInv, VmmType
  <2>4. p \in Loader /\ \A w \in Guest : desc[w].loader = p => w = v
    BY <1>1, <1>4, <1>7, <2>2, VMs DEF IInv, Own
  <2>5. ASSUME NEW w \in Guest
        PROVE  DescOK(w)'
    <3>1. DescOK(w) /\ desc'[w] = desc[w] /\ hyper'[w] = hyper[w] /\ ~Ending(w) /\ ~Starting(w)
      BY <1>2 DEF IInv, DescsOK, Ending, Starting
    <3>2. (Ending(w)' <=> w = v) /\ ~Starting(w)'
      BY <2>1 DEF Ending, Starting
    <3>3. CASE w # v
      <4>1. Queued(desc[w].loader)' => Queued(desc[w].loader)
        BY <1>2 DEF Queued
      <4>2. desc[w].loader # p
        BY <2>4, <3>3
      <4> QED
        BY <1>2, <1>5, <3>1, <3>2, <4>1, <4>2, DescKeeps
    <3>4. CASE w = v
      <4>1. DescOK(v) /\ ~Starting(v) /\ Ending(v)' /\ ~Starting(v)'
        BY <3>1, <3>2, <3>4
      <4>2. Sound(v)' <=> Sound(v)
        BY <1>2 DEF Sound
      <4> QED
        BY <1>2, <1>4, <3>4, <4>1, <4>2, FlagSets DEF DescOK
    <3> QED
      BY <3>3, <3>4
  <2>6. Own' /\ Purse'
    BY <1>2, VMs, PurseKeeps DEF IInv, Own
  <2>7. CallsOK'
    <3>1. CallsOK /\ Distinct(calls') /\ Range(calls') \subseteq Range(calls)
      BY <1>2 DEF IInv, CallsOK
    <3>2. \A c \in Range(calls') :
               /\ c.from \in Loader => at'[c.from] = at[c.from]
               /\ c.cmd = "LOAD" /\ Unclaimed(c.from) => Unclaimed(c.from)'
               /\ c.cmd = "KILL" /\ desc[c.vm].flags # Runs => desc'[c.vm].flags # Runs
               /\ c.cmd = "KILL" /\ vmm.pc \notin {"start_sys", "start_wake"} =>
                      vmm'.pc \notin {"start_sys", "start_wake"}
      BY <1>2, <2>1 DEF Unclaimed
    <3> QED
      BY <3>1, <3>2, CallsKeep
  <2>8. Serving'
    <3>1. ~Queued(o)' /\ vmm'.req.from = o
      BY <1>1, <1>2, <1>3, <2>1 DEF Queued
    <3>2. LoadOK(v, o)' /\ StartOK(v, o)' /\ KillOK(v, o)' /\ ReplyOK(o)'
      BY <1>2, <1>4, <2>1 DEF LoadOK, StartOK, KillOK, ReplyOK
    <3> QED
      BY <1>3, <1>4, <2>1, <3>1, <3>2, ServingNext
  <2> QED
    BY <2>3, <2>5, <2>6, <2>7, <2>8 DEF IInv, DescsOK
<1> QED
  BY <1>6, <1>7

(* A VM that does not run has no tokens to give back. *)
IsFreed(d, v) ==
    /\ d \in [VM -> Desc]
    /\ d[v].flags = {} /\ d[v].loader = NIL /\ d[v].tokens = 0
    /\ \A w \in VM \ {v} : d[w] = desc[w]

LEMMA FreedIs ==
    ASSUME desc \in [VM -> Desc], NEW v \in Guest, desc[v].tokens = 0
    PROVE  IsFreed(free_vmdesc(v), v)
<1>1. v \in VM /\ VM0 \in VM /\ v # VM0
  BY VMs
<1> DEFINE a == [desc EXCEPT ![VM0].tokens = @ + desc[v].tokens]
           e == [flags |-> {}, loader |-> NIL, bsize |-> desc[v].bsize, tokens |-> 0]
<1>2. desc[v] \in Desc /\ desc[VM0] \in Desc
  BY <1>1
<1>3. a = desc
  <2>1. desc[VM0].tokens + desc[v].tokens = desc[VM0].tokens
    BY <1>2 DEF Desc
  <2>2. [desc[VM0] EXCEPT !.tokens = @ + desc[v].tokens] = desc[VM0]
    BY <1>2, <2>1 DEF Desc
  <2>3. a = [desc EXCEPT ![VM0] = [desc[VM0] EXCEPT !.tokens = @ + desc[v].tokens]]
    OBVIOUS
  <2> QED
    BY <1>1, <2>2, <2>3
<1>4. free_vmdesc(v) = [a EXCEPT ![v] = [flags |-> {}, loader |-> NIL, bsize |-> a[v].bsize, tokens |-> 0]]
  BY DEF free_vmdesc
<1>5. free_vmdesc(v) = [desc EXCEPT ![v] = e]
  BY <1>3, <1>4
<1>6. e \in Desc /\ e.flags = {} /\ e.loader = NIL /\ e.tokens = 0
  BY <1>2 DEF Desc
<1> HIDE DEF e
<1>7. /\ free_vmdesc(v) \in [VM -> Desc] /\ free_vmdesc(v)[v] = e
      /\ \A w \in VM \ {v} : free_vmdesc(v)[w] = desc[w]
  BY <1>1, <1>5, <1>6
<1> QED
  BY <1>6, <1>7 DEF IsFreed

LEMMA KillSigInv ==
    ASSUME IInv, KillSig
    PROVE  IInv'
<1>1. PICK o, v, p : o = vmm.req.from /\ v = vmm.vm /\ p = desc[v].loader
  OBVIOUS
<1>2. vmm.pc = "kill_sig" /\ hyper' = hyper /\ desc' = free_vmdesc(v) /\ Answer("OK")
  BY <1>1 DEF KillSig
<1>3. vmm \in VmmType /\ vmm.req \in Command /\ ~Queued(o) /\ KillOK(v, o)
  BY <1>1, <1>2, Served
<1>4. o \in Operator /\ o \notin Loader /\ v \in Guest /\ desc[v].flags \in {Loaded, Waits}
  BY <1>2, <1>3, VMs DEF KillOK
<1>5. DescOK(v) /\ ~Starting(v)
  BY <1>2, <1>4 DEF IInv, DescsOK, Starting
<1>6. p \in Loader /\ desc[v].tokens = 0 /\ "RUNNING" \notin hyper[v].flags
  BY <1>1, <1>4, <1>5, FlagSets DEF DescOK
<1>7. vmm' \in VmmType /\ vmm'.pc = "reply" /\ vmm'.req = vmm.req /\ vmm'.vm = v
  <2>1. "OK" \in Result
    BY DEF Result
  <2> QED
    BY <1>1, <1>2, <1>3, <2>1, VmmAnswers
<1>8. /\ desc' \in [VM -> Desc]
      /\ desc'[v].flags = {} /\ desc'[v].loader = NIL /\ desc'[v].tokens = 0
      /\ \A w \in VM \ {v} : desc'[w] = desc[w]
  <2>1. desc \in [VM -> Desc]
    BY TypeFacts DEF IInv
  <2>2. IsFreed(free_vmdesc(v), v)
    BY <1>4, <1>6, <2>1, FreedIs
  <2> QED
    BY <1>2, <2>2 DEF IsFreed
<1>9. /\ at' \in [Loader -> Place] /\ \A q \in Loader \ {p} : at'[q] = at[q]
      /\ vm_proc' \subseteq Loader /\ \A q \in vm_proc : q # p => q \in vm_proc'
      /\ calls' \in Seq(Command) /\ Distinct(calls') /\ Range(calls') \subseteq Range(calls)
      /\ \A d \in Range(calls') : d.from # p
  <2>1. CASE Alive(p)
    <3>1. Die(p)
      BY <1>1, <2>1 DEF KillSig
    <3> QED
      BY <1>6, <3>1, DieFacts
  <2>2. CASE ~Alive(p)
    <3>1. at' = at /\ vm_proc' = vm_proc /\ calls' = calls
      BY <1>1, <2>2 DEF KillSig
    <3>2. at[p] = "dead"
      BY <1>6, <2>2 DEF Alive
    <3>3. \A d \in Range(calls) : d.from # p
      BY <1>6, <3>2, NotQueued
    <3> QED
      BY <3>1, <3>3, TypeFacts DEF IInv, CallsOK
  <2> QED
    BY <2>1, <2>2
<1>10. LifeTypeOK'
  BY <1>2, <1>7, <1>8, <1>9, TypeFacts, TypesNext DEF IInv, VmmType
<1>11. \A w \in Guest : desc[w].loader = p => w = v
  BY <1>1, <1>4, <1>6, VMs DEF IInv, Own
<1>12. ASSUME NEW w \in Guest
       PROVE  DescOK(w)'
  <2>1. DescOK(w) /\ hyper'[w] = hyper[w] /\ w \in VM
    BY <1>2, VMs DEF IInv, DescsOK
  <2>2. ~Ending(w)' /\ ~Starting(w)' /\ ~Starting(w)
    BY <1>2, <1>7 DEF Ending, Starting
  <2>3. CASE w # v
    <3>1. desc'[w] = desc[w] /\ ~Ending(w)
      BY <1>1, <1>8, <2>1, <2>3 DEF Ending
    <3>2. Queued(desc[w].loader)' => Queued(desc[w].loader)
      <4>1. Queued(desc[w].loader)' => \E d \in Range(calls') : d.from = desc[w].loader
        BY <3>1 DEF Queued, Range
      <4> QED
        BY <1>9, <4>1, QueuedIs
    <3>3. desc[w].flags # {} => desc[w].loader \in Loader /\ desc[w].loader # p
      BY <1>11, <2>1, <2>3 DEF DescOK
    <3> QED
      BY <1>9, <2>1, <2>2, <3>1, <3>2, <3>3, DescKeeps
  <2>4. CASE w = v
    BY <1>6, <1>8, <2>1, <2>4, FlagSets DEF DescOK
  <2> QED
    BY <2>3, <2>4
<1>13. Own'
  BY <1>8, VMs DEF IInv, Own
<1>14. CallsOK'
  <2>1. CallsOK
    BY DEF IInv
  <2>2. ASSUME NEW c \in Range(calls')
        PROVE  /\ c.from \in Loader => at'[c.from] = at[c.from]
               /\ c.cmd = "LOAD" /\ Unclaimed(c.from) => Unclaimed(c.from)'
               /\ c.cmd = "KILL" /\ desc[c.vm].flags # Runs => desc'[c.vm].flags # Runs
               /\ c.cmd = "KILL" /\ vmm.pc \notin {"start_sys", "start_wake"} =>
                      vmm'.pc \notin {"start_sys", "start_wake"}
    <3>1. CallOK(c) /\ c.from # p
      BY <1>9, <2>1 DEF CallsOK
    <3>2. c.cmd = "LOAD" /\ Unclaimed(c.from) => Unclaimed(c.from)'
      BY <1>8, <3>1, VMs DEF Unclaimed, CallOK
    <3>3. c.cmd = "KILL" => c.vm \in Guest
      BY <3>1 DEF CallOK
    <3>4. c.cmd = "KILL" /\ desc[c.vm].flags # Runs => desc'[c.vm].flags # Runs
      BY <1>8, <3>3, VMs, FlagSets
    <3> QED
      BY <1>7, <1>9, <3>1, <3>2, <3>4
  <2> QED
    BY <1>9, <2>1, <2>2, CallsKeep
<1>15. Purse'
  <2>1. \A w \in VM : desc'[w].tokens = desc[w].tokens
    BY <1>6, <1>8
  <2> QED
    BY <2>1, VMs, PurseKeeps DEF IInv
<1>16. Serving'
  <2>1. ~Queued(o)' /\ vmm'.req.from = o
    BY <1>1, <1>3, <1>7, <1>9, QueuedIs
  <2>2. ReplyOK(o)'
    BY <1>4 DEF ReplyOK
  <2> QED
    BY <1>3, <1>4, <1>7, <2>1, <2>2, ReplyNext
<1> QED
  BY <1>10, <1>12, <1>13, <1>14, <1>15, <1>16 DEF IInv, DescsOK

LEMMA ReplyInv ==
    ASSUME IInv, Reply
    PROVE  IInv'
<1>1. PICK p : p = vmm.req.from
  OBVIOUS
<1>2. /\ vmm.pc = "reply" /\ desc' = desc /\ hyper' = hyper /\ vm_proc' = vm_proc /\ calls' = calls
      /\ vmm' = Idle
  BY DEF Reply
<1>3. vmm \in VmmType /\ ~Queued(p) /\ ReplyOK(p)
  BY <1>1, <1>2, Served
<1>4. vmm'.pc = "idle" /\ vmm' \in VmmType
  <2>1. "idle" \in Pc /\ VM0 \in VM /\ "OK" \in Result
    BY VMs DEF Pc, Result
  <2> QED
    BY <1>2, <2>1 DEF Idle, VmmType
<1>5. at \in [Loader -> Place]
  BY TypeFacts DEF IInv
<1>6. /\ at' \in [Loader -> Place] /\ \A q \in Loader \ {p} : at'[q] = at[q]
      /\ p \in Loader => \/ at'[p] = at[p] /\ at[p] = "dead"
                         \/ at'[p] = "loaded" /\ vmm.r = "OK" /\ at[p] # "dead"
                         \/ at'[p] = "exit"
  <2>1. CASE Alive(p)
    <3>1. at' = [at EXCEPT ![p] = IF vmm.r = "OK" THEN "loaded" ELSE "exit"] /\ p \in Loader /\ at[p] # "dead"
      BY <1>1, <2>1 DEF Reply, Alive
    <3> QED
      BY <1>5, <3>1 DEF Place
  <2>2. CASE ~Alive(p)
    <3>1. at' = at /\ (p \in Loader => at[p] = "dead")
      BY <1>1, <2>2 DEF Reply, Alive
    <3> QED
      BY <1>5, <3>1
  <2> QED
    BY <2>1, <2>2
<1>7. LifeTypeOK'
  BY <1>2, <1>4, <1>6, TypeFacts, TypesNext DEF IInv, VmmType
<1>8. ASSUME NEW w \in Guest
      PROVE  DescOK(w)'
  <2>1. DescOK(w) /\ desc'[w] = desc[w] /\ hyper'[w] = hyper[w] /\ (Sound(w)' <=> Sound(w))
    BY <1>2 DEF IInv, DescsOK, Sound
  <2>2. ~Ending(w)' /\ ~Starting(w)' /\ ~Ending(w) /\ ~Starting(w)
    BY <1>2, <1>4 DEF Ending, Starting
  <2>3. CASE desc[w].loader # p
    <3>1. Queued(desc[w].loader)' => Queued(desc[w].loader)
      BY <1>2 DEF Queued
    <3>2. desc[w].flags # {} => desc[w].loader \in Loader
      BY <2>1 DEF DescOK
    <3> QED
      BY <1>2, <1>6, <2>1, <2>2, <2>3, <3>1, <3>2, DescKeeps
  <2>4. CASE desc[w].loader = p
    <3>1. CASE p \in Loader
      <4>1. desc[w].flags = Loaded /\ (vmm.r = "OK" /\ at[p] # "dead" => Sound(w) /\ p \in vm_proc)
        BY <1>2, <1>3, <2>4, <3>1 DEF ReplyOK
      <4>2. desc[w].tokens = 0 /\ "RUNNING" \notin hyper[w].flags
        BY <2>1, <2>2, <4>1, FlagSets DEF DescOK
      <4>3. at'[p] # "new" /\ at'[p] # "wait" /\ (at'[p] = "loaded" => Sound(w) /\ p \in vm_proc)
        BY <1>6, <3>1, <4>1
      <4> QED
        BY <1>2, <2>1, <2>4, <3>1, <4>1, <4>2, <4>3, FlagSets DEF DescOK
    <3>2. CASE p \notin Loader
      <4>1. desc[w].flags = {}
        BY <2>1, <2>4, <3>2 DEF DescOK
      <4>2. Queued(desc[w].loader)' => Queued(desc[w].loader)
        BY <1>2 DEF Queued
      <4> QED
        BY <2>1, <2>2, <4>1, <4>2, DescKeeps
    <3> QED
      BY <3>1, <3>2
  <2> QED
    BY <2>3, <2>4
<1>9. Own' /\ Purse'
  BY <1>2, VMs, PurseKeeps DEF IInv, Own
<1>10. CallsOK'
  <2>1. CallsOK /\ Distinct(calls') /\ Range(calls') \subseteq Range(calls)
    BY <1>2 DEF IInv, CallsOK
  <2>2. \A c \in Range(calls') : c.from # p
    BY <1>2, <1>3, QueuedIs
  <2>3. \A c \in Range(calls') :
               /\ c.from \in Loader => at'[c.from] = at[c.from]
               /\ c.cmd = "LOAD" /\ Unclaimed(c.from) => Unclaimed(c.from)'
               /\ c.cmd = "KILL" /\ desc[c.vm].flags # Runs => desc'[c.vm].flags # Runs
               /\ c.cmd = "KILL" /\ vmm.pc \notin {"start_sys", "start_wake"} =>
                      vmm'.pc \notin {"start_sys", "start_wake"}
    BY <1>2, <1>4, <1>6, <2>2 DEF Unclaimed
  <2> QED
    BY <2>1, <2>3, CallsKeep
<1>11. Serving'
  BY <1>4 DEF Serving
<1> QED
  BY <1>7, <1>8, <1>9, <1>10, <1>11 DEF IInv, DescsOK

------------------------------------------------------------------------------
(* Every step *)

LEMMA StutterInv ==
    ASSUME IInv, UNCHANGED vars
    PROVE  IInv'
<1>1. /\ desc' = desc /\ hyper' = hyper /\ at' = at /\ vm_proc' = vm_proc /\ calls' = calls /\ vmm' = vmm
  BY DEF vars
<1>2. LifeTypeOK'
  BY <1>1, TypeFacts, TypesNext DEF IInv
<1>3. DescsOK' /\ Own' /\ CallsOK' /\ Purse'
  <2>1. \A w \in Guest : (Ending(w) => Ending(w)') /\ (Starting(w)' <=> Starting(w))
    BY <1>1 DEF Ending, Starting
  <2>2. Distinct(calls') /\ Range(calls') \subseteq Range(calls)
    BY <1>1 DEF IInv, CallsOK
  <2> QED
    BY <1>1, <2>1, <2>2, TablesKeep
<1>4. Serving'
  <2>1. vmm.pc # "idle" => ~Queued(vmm.req.from)'
    BY <1>1 DEF IInv, Serving, Queued
  <2> QED
    BY <1>1, <2>1, ServingKeeps DEF IInv
<1> QED
  BY <1>2, <1>3, <1>4 DEF IInv

LEMMA StepInv ==
    ASSUME Orderly, IInv, [Next]_vars
    PROVE  IInv'
<1>1. CASE VmmStep
  BY <1>1, TakeLoadInv, LoadPmInv, LoadCopyInv, LoadSysInv, TakeWaitInv, TakeStartInv, StartSysInv,
     StartWakeInv, TakeKillInv, KillPmInv, KillSigInv, ReplyInv DEF VmmStep
<1>2. CASE \E p \in Loader : LoaderStep(p) \/ Signal(p)
  BY <1>2, LoaderAsks, LoaderDies DEF LoaderStep
<1>3. CASE \E o \in Operator : StartCommand(o) \/ KillCommand(o)
  BY <1>3, OperatorAsks
<1>4. CASE UNCHANGED vars
  BY <1>4, StutterInv
<1> QED
  BY <1>1, <1>2, <1>3, <1>4 DEF Next

(* Requests, tables, loaders and tokens stay in step. *)
THEOREM LifeInductive ==
    ASSUME Orderly
    PROVE  Spec => []IInv
<1>1. Orderly
  OBVIOUS
<1>2. Init => IInv
  BY InitInv
<1>3. IInv /\ [Next]_vars => IInv'
  BY <1>1, StepInv
<1> QED
  BY <1>2, <1>3, PTL DEF Spec



------------------------------------------------------------------------------
(* What the invariant says *)

(* A guest that the kernel runs: VMM has started it, or is about to. *)
LEMMA RunningIs ==
    ASSUME IInv, NEW v \in Guest, "RUNNING" \in hyper[v].flags
    PROVE  /\ hyper[v].loader = desc[v].loader /\ desc[v].loader \in Loader /\ desc[v].loader \in vm_proc
           /\ \/ desc[v].flags = Runs /\ at[desc[v].loader] = "proxy"
              \/ /\ Starting(v) /\ desc[v].flags = Waits
                 /\ at[desc[v].loader] = "wait" /\ ~Queued(desc[v].loader)
<1>1. DescOK(v)
  BY DEF IInv, DescsOK
<1>2. CASE desc[v].flags = Runs
  BY <1>1, <1>2, FlagSets DEF DescOK
<1>3. CASE Starting(v)
  <2>1. desc[v].flags = Waits /\ ~Ending(v)
    BY <1>3 DEF IInv, Serving, StartOK, Starting, Ending
  <2> QED
    BY <1>1, <1>3, <2>1, FlagSets DEF DescOK
<1> QED
  BY <1>1, <1>2, <1>3 DEF DescOK

(* The loader of a guest that the kernel runs lives, and no signal reaches *)
(* it, whatever comes between the calls that VMM makes for a request.      *)
THEOREM MemoryIsHeld ==
    ASSUME Orderly
    PROVE  Spec => []GuestMemoryHeld
<1>1. ASSUME IInv PROVE GuestMemoryHeld
  BY <1>1, RunningIs DEF GuestMemoryHeld
<1> QED
  BY <1>1, LifeInductive, PTL

(* VMM does not block when it wakes the loader of a VM that it starts: the *)
(* loader has asked for it, and VMM has taken the request.                 *)
THEOREM LoaderIsWoken ==
    ASSUME Orderly
    PROVE  Spec => []WakesLoader
<1>1. ASSUME IInv PROVE WakesLoader
  <2> SUFFICES ASSUME vmm.pc = "start_wake" PROVE Waiting(desc[vmm.vm].loader)
    BY DEF WakesLoader
  <2>1. PICK v : v = vmm.vm
    OBVIOUS
  <2>2. v \in Guest /\ desc[v].flags = Waits /\ ~Ending(v)
    BY <1>1, <2>1 DEF IInv, Serving, StartOK, Ending
  <2>3. DescOK(v)
    BY <1>1, <2>2 DEF IInv, DescsOK
  <2>4. desc[v].loader \in Loader /\ at[desc[v].loader] = "wait" /\ ~Queued(desc[v].loader)
    BY <2>2, <2>3, FlagSets DEF DescOK
  <2> QED
    BY <2>1, <2>4 DEF Waiting
<1> QED
  BY <1>1, LifeInductive, PTL

(* Between two requests the tables of VMM and of the kernel agree on the   *)
(* VMs that run, on their proxies and on their buckets.                    *)
THEOREM TablesInStep ==
    ASSUME Orderly
    PROVE  Spec => []TablesAgree
<1>1. ASSUME IInv PROVE TablesAgree
  <2> SUFFICES ASSUME vmm.pc = "idle", NEW v \in Guest
               PROVE  /\ "RUNNING" \in desc[v].flags <=> "RUNNING" \in hyper[v].flags
                      /\ "RUNNING" \in desc[v].flags => /\ desc[v].loader = hyper[v].loader
                                                        /\ desc[v].bsize = hyper[v].bsize
    BY DEF TablesAgree
  <2>1. DescOK(v) /\ ~Starting(v)
    BY <1>1 DEF IInv, DescsOK, Starting
  <2>2. desc[v].flags \in {{}, Loaded, Waits, Runs}
    BY <2>1 DEF DescOK
  <2>3. "RUNNING" \in desc[v].flags <=> desc[v].flags = Runs
    BY <2>2, FlagSets
  <2> QED
    BY <2>1, <2>3, FlagSets DEF DescOK
<1> QED
  BY <1>1, LifeInductive, PTL

(* g: what the buckets of the guests that the kernel runs take of          *)
(* MAXTOKENS, and what is left to VM0.                                     *)
Shares(g) ==
    /\ Ints(g, VM) /\ g[VM0] >= 0 /\ SumFunctionOnSet(g, VM) = MAXTOKENS
    /\ \A v \in Guest : g[v] = IF "RUNNING" \in hyper[v].flags THEN hyper[v].bsize ELSE 0

LEMMA SharesExist ==
    ASSUME IInv
    PROVE  \E g : Shares(g)
<1> DEFINE f == [w \in VM |-> desc[w].tokens]
<1>1. desc \in [VM -> Desc]
  BY TypeFacts DEF IInv
<1>2. /\ Ints(f, VM) /\ f[VM0] = desc[VM0].tokens /\ f[VM0] \in Int /\ f[VM0] >= 0
      /\ SumFunctionOnSet(f, VM) = MAXTOKENS /\ \A v \in Guest : f[v] = desc[v].tokens
  <2>1. \A w \in VM : desc[w].tokens \in Int
    BY <1>1 DEF Desc
  <2> QED
    BY <2>1, VMs DEF IInv, Purse, Ints
<1> HIDE DEF f
<1>3. ASSUME NEW v \in Guest, ~Starting(v)
      PROVE  f[v] = IF "RUNNING" \in hyper[v].flags THEN hyper[v].bsize ELSE 0
  <2>1. DescOK(v)
    BY DEF IInv, DescsOK
  <2>2. CASE desc[v].flags = Runs
    BY <1>2, <2>1, <2>2, FlagSets DEF DescOK
  <2>3. CASE desc[v].flags # Runs
    BY <1>2, <1>3, <2>1, <2>3 DEF DescOK
  <2> QED
    BY <2>2, <2>3
<1>4. CASE vmm.pc # "start_wake"
  <2>1. \A v \in Guest : ~Starting(v)
    BY <1>4 DEF Starting
  <2>2. Shares(f)
    BY <1>2, <1>3, <2>1 DEF Shares
  <2> QED
    BY <2>2
<1>5. CASE vmm.pc = "start_wake"
  <2>1. PICK v, n : v = vmm.vm /\ n = vmm.req.n
    OBVIOUS
  <2>2. v \in Guest /\ desc[v].flags = Waits /\ n \in 1..f[VM0] /\ hyper[v].bsize = n
    BY <1>2, <1>5, <2>1 DEF IInv, Serving, StartOK
  <2>3. n \in Int /\ n <= f[VM0] /\ v \in VM /\ VM0 \in VM /\ v # VM0 /\ IsFiniteSet(VM)
    BY <1>2, <2>2, VMs
  <2>4. DescOK(v) /\ Starting(v)
    BY <1>5, <2>1, <2>2 DEF IInv, DescsOK, Starting
  <2>5. f[v] = 0 /\ "RUNNING" \in hyper[v].flags
    BY <1>2, <2>2, <2>4, FlagSets DEF DescOK
  <2> DEFINE g == [w \in VM |-> IF w = v THEN f[w] + n ELSE IF w = VM0 THEN f[w] - n ELSE f[w]]
  <2>6. g[v] = f[v] + n /\ g[VM0] = f[VM0] - n /\ \A w \in VM \ {v, VM0} : g[w] = f[w]
    BY <2>3
  <2> HIDE DEF g
  <2>7. SumFunctionOnSet(g, VM) = SumFunctionOnSet(f, VM)
    BY <1>2, <2>3, <2>6, SumMove
  <2>8. Ints(g, VM) /\ g[VM0] >= 0
    <3>1. g[v] \in Int /\ g[VM0] \in Int /\ g[VM0] >= 0
      BY <1>2, <2>3, <2>5, <2>6
    <3> QED
      BY <1>2, <2>6, <3>1 DEF Ints
  <2>9. ASSUME NEW w \in Guest
        PROVE  g[w] = IF "RUNNING" \in hyper[w].flags THEN hyper[w].bsize ELSE 0
    <3>1. CASE w = v
      <4>1. g[v] = n
        BY <2>3, <2>5, <2>6
      <4> QED
        BY <2>2, <2>5, <3>1, <4>1
    <3>2. CASE w # v
      <4>1. ~Starting(w)
        BY <2>1, <3>2 DEF Starting
      <4>2. g[w] = f[w]
        BY <2>6, <3>2, VMs
      <4> QED
        BY <1>3, <4>1, <4>2
    <3> QED
      BY <3>1, <3>2
  <2>10. Shares(g)
    BY <1>2, <2>7, <2>8, <2>9 DEF Shares
  <2> QED
    BY <2>10
<1> QED
  BY <1>4, <1>5

(* The guests that the kernel runs never ask for more tokens than there    *)
(* are: VMM gives each what it takes from VM0, also while a start is on    *)
(* its way.                                                                *)
THEOREM BucketsAreFilled ==
    ASSUME Orderly
    PROVE  Spec => []BucketsFit
<1>1. ASSUME IInv PROVE BucketsFit
  <2> DEFINE run == {v \in Guest : "RUNNING" \in hyper[v].flags}
             b   == [v \in Guest |-> hyper[v].bsize]
  <2>1. PICK g : Shares(g)
    BY <1>1, SharesExist
  <2>2. /\ run \in SUBSET Guest /\ \A v \in run : g[v] = b[v]
        /\ \A v \in Guest \ run : g[v] = 0
    BY <2>1 DEF Shares
  <2>3. /\ IsFiniteSet(Guest) /\ IsFiniteSet(VM) /\ VM0 \in VM /\ Guest = VM \ {VM0}
        /\ Ints(g, VM) /\ Ints(g, Guest)
    BY <2>1, VMs DEF Shares, Ints, Guest
  <2>4. (SumFunctionOnSet(b, run) <= MAXTOKENS) => BucketsFit
    BY DEF BucketsFit
  <2> HIDE DEF run, b
  <2>5. SumFunctionOnSet(g, Guest) = SumFunctionOnSet(b, run)
    BY <2>2, <2>3, SumAgree
  <2>6. SumFunctionOnSet(g, VM) = g[VM0] + SumFunctionOnSet(g, Guest)
    <3>1. SumFunctionOnSet(g, VM) = g[VM0] + SumFunctionOnSet(g, VM \ {VM0})
      BY <2>3, SumRemove
    <3> QED
      BY <2>3, <3>1
  <2>7. SumFunctionOnSet(g, Guest) \in Int /\ g[VM0] \in Int
    BY <2>3, SumType DEF Ints
  <2>8. SumFunctionOnSet(b, run) <= MAXTOKENS
    BY <2>1, <2>5, <2>6, <2>7, LifeAssumption DEF Shares
  <2> QED
    BY <2>4, <2>8
<1> QED
  BY <1>1, LifeInductive, PTL

------------------------------------------------------------------------------
(* Types, whatever operators and faults do *)

(* VMM serves a request. *)
TInv == LifeTypeOK /\ (vmm.pc # "idle" => vmm.req \in Command)

LEMMA WithoutType ==
    ASSUME NEW q \in Seq(Command), NEW p
    PROVE  Without(q, p) \in Seq(Command)
<1> DEFINE I == {i \in 1..Len(q) : q[i].from = p}
           n == Min(I)
<1>1. Len(q) \in Nat
  OBVIOUS
<1>2. CASE I = {}
  BY <1>2 DEF Without, RemoveFirstMatch
<1>3. CASE I # {}
  <2>1. Without(q, p) = RemoveAt(q, n)
    BY <1>3 DEF Without, RemoveFirstMatch, SelectInSeq
  <2>2. I \subseteq Nat
    BY <1>1
  <2>3. n \in I
    BY <1>3, <2>2, MinIn
  <2>4. n \in 1..Len(q)
    BY <2>3
  <2> HIDE DEF I, n
  <2> QED
    BY <2>1, <2>4, RemoveAtIs
<1> QED
  BY <1>2, <1>3

LEMMA DieTypes ==
    ASSUME LifeTypeOK, NEW p \in Loader, Die(p)
    PROVE  at' \in [Loader -> Place] /\ vm_proc' \subseteq Loader /\ calls' \in Seq(Command)
<1>1. at \in [Loader -> Place] /\ calls \in Seq(Command) /\ vm_proc \subseteq Loader
  BY TypeFacts
<1>2. at' = [at EXCEPT ![p] = "dead"] /\ vm_proc' = vm_proc \ {p} /\ calls' = Without(calls, p)
  BY DEF Die, Without
<1>3. calls' \in Seq(Command)
  BY <1>1, <1>2, WithoutType
<1> QED
  BY <1>1, <1>2, <1>3 DEF Place

LEMMA TakeTypes ==
    ASSUME LifeTypeOK, NEW cmd, Take(cmd)
    PROVE  Head(calls) \in Command /\ calls' \in Seq(Command)
<1>1. calls \in Seq(Command) /\ calls # <<>> /\ calls' = Tail(calls)
  BY TypeFacts DEF Take
<1> QED
  BY <1>1, HeadTailProperties

(* The tables and VMM after a step. *)
TablesTyped == desc \in [VM -> Desc] /\ hyper \in [Guest -> Hyper]
LoadersTyped == at \in [Loader -> Place] /\ vm_proc \subseteq Loader /\ calls \in Seq(Command)
VmmTyped == vmm \in VmmType /\ (vmm.pc # "idle" => vmm.req \in Command)

LEMMA TypedIs == (TInv <=> TablesTyped /\ LoadersTyped /\ VmmTyped) /\ (TInv' <=> TablesTyped' /\ LoadersTyped' /\ VmmTyped')
BY DEF TInv, LifeTypeOK, TablesTyped, LoadersTyped, VmmTyped, VmmType, Desc, Hyper

LEMMA VmmStepTypes ==
    ASSUME TInv, VmmStep
    PROVE  VmmTyped'
<1>1. vmm \in VmmType /\ (vmm.pc # "idle" => vmm.req \in Command) /\ LifeTypeOK
  BY TypedIs DEF VmmTyped, TInv
<1>2. ASSUME NEW pc \in Pc, NEW r \in Result, Proceed(pc, r), vmm.pc # "idle"
      PROVE  VmmTyped'
  BY <1>1, <1>2, VmmGoes DEF VmmTyped
<1>3. ASSUME NEW r \in Result, Answer(r), vmm.pc # "idle"
      PROVE  VmmTyped'
  BY <1>1, <1>3, VmmAnswers DEF VmmTyped
<1>4. ASSUME NEW pc \in Pc, NEW v \in VM, NEW r \in Result, NEW cmd, Take(cmd), Goto(pc, v, r)
      PROVE  VmmTyped'
  <2>1. Head(calls) \in Command
    BY <1>1, <1>4, TakeTypes
  <2> QED
    BY <1>4, <2>1, VmmTakes DEF VmmTyped
<1>5. ASSUME NEW cmd, Take(cmd)
      PROVE  Head(calls).vm \in VM
  BY <1>1, <1>5, TakeTypes DEF Command
<1>6. VM0 \in VM /\ Guest \subseteq VM
  BY VMs
<1>7. Result = {"OK", "ERROR", "EBADSRCDST", "EDSTDIED", "EFAULT", "EINVAL", "ENAMETOOLONG",
                "ENOENT", "ENOMEM", "EPROXYSVR", "EVMSTATUS"}
  BY DEF Result
<1>8. Pc = {"idle", "reply", "load_pm", "load_copy", "load_sys", "start_sys", "start_wake",
            "kill_pm", "kill_sig"}
  BY DEF Pc
<1>9. CASE TakeLoad
  <2>1. alloc_vmdesc # NIL => alloc_vmdesc \in VM
    BY <1>1, <1>6, AllocFree
  <2> QED
    BY <1>4, <1>6, <1>7, <1>8, <1>9, <2>1 DEF TakeLoad
<1>10. CASE LoadPm \/ LoadCopy \/ LoadSys
  BY <1>2, <1>3, <1>7, <1>8, <1>10 DEF LoadPm, LoadCopy, LoadSys
<1>11. CASE TakeWait
  <2>1. /\ Take("WAITVM")
        /\ \/ \E r \in {"ENAMETOOLONG", "EFAULT", "EPROXYSVR"} : Goto("reply", VM0, r)
           \/ vmm' = vmm
    BY <1>11 DEF TakeWait
  <2> QED
    BY <1>1, <1>4, <1>6, <1>7, <1>8, <2>1 DEF VmmTyped
<1>12. CASE TakeStart
  <2>1. /\ Take("START")
        /\ Goto("start_sys", Head(calls).vm, "OK") \/ Goto("reply", Head(calls).vm, "ERROR")
    BY <1>12 DEF TakeStart
  <2> QED
    BY <1>4, <1>5, <1>7, <1>8, <2>1
<1>13. CASE StartSys \/ StartWake
  <2>1. /\ vmm.pc # "idle"
        /\ \/ Proceed("start_wake", "OK") \/ Proceed("start_wake", "ERROR")
           \/ Answer("OK") \/ Answer("EDSTDIED")
    BY <1>13 DEF StartSys, StartWake
  <2> QED
    BY <1>2, <1>3, <1>7, <1>8, <2>1
<1>14. CASE TakeKill
  <2>1. Take("KILL") /\ (Goto("reply", Head(calls).vm, "ERROR") \/ Goto("kill_pm", Head(calls).vm, "ERROR"))
    BY <1>14 DEF TakeKill
  <2> QED
    BY <1>4, <1>5, <1>7, <1>8, <2>1
<1>15. CASE KillPm \/ KillSig
  BY <1>2, <1>3, <1>7, <1>8, <1>15 DEF KillPm, KillSig
<1>16. CASE Reply
  <2>1. vmm' = Idle
    BY <1>16 DEF Reply
  <2> QED
    BY <1>6, <1>7, <1>8, <2>1 DEF Idle, VmmTyped, VmmType
<1> QED
  BY <1>9, <1>10, <1>11, <1>12, <1>13, <1>14, <1>15, <1>16 DEF VmmStep

LEMMA VmmStepLoaders ==
    ASSUME TInv, VmmStep
    PROVE  LoadersTyped'
<1>1. LifeTypeOK /\ at \in [Loader -> Place] /\ vm_proc \subseteq Loader /\ calls \in Seq(Command)
  BY TypeFacts DEF TInv
<1>2. CASE TakeLoad \/ TakeWait \/ TakeStart \/ TakeKill
  <2>1. at' = at /\ vm_proc' = vm_proc /\ \E cmd : Take(cmd)
    BY <1>2 DEF TakeLoad, TakeWait, TakeStart, TakeKill
  <2>2. calls' \in Seq(Command)
    BY <1>1, <2>1, TakeTypes
  <2> QED
    BY <1>1, <2>1, <2>2 DEF LoadersTyped
<1>3. CASE LoadPm \/ LoadCopy \/ LoadSys \/ StartSys \/ KillPm
  BY <1>1, <1>3 DEF LoadPm, LoadCopy, LoadSys, StartSys, KillPm, Alive, LoadersTyped
<1>4. CASE StartWake
  <2>1. vm_proc' = vm_proc /\ calls' = calls
    BY <1>4 DEF StartWake
  <2>2. at' = at \/ \E p \in Loader : at' = [at EXCEPT ![p] = "proxy"] \/ at' = [at EXCEPT ![p] = "exit"]
    BY <1>4 DEF StartWake, Alive
  <2> QED
    BY <1>1, <2>1, <2>2 DEF LoadersTyped, Place
<1>5. CASE KillSig
  <2>1. \/ at' = at /\ vm_proc' = vm_proc /\ calls' = calls
        \/ \E p \in Loader : Die(p)
    BY <1>5 DEF KillSig, Alive
  <2> QED
    BY <1>1, <2>1, DieTypes DEF LoadersTyped
<1>6. CASE Reply
  <2>1. vm_proc' = vm_proc /\ calls' = calls
    BY <1>6 DEF Reply
  <2>2. at' = at \/ \E p \in Loader : at' = [at EXCEPT ![p] = "loaded"] \/ at' = [at EXCEPT ![p] = "exit"]
    BY <1>6 DEF Reply, Alive
  <2> QED
    BY <1>1, <2>1, <2>2 DEF LoadersTyped, Place
<1> QED
  BY <1>2, <1>3, <1>4, <1>5, <1>6 DEF VmmStep

LEMMA VmmStepTables ==
    ASSUME TInv, VmmStep
    PROVE  TablesTyped'
<1>1. /\ LifeTypeOK /\ desc \in [VM -> Desc] /\ hyper \in [Guest -> Hyper] /\ vmm \in VmmType
      /\ vmm.vm \in VM /\ VM0 \in VM
  BY TypeFacts, VMs DEF TInv, VmmType
<1>2. ASSUME NEW d \in [VM -> Desc], NEW v \in VM, NEW e \in Desc
      PROVE  [d EXCEPT ![v] = e] \in [VM -> Desc]
  OBVIOUS
<1>3. vmm.pc # "idle" => vmm.req.n \in Int
  BY DEF TInv, Command
<1>4. CASE TakeLoad \/ LoadPm \/ TakeStart \/ TakeKill \/ KillPm \/ Reply
  BY <1>1, <1>4 DEF TakeLoad, LoadPm, TakeStart, TakeKill, KillPm, Reply, TablesTyped
<1>5. CASE LoadCopy
  <2>1. hyper' = hyper
    BY <1>5 DEF LoadCopy
  <2>2. CASE desc' = desc
    BY <1>1, <2>1, <2>2 DEF TablesTyped
  <2>3. CASE \E p \in Loader : desc' = [desc EXCEPT ![vmm.vm].flags = Loaded, ![vmm.vm].loader = p]
    <3>1. PICK p \in Loader : desc' = [desc EXCEPT ![vmm.vm].flags = Loaded, ![vmm.vm].loader = p]
      BY <2>3
    <3>2. [desc[vmm.vm] EXCEPT !.flags = Loaded, !.loader = p] \in Desc
      BY <1>1, FlagSets DEF Desc
    <3> QED
      BY <1>1, <2>1, <3>1, <3>2 DEF TablesTyped
  <2> QED
    BY <1>5, <2>2, <2>3 DEF LoadCopy, Loaded, Alive
<1>6. CASE LoadSys
  <2>1. desc' = desc
    BY <1>6 DEF LoadSys
  <2>2. desc[vmm.vm].loader \in Loader \cup {NIL}
    BY <1>1 DEF Desc
  <2>3. \A v \in Guest : /\ [hyper[v] EXCEPT !.flags = Loaded, !.loader = desc[vmm.vm].loader] \in Hyper
                         /\ [hyper[v] EXCEPT !.loader = desc[vmm.vm].loader] \in Hyper
    BY <1>1, <2>2, FlagSets DEF Hyper
  <2>4. \/ hyper' = hyper
        \/ hyper' = [hyper EXCEPT ![vmm.vm].flags = Loaded, ![vmm.vm].loader = desc[vmm.vm].loader]
        \/ hyper' = [hyper EXCEPT ![vmm.vm].loader = desc[vmm.vm].loader]
    BY <1>6 DEF LoadSys, Loaded
  <2>5. hyper' \in [Guest -> Hyper]
    <3>1. CASE vmm.vm \in Guest
      BY <1>1, <2>3, <2>4, <3>1
    <3>2. CASE vmm.vm \notin Guest
      BY <1>1, <2>4, <3>2
    <3> QED
      BY <3>1, <3>2
  <2> QED
    BY <1>1, <2>1, <2>5 DEF TablesTyped
<1>7. CASE TakeWait
  <2>1. PICK c : c = Head(calls)
    OBVIOUS
  <2> DEFINE mine == {v \in Guest : desc[v].flags = {"LOADED"} /\ desc[v].loader = c.from}
  <2>2. hyper' = hyper /\ (desc' = desc \/ (mine # {} /\ desc' = [desc EXCEPT ![Min(mine)].flags = @ \cup {"WAITING"}]))
    BY <1>7, <2>1 DEF TakeWait
  <2>3. mine # {} => Min(mine) \in mine
    <3>1. mine \subseteq Nat
      BY VMs
    <3> HIDE DEF mine
    <3> QED
      BY <3>1, MinIn
  <2>4. mine # {} => Min(mine) \in VM
    BY <2>3, VMs
  <2> HIDE DEF mine
  <2>5. \A v \in VM : [desc[v] EXCEPT !.flags = @ \cup {"WAITING"}] \in Desc
    BY <1>1 DEF Desc, Flag
  <2>6. desc' \in [VM -> Desc]
    BY <1>1, <2>2, <2>4, <2>5
  <2> QED
    BY <1>1, <2>2, <2>6 DEF TablesTyped
<1>8. CASE StartSys
  <2>1. desc' = desc /\ vmm.req.n \in Int
    BY <1>3, <1>8 DEF StartSys
  <2>2. \A v \in Guest : [hyper[v] EXCEPT !.flags = @ \cup {"RUNNING"}, !.bsize = vmm.req.n] \in Hyper
    BY <1>1, <2>1 DEF Hyper, Flag
  <2>3. hyper' = hyper \/ hyper' = [hyper EXCEPT ![vmm.vm].flags = @ \cup {"RUNNING"}, ![vmm.vm].bsize = vmm.req.n]
    BY <1>8 DEF StartSys
  <2>4. hyper' \in [Guest -> Hyper]
    <3>1. CASE vmm.vm \in Guest
      BY <1>1, <2>2, <2>3, <3>1
    <3>2. CASE vmm.vm \notin Guest
      BY <1>1, <2>3, <3>2
    <3> QED
      BY <3>1, <3>2
  <2> QED
    BY <1>1, <2>1, <2>4 DEF TablesTyped
<1>9. CASE StartWake
  <2>1. PICK v, n : v = vmm.vm /\ n = vmm.req.n
    OBVIOUS
  <2>2. hyper' = hyper /\ n \in Int /\ v \in VM /\ (desc' = desc \/ desc' = Started(v, n))
    BY <1>1, <1>3, <1>9, <2>1 DEF StartWake
  <2> DEFINE a == [desc EXCEPT ![v].flags = Runs, ![v].bsize = n, ![v].tokens = n]
  <2>3. [desc[v] EXCEPT !.flags = Runs, !.bsize = n, !.tokens = n] \in Desc
    BY <1>1, <2>2, FlagSets DEF Desc
  <2>4. a \in [VM -> Desc]
    BY <1>1, <2>2, <2>3
  <2>5. Started(v, n) = [a EXCEPT ![VM0].tokens = @ - n]
    BY DEF Started, Runs
  <2> HIDE DEF a
  <2>6. [a[VM0] EXCEPT !.tokens = @ - n] \in Desc
    BY <1>1, <2>2, <2>4 DEF Desc
  <2>7. Started(v, n) \in [VM -> Desc]
    BY <1>1, <2>4, <2>5, <2>6
  <2> QED
    BY <1>1, <2>2, <2>7 DEF TablesTyped
<1>10. CASE KillSig
  <2>1. PICK v : v = vmm.vm
    OBVIOUS
  <2>2. hyper' = hyper /\ v \in VM /\ desc' = free_vmdesc(v)
    BY <1>1, <1>10, <2>1 DEF KillSig
  <2> DEFINE a == [desc EXCEPT ![VM0].tokens = @ + desc[v].tokens]
  <2>3. [desc[VM0] EXCEPT !.tokens = @ + desc[v].tokens] \in Desc
    BY <1>1, <2>2 DEF Desc
  <2>4. a \in [VM -> Desc]
    BY <1>1, <2>3
  <2>5. free_vmdesc(v) = [a EXCEPT ![v] = [flags |-> {}, loader |-> NIL, bsize |-> a[v].bsize, tokens |-> 0]]
    BY DEF free_vmdesc
  <2> HIDE DEF a
  <2>6. [flags |-> {}, loader |-> NIL, bsize |-> a[v].bsize, tokens |-> 0] \in Desc
    BY <2>2, <2>4 DEF Desc
  <2>7. free_vmdesc(v) \in [VM -> Desc]
    BY <2>2, <2>4, <2>5, <2>6
  <2> QED
    BY <1>1, <2>2, <2>7 DEF TablesTyped
<1> QED
  BY <1>4, <1>5, <1>6, <1>7, <1>8, <1>9, <1>10 DEF VmmStep

LEMMA OtherStepTypes ==
    ASSUME TInv, ~VmmStep, [Next]_vars
    PROVE  TInv'
<1>1. TablesTyped /\ LoadersTyped /\ VmmTyped
  BY TypedIs
<1>2. CASE \E p \in Loader : LoaderStep(p) \/ Signal(p)
  <2>1. PICK p \in Loader : LoaderStep(p) \/ Signal(p)
    BY <1>2
  <2>2. desc' = desc /\ hyper' = hyper /\ vmm' = vmm
    BY <2>1 DEF LoaderStep, LoaderLoad, LoaderWait, LoaderExit, Signal
  <2>3. LoadersTyped'
    <3>1. CASE LoaderLoad(p) \/ LoaderWait(p)
      <4>1. \E c \in Command : calls' = Append(calls, c)
        <5>1. \A cmd \in {"LOAD", "WAITVM"} : Request(cmd, p, VM0, 0) \in Command
          BY VMs DEF Request, Command
        <5> QED
          BY <3>1, <5>1 DEF LoaderLoad, LoaderWait
      <4>2. calls' \in Seq(Command)
        BY <1>1, <4>1, AppendProperties DEF LoadersTyped
      <4>3. (at' = [at EXCEPT ![p] = "load"] \/ at' = [at EXCEPT ![p] = "wait"]) /\ vm_proc' = vm_proc
        BY <3>1 DEF LoaderLoad, LoaderWait
      <4> QED
        BY <1>1, <4>2, <4>3 DEF LoadersTyped, Place
    <3>2. CASE LoaderExit(p) \/ Signal(p)
      <4>1. Die(p) /\ LifeTypeOK
        BY <3>2 DEF LoaderExit, Signal, TInv
      <4> QED
        BY <4>1, DieTypes DEF LoadersTyped
    <3> QED
      BY <2>1, <3>1, <3>2 DEF LoaderStep
  <2>4. TablesTyped' /\ VmmTyped'
    BY <1>1, <2>2 DEF TablesTyped, VmmTyped
  <2> QED
    BY <2>3, <2>4, TypedIs
<1>3. CASE \E o \in Operator : StartCommand(o) \/ KillCommand(o)
  <2>1. PICK o \in Operator : StartCommand(o) \/ KillCommand(o)
    BY <1>3
  <2>2. desc' = desc /\ hyper' = hyper /\ vmm' = vmm /\ at' = at /\ vm_proc' = vm_proc
    BY <2>1 DEF StartCommand, KillCommand
  <2>3. \E c \in Command : calls' = Append(calls, c)
    <3>1. \A v \in Guest, n \in Int, cmd \in {"START", "KILL"} : Request(cmd, o, v, n) \in Command
      BY VMs DEF Request, Command
    <3> QED
      BY <2>1, <3>1, LifeAssumption DEF StartCommand, KillCommand
  <2>4. calls' \in Seq(Command)
    BY <1>1, <2>3, AppendProperties DEF LoadersTyped
  <2> QED
    BY <1>1, <2>2, <2>4, TypedIs DEF TablesTyped, VmmTyped, LoadersTyped
<1>4. CASE UNCHANGED vars
  BY <1>1, <1>4, TypedIs DEF vars, TablesTyped, VmmTyped, LoadersTyped
<1> QED
  BY <1>2, <1>3, <1>4 DEF Next

(* The tables keep their types whatever the operators ask for and          *)
(* whatever fails.                                                         *)
THEOREM LifeTypesOK ==
    Spec => []LifeTypeOK
<1>1. Init => TInv
  <2> SUFFICES ASSUME Init PROVE TInv
    OBVIOUS
  <2>1. LifeTypeOK
    BY InitInv DEF IInv
  <2>2. vmm.pc = "idle"
    BY DEF Init, Idle
  <2> QED
    BY <2>1, <2>2 DEF TInv
<1>2. TInv /\ [Next]_vars => TInv'
  <2> SUFFICES ASSUME TInv, [Next]_vars PROVE TInv'
    OBVIOUS
  <2>1. CASE VmmStep
    BY <2>1, VmmStepTypes, VmmStepLoaders, VmmStepTables, TypedIs
  <2>2. CASE ~VmmStep
    BY <2>2, OtherStepTypes
  <2> QED
    BY <2>1, <2>2
<1>3. TInv => LifeTypeOK
  BY DEF TInv
<1> QED
  BY <1>1, <1>2, <1>3, PTL DEF Spec

=============================================================================
