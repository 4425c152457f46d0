------------------------------ MODULE AudioData ------------------------------
(***************************************************************************)
(* The growable buffer AudioData<Sample> of bmx2ogg/audio.h and the Audio  *)
(* operations built on it, down to the blocks that malloc hands out.  An   *)
(* object owns its block by convention only: it is freed by hand, and      *)
(* ChangeRate and ChangePitch end in a member-wise copy `buf = *newbuf',   *)
(* after which two objects point to one block.  That is harmless because   *)
(* newbuf is never destroyed, nor used again.                              *)
(*                                                                         *)
(* A step is one call of a member of AudioData; Clear, which is Release    *)
(* and Create, and Release followed by the copy are one step each.  malloc *)
(* may return any block that is not allocated, one just freed included,    *)
(* and for size 0 it may return Null; otherwise it is taken not to fail.   *)
(***************************************************************************)
EXTENDS Rate, Sequences

CONSTANTS
  Holder,        \* the Audio objects
  newbuf,        \* the temporary of ChangeRate and ChangePitch
  Block,         \* the addresses malloc may return
  Null,
  Value,         \* the values of a sample
  Junk,          \* the content of memory nobody has written
  CHUNKSIZE,     \* initial capacity and increment, in samples (audio.h:16)
  Rates,         \* the speeds ChangeRate is called with
  MaxCount,      \* bound: no operation asks for a longer list than this
  MaxStretched   \* bound: nor does ChangeRate make a longer one than this

ASSUME RatesAssumption == Rates \subseteq Speed
ASSUME NewbufAssumption == newbuf \notin Holder
ASSUME NullAssumption == Null \notin Block
ASSUME JunkAssumption == Junk \notin Value
ASSUME ChunkAssumption == CHUNKSIZE \in Nat \ {0}
ASSUME MaxCountAssumption == MaxCount \in Nat
ASSUME MaxStretchedAssumption == MaxStretched \in Nat

VARIABLES
  live,          \* the allocated blocks
  cell,          \* the content of each block, as long as the block
  samples,       \* per object: AudioData::samples, a block or Null
  samplesize,    \* per object: AudioData::samplesize
  pos,           \* per object: AudioData::pos
  pc,            \* the call that comes next: see Phase
  self,          \* the Audio whose operation is in progress, or Null
  want,          \* the size that operation has asked for
  rate,          \* the speed of a ChangeRate in progress
  oidx           \* its position in the old list

heapVars == <<live, cell>>
objVars == <<samples, samplesize, pos>>
opVars == <<self, want, rate, oidx>>
vars == <<live, cell, samples, samplesize, pos, pc, self, want, rate, oidx>>

Object == Holder \cup {newbuf}
Cell == Value \cup {Junk}
Garbage(n) == [k \in 1 .. n |-> Junk]

(* "idle": no operation in progress.  LoadFile goes through "open" and     *)
(* "read", Create through "create", ChangeRate through "stretch", "left"   *)
(* and "right", ChangePitch through "copy" and "shift"; the last two end   *)
(* in "swap".                                                              *)
Phase == {"idle", "open", "read", "create", "stretch", "left", "right",
          "copy", "shift", "swap", "exited"}

(* The locals of an operation are gone when it returns.                    *)
NoOperation == self = Null /\ want = 0 /\ rate = <<1, 1>> /\ oidx = 0
Returned == self' = Null /\ want' = 0 /\ rate' = <<1, 1>> /\ oidx' = 0

(* newbuf exists from its `new' until it is abandoned in the copy.         *)
Changing == pc \in {"stretch", "left", "right", "copy", "shift", "swap"}
Alive == IF pc = "exited" THEN {} ELSE IF Changing THEN Object ELSE Holder

-----------------------------------------------------------------------------
(* The members of AudioData, as constraints on the next state.             *)

(* What is allocated once o has released its block.                        *)
LiveWithout(o) == live \ {samples[o]}

(* The elements o points to.                                               *)
Cells(o) == IF samples[o] = Null THEN <<>> ELSE cell[samples[o]]

(* What element k of o may be read as.  Behind the block it may be         *)
(* anything, another block's content included; if the access faults there, *)
(* the program ends, which is no step.                                     *)
Read(o, k) == IF k \in DOMAIN Cells(o) THEN {Cells(o)[k]} ELSE Cell

(* o gives up its block and points to block b, with that content.  A block *)
(* that is not allocated has no content.                                   *)
Repoint(o, b, content) ==
  /\ live' = LiveWithout(o) \cup ({b} \ {Null})
  /\ cell' = [c \in Block |-> IF c = b THEN content
                              ELSE IF c \in LiveWithout(o) THEN cell[c] ELSE <<>>]
  /\ samples' = [samples EXCEPT ![o] = b]

(* What malloc(size) may return when o has released its block.             *)
Malloc(o, size) ==
  (Block \ LiveWithout(o)) \cup (IF size = 0 THEN {Null} ELSE {})

(* Mutant of Create: the old elements are still counted.                   *)
CreateKeepingPos(o, size) ==
  \E b \in Malloc(o, size) :
    /\ Repoint(o, b, Garbage(size))
    /\ samplesize' = [samplesize EXCEPT ![o] = size]
    /\ pos' = pos

(* Create(size): Release, then malloc.                                     *)
Create(o, size) ==
  \E b \in Malloc(o, size) :
    /\ Repoint(o, b, Garbage(size))
    /\ samplesize' = [samplesize EXCEPT ![o] = size]
    /\ pos' = [pos EXCEPT ![o] = 0]

(* Mutant of Full: the buffer grows one sample too late.                   *)
FullLate(o) == pos[o] > samplesize[o]

(* Add(v): a full buffer is reallocated first, in place or elsewhere.      *)
Full(o) == pos[o] >= samplesize[o]

Add(o, v) ==
  LET size == IF Full(o) THEN samplesize[o] + CHUNKSIZE ELSE samplesize[o]
      old == Cells(o)
  IN  \E b \in IF Full(o) THEN Malloc(o, size) ELSE {samples[o]} :
        /\ Repoint(o, b, [k \in 1 .. size |->
                           IF k = pos[o] + 1 THEN v
                           ELSE IF k <= Len(old) THEN old[k] ELSE Junk])
        /\ samplesize' = [samplesize EXCEPT ![o] = size]
        /\ pos' = [pos EXCEPT ![o] = @ + 1]

(* SetSampleCount(n), after which a caller writes f into the elements from *)
(* the first on.                                                           *)
Fill(o, n, f) ==
  /\ Repoint(o, samples[o], [k \in DOMAIN Cells(o) |->
                             IF k <= Len(f) THEN f[k] ELSE Cells(o)[k]])
  /\ pos' = [pos EXCEPT ![o] = n]
  /\ UNCHANGED samplesize

-----------------------------------------------------------------------------
(* The operations of an Audio.                                             *)

(* Every Audio has been constructed: AudioData() and then Clear, so each   *)
(* has a block of CHUNKSIZE samples of its own.                            *)
Init ==
  /\ samples \in [Object -> Block \cup {Null}]
  /\ samples[newbuf] = Null
  /\ \A h \in Holder : samples[h] # Null
  /\ \A g, h \in Holder : g # h => samples[g] # samples[h]
  /\ live = {samples[h] : h \in Holder}
  /\ cell = [b \in Block |-> IF b \in live THEN Garbage(CHUNKSIZE) ELSE <<>>]
  /\ samplesize = [o \in Object |-> IF o = newbuf THEN 0 ELSE CHUNKSIZE]
  /\ pos = [o \in Object |-> 0]
  /\ pc = "idle"
  /\ NoOperation

(* Release(), which is buf.Clear().                                        *)
Release(h) ==
  /\ pc = "idle"
  /\ Create(h, CHUNKSIZE)
  /\ UNCHANGED <<pc, opVars>>

(* LoadFile: the list is emptied before the file is opened.                *)
LoadFile(h) ==
  /\ pc = "idle"
  /\ pc' = "open"
  /\ self' = h
  /\ Create(h, CHUNKSIZE)
  /\ UNCHANGED <<want, rate, oidx>>

OpenFails ==
  /\ pc = "open"
  /\ pc' = "idle"
  /\ Returned
  /\ UNCHANGED <<heapVars, objVars>>

(* The header says how many samples there are.                             *)
Opened(n) ==
  /\ pc = "open"
  /\ pc' = "read"
  /\ want' = n
  /\ Create(self, n)
  /\ UNCHANGED <<self, rate, oidx>>

(* SetSampleCount(n) and read, which may deliver fewer samples than the    *)
(* header promised; its result is not looked at.                           *)
ReadFile ==
  /\ pc = "read"
  /\ pc' = "idle"
  /\ \E got \in 0 .. want : \E f \in [1 .. got -> Value] : Fill(self, want, f)
  /\ Returned

(* Create(size): Clear, then Create of the buffer.                         *)
CreateAudio(h) ==
  /\ pc = "idle"
  /\ pc' = "create"
  /\ self' = h
  /\ Create(h, CHUNKSIZE)
  /\ UNCHANGED <<want, rate, oidx>>

CreateBuffer(size) ==
  /\ pc = "create"
  /\ pc' = "idle"
  /\ Create(self, size)
  /\ Returned

(* Add(sample).                                                            *)
AddSample(h, v) ==
  /\ pc = "idle"
  /\ pos[h] < MaxCount
  /\ Add(h, v)
  /\ UNCHANGED <<pc, opVars>>

(* ChangeRate(d) up to `new AudioData<Sample>', which allocates.           *)
ChangeRate(h, d) ==
  /\ pc = "idle"
  /\ NewCount(pos[h], Clamped(d)) <= MaxStretched
  /\ pc' = "stretch"
  /\ self' = h
  /\ want' = NewCount(pos[h], Clamped(d))
  /\ rate' = Clamped(d)
  /\ oidx' = 0
  /\ Create(newbuf, CHUNKSIZE)

(* newbuf->Create(new_sample).                                             *)
CreateStretched ==
  /\ pc = "stretch"
  /\ pc' = "left"
  /\ Create(newbuf, want)
  /\ UNCHANGED opVars

(* One turn of the loop is two steps, one for each Add.  Nothing tests     *)
(* oidx against the number of samples there are.                           *)
CopyLeft ==
  /\ pc = "left"
  /\ pos[newbuf] < want
  /\ pc' = "right"
  /\ oidx' = Advanced(oidx, SourceOf(pos[newbuf], rate))
  /\ \E v \in Read(self, oidx' + 1) : Add(newbuf, v)
  /\ UNCHANGED <<self, want, rate>>

(* Mutant: the left sample is used for both channels.                      *)
CopyRightFromLeft ==
  /\ pc = "right"
  /\ pc' = "left"
  /\ \E v \in Read(self, oidx + 1) : Add(newbuf, v)
  /\ UNCHANGED opVars

CopyRight ==
  /\ pc = "right"
  /\ pc' = "left"
  /\ \E v \in Read(self, oidx + 2) : Add(newbuf, v)
  /\ UNCHANGED opVars

EndStretch ==
  /\ pc = "left"
  /\ pos[newbuf] >= want
  /\ pc' = "swap"
  /\ UNCHANGED <<heapVars, objVars, opVars>>

(* ChangePitch up to `new AudioData<Sample>'.                              *)
ChangePitch(h) ==
  /\ pc = "idle"
  /\ pc' = "copy"
  /\ self' = h
  /\ want' = pos[h]
  /\ Create(newbuf, CHUNKSIZE)
  /\ UNCHANGED <<rate, oidx>>

CreateShifted ==
  /\ pc = "copy"
  /\ pc' = "shift"
  /\ Create(newbuf, want)
  /\ UNCHANGED opVars

(* SetSampleCount and smbPitchShift, which writes every sample; shorts are *)
(* within their limits, so the loop that cuts them changes nothing.        *)
Shift ==
  /\ pc = "shift"
  /\ pc' = "swap"
  /\ \E f \in [1 .. want -> Value] : Fill(newbuf, want, f)
  /\ UNCHANGED opVars

(* Mutant of Swap: the old block is not released.                          *)
SwapLeaking ==
  /\ pc = "swap"
  /\ pc' = "idle"
  /\ samples' = [samples EXCEPT ![self] = samples[newbuf], ![newbuf] = Null]
  /\ samplesize' = [samplesize EXCEPT ![self] = samplesize[newbuf], ![newbuf] = 0]
  /\ pos' = [pos EXCEPT ![self] = pos[newbuf], ![newbuf] = 0]
  /\ Returned
  /\ UNCHANGED heapVars

(* buf.Release(); buf = *newbuf.  The abandoned newbuf still points to the *)
(* block, but no one can reach it any more: it is shown as pointing to     *)
(* nothing.                                                                *)
Swap ==
  /\ pc = "swap"
  /\ pc' = "idle"
  /\ live' = LiveWithout(self)
  /\ cell' = [c \in Block |-> IF c \in live' THEN cell[c] ELSE <<>>]
  /\ samples' = [samples EXCEPT ![self] = samples[newbuf], ![newbuf] = Null]
  /\ samplesize' = [samplesize EXCEPT ![self] = samplesize[newbuf], ![newbuf] = 0]
  /\ pos' = [pos EXCEPT ![self] = pos[newbuf], ![newbuf] = 0]
  /\ Returned

(* The destructors, when main returns.                                     *)
Destroy ==
  /\ pc = "idle"
  /\ pc' = "exited"
  /\ live' = live \ {samples[h] : h \in Holder}
  /\ cell' = [c \in Block |-> IF c \in live' THEN cell[c] ELSE <<>>]
  /\ samples' = [o \in Object |-> Null]
  /\ samplesize' = [o \in Object |-> 0]
  /\ pos' = [o \in Object |-> 0]
  /\ UNCHANGED opVars

Next ==
  \/ \E h \in Holder : Release(h) \/ LoadFile(h) \/ CreateAudio(h) \/ ChangePitch(h)
  \/ OpenFails
  \/ \E n \in 0 .. MaxCount : Opened(n) \/ CreateBuffer(n)
  \/ ReadFile
  \/ \E h \in Holder, v \in Value : AddSample(h, v)
  \/ \E h \in Holder, d \in Rates : ChangeRate(h, d)
  \/ CreateStretched \/ CopyLeft \/ CopyRight \/ EndStretch
  \/ CreateShifted \/ Shift
  \/ Swap
  \/ Destroy

Spec == Init /\ [][Next]_vars

-----------------------------------------------------------------------------
(* Types, and the one that the code keeps by hand: samplesize is the size  *)
(* of the block, and pos does not exceed it (audio.h:39-41).               *)
TypeOK ==
  /\ live \subseteq Block
  /\ cell \in [Block -> Seq(Cell)]
  /\ samples \in [Object -> Block \cup {Null}]
  /\ samplesize \in [Object -> Nat]
  /\ pos \in [Object -> Nat]
  /\ \A o \in Object : samplesize[o] = Len(Cells(o)) /\ pos[o] <= samplesize[o]
  /\ pc \in Phase
  /\ self \in Holder \cup {Null}
  /\ pc \notin {"idle", "exited"} => self \in Holder
  /\ want \in Nat
  /\ rate \in Speed
  /\ oidx \in Nat

(* Every block is owned by exactly one reachable object: nothing is freed  *)
(* twice or used after it is freed, in spite of the member-wise copies,    *)
(* and no block is ever lost, not even at the end.                         *)
Ownership ==
  /\ \A o \in Alive : samples[o] \in live \cup {Null}
  /\ \A o, q \in Alive : o # q /\ samples[o] = samples[q] => samples[o] = Null
  /\ \A b \in live : \E o \in Alive : samples[o] = b

HasJunk(h) == \E k \in 1 .. pos[h] : Cells(h)[k] = Junk

(* Memory that nobody has written gets into an Audio in two ways only:     *)
(* through a file that is shorter than its header says (audio.cpp:22-25),  *)
(* and when the list is resampled at a speed that leaves it                *)
(* (audio.cpp:135-136; module Rate says which do).  Neither growth, nor    *)
(* any other speed, nor the pitch shift adds any, and the other Audio      *)
(* objects never get any.                                                  *)
TakesJunk(h) ==
  /\ h = self
  /\ \/ pc = "read"
     \/ pc = "swap" /\ ~StaysInList(pos[h], rate)

NoNewJunk ==
  [][\A h \in Holder : HasJunk(h)' => HasJunk(h) \/ TakesJunk(h)]_vars

(* An Audio behaves as a list of its own (module SampleList).              *)
List == INSTANCE SampleList WITH
  list <- [h \in Holder |-> [k \in 1 .. pos[h] |-> Cells(h)[k]]]

ImplementsSampleList == List!Spec
==============================================================================
