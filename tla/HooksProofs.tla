----------------------------- MODULE HooksProofs -----------------------------
(***************************************************************************)
(* Hooks for rings of any size, any number of calls and any number of      *)
(* changes: the game never jumps to an address where nothing is, a call of *)
(* SetCarCfg goes through whatever is installed as it went before, what a  *)
(* careful redirection of HookManager replaced is what its restore puts    *)
(* back, and a ring shows the last calls, to the monitor's tracker too.    *)
(*                                                                         *)
(* And the code that is hooked in, for programs of any length, words of    *)
(* any width and any range of branches: what mips.py assembles lands where *)
(* it was meant to, and codecave.py and disasm.py find it there again.     *)
(***************************************************************************)
EXTENDS Hooks, Assembler, Arithmetic, FiniteSetTheorems, TLAPS

\* What a call of SetCarCfg may be redirected to, and what a site may hold.
Callable == (written \ {"probe"}) \cup {"SetCarCfg"}
Held(s) == IF s = "entry" THEN {"display"} \cup written ELSE Callable

\* What is left of an installation or a removal.
Jobs == {<<>>, <<"back">>, <<"code", "ring", "site">>, <<"ring", "site">>, <<"site">>}

Types ==
    /\ written \subseteq {"handler", "T1", "T2", "probe"}
    /\ DOMAIN site = Sites
    /\ job \in [Tools -> Jobs]
    /\ careless \in BOOLEAN

SitesHoldCode == \A s \in Sites : site[s] \in Held(s)

\* A site is redirected after the code is there.
CodeBeforeSite ==
    \A t \in Tools :
       job[t] \in {<<"ring", "site">>, <<"site">>} => Trampoline[t] \in written

\* The first site's tool starts where the payload has been loaded, and both its
\* trampoline and its removal lead back to the payload.
PayloadBeforeTool ==
    job["first"] # <<>> \/ "T1" \in written => "handler" \in written

\* What HookManager is about to write, and what it keeps for later, is code;
\* and the game's own routine, as long as each redirection said so.
Pending == manager # <<>> =>
    \E s \in Sites : \E o, h \in Held(s) :
       /\ manager = <<[site |-> s, original |-> o, handler |-> h]>>
       /\ ~careless => o = "SetCarCfg"
Kept ==
    /\ DOMAIN active \subseteq Sites
    /\ \A s \in DOMAIN active :
          active[s] \in Held(s) /\ (~careless => active[s] = "SetCarCfg")

WriterInv == Types /\ SitesHoldCode /\ CodeBeforeSite /\ PayloadBeforeTool
                   /\ Pending /\ Kept
-----------------------------------------------------------------------------
(* The calls of an image that was just loaded go to the game's routines, and *)
(* no writer has begun.                                                    *)
LEMMA WriterInit == Init => WriterInv
<1> SUFFICES ASSUME Init PROVE WriterInv
  OBVIOUS
<1>1. Types /\ CodeBeforeSite
  BY DEF Init, Types, CodeBeforeSite, Jobs, Sites, CallSites, Tools
<1>2. SitesHoldCode
  BY DEF Init, SitesHoldCode, Held, Callable, Sites, CallSites
<1>3. PayloadBeforeTool /\ Pending
  BY DEF Init, PayloadBeforeTool, Pending, Sites, CallSites, Tools
<1>4. DOMAIN active = {}
  BY DEF Init
<1>5. Kept
  BY <1>4 DEF Kept
<1> QED
  BY <1>1, <1>2, <1>3, <1>5 DEF WriterInv

(* Code is only ever added: what could be run can still be run.            *)
LEMMA MoreCode ==
    ASSUME written \subseteq written'
    PROVE  /\ Callable \subseteq Callable'
           /\ \A s : Held(s) \subseteq Held(s)'
BY DEF Callable, Held

(* A step that touches neither HookManager nor any site.                   *)
LEMMA ManagerAlone ==
    ASSUME Pending, Kept, written \subseteq written',
           UNCHANGED <<manager, active, careless>>
    PROVE  Pending' /\ Kept'
BY MoreCode DEF Pending, Kept

LEMMA SitesAlone ==
    ASSUME SitesHoldCode, written \subseteq written', UNCHANGED site
    PROVE  SitesHoldCode'
BY MoreCode DEF SitesHoldCode

(* A step that writes to one site.                                         *)
LEMMA SiteWritten ==
    ASSUME SitesHoldCode, DOMAIN site = Sites, NEW s \in Sites, NEW r,
           written \subseteq written', r \in Held(s), site' = [site EXCEPT ![s] = r]
    PROVE  SitesHoldCode' /\ DOMAIN site' = Sites
BY MoreCode DEF SitesHoldCode

LEMMA PayloadAlone ==
    ASSUME PayloadBeforeTool, written \subseteq written',
           "T1" \in written' => "T1" \in written \/ job["first"] # <<>>,
           job'["first"] # <<>> => job["first"] # <<>>
    PROVE  PayloadBeforeTool'
BY DEF PayloadBeforeTool

(* A tool writes what its job says next.                                   *)
LEMMA WriteStep == ASSUME WriterInv, NEW t \in Tools, Write(t) PROVE WriterInv'
<1> USE DEF WriterInv
<1>0. t \in Sites /\ DOMAIN job = Tools
  BY DEF Tools, Types
<1>1. /\ job[t] \in Jobs \ {<<>>}
      /\ job' = [job EXCEPT ![t] = Tail(job[t])]
      /\ UNCHANGED <<manager, active, careless>>
  BY DEF Write, Types
<1>2. written \subseteq written'
  BY DEF Write
<1>3. Pending' /\ Kept'
  BY <1>1, <1>2, ManagerAlone
<1>4. CASE job[t] = <<"back">>
  <2>1. /\ written' = written /\ site' = [site EXCEPT ![t] = Original[t]]
        /\ job' = [job EXCEPT ![t] = <<>>]
    BY <1>1, <1>4 DEF Write
  <2>2. Original[t] \in Held(t)
    BY <1>0, <1>4 DEF Original, Held, Callable, PayloadBeforeTool, Sites, CallSites
  <2>3. SitesHoldCode' /\ DOMAIN site' = Sites
    BY <1>0, <2>1, <2>2, SiteWritten DEF Types
  <2>4. Types' /\ CodeBeforeSite'
    BY <1>1, <2>1, <2>3 DEF Types, CodeBeforeSite, Jobs
  <2>5. PayloadBeforeTool'
    BY <1>0, <2>1, PayloadAlone DEF Tools, Sites, CallSites
  <2> QED
    BY <1>3, <2>3, <2>4, <2>5
<1>5. CASE job[t] = <<"code", "ring", "site">>
  <2>1. /\ written' = written \cup {Trampoline[t]}
        /\ site' = [site EXCEPT ![t] = site[t]]
        /\ job' = [job EXCEPT ![t] = <<"ring", "site">>]
    <3>1. Head(job[t]) = "code" /\ Tail(job[t]) = <<"ring", "site">>
      BY <1>5
    <3> QED
      BY <1>1, <3>1 DEF Write
  <2>2. Trampoline[t] \in {"T1", "T2", "probe"} /\ (Trampoline[t] = "T1" => t = "first")
    BY <1>0 DEF Trampoline, Sites, CallSites
  <2>3. SitesHoldCode' /\ DOMAIN site' = Sites
    BY <1>0, <1>2, <2>1, SiteWritten DEF SitesHoldCode, Types
  <2>4. Types'
    BY <1>1, <2>1, <2>2, <2>3 DEF Types, Jobs
  <2>5. CodeBeforeSite'
    BY <1>1, <2>1 DEF Types, CodeBeforeSite
  <2>6. PayloadBeforeTool'
    BY <1>0, <1>2, <1>5, <2>1, <2>2, PayloadAlone DEF Tools, Sites, CallSites
  <2> QED
    BY <1>3, <2>3, <2>4, <2>5, <2>6
<1>6. CASE job[t] = <<"ring", "site">>
  <2>1. /\ written' = written
        /\ site' = [site EXCEPT ![t] = site[t]]
        /\ job' = [job EXCEPT ![t] = <<"site">>]
    <3>1. Head(job[t]) = "ring" /\ Tail(job[t]) = <<"site">>
      BY <1>6
    <3> QED
      BY <1>1, <3>1 DEF Write
  <2>2. SitesHoldCode' /\ DOMAIN site' = Sites
    BY <1>0, <1>2, <2>1, SiteWritten DEF SitesHoldCode, Types
  <2>3. Types' /\ CodeBeforeSite'
    BY <1>1, <1>6, <2>1, <2>2 DEF Types, CodeBeforeSite, Jobs
  <2>4. PayloadBeforeTool'
    BY <1>0, <1>6, <2>1, PayloadAlone DEF Tools, Sites, CallSites
  <2> QED
    BY <1>3, <2>2, <2>3, <2>4
<1>7. CASE job[t] = <<"site">>
  <2>1. /\ written' = written /\ site' = [site EXCEPT ![t] = Trampoline[t]]
        /\ job' = [job EXCEPT ![t] = <<>>]
    BY <1>1, <1>7 DEF Write
  <2>2. Trampoline[t] \in written
    BY <1>7 DEF CodeBeforeSite
  <2>3. Trampoline[t] \in Held(t)
    BY <1>0, <2>2 DEF Trampoline, Held, Callable, Sites, CallSites
  <2>4. SitesHoldCode' /\ DOMAIN site' = Sites
    BY <1>0, <2>1, <2>3, SiteWritten DEF Types
  <2>5. Types'
    BY <1>1, <2>1, <2>4 DEF Types, Jobs
  <2>6. PayloadBeforeTool'
    BY <1>0, <2>1, PayloadAlone DEF Tools, Sites, CallSites
  <2>7. CodeBeforeSite'
    <3>1. job'[t] = <<>> /\ \A u \in Tools : u # t => job'[u] = job[u]
      BY <1>0, <2>1
    <3> QED
      BY <2>1, <3>1 DEF CodeBeforeSite
  <2> QED
    BY <1>3, <2>4, <2>5, <2>6, <2>7
<1> QED
  BY <1>1, <1>4, <1>5, <1>6, <1>7 DEF Jobs

(* HookManager writes what it has read.                                    *)
LEMMA ManagerWritesStep == WriterInv /\ ManagerWrites => WriterInv'
<1> SUFFICES ASSUME WriterInv, ManagerWrites PROVE WriterInv'
  OBVIOUS
<1> USE DEF WriterInv
<1>1. PICK s \in Sites : \E o, h \in Held(s) :
         /\ manager = <<[site |-> s, original |-> o, handler |-> h]>>
         /\ ~careless => o = "SetCarCfg"
  BY DEF ManagerWrites, Pending
<1>0. PICK o, h \in Held(s) :
         /\ manager = <<[site |-> s, original |-> o, handler |-> h]>>
         /\ ~careless => o = "SetCarCfg"
  BY <1>1
<1>2. /\ site' = [site EXCEPT ![s] = h]
      /\ active' = [x \in DOMAIN active \cup {s} |-> IF x = s THEN o ELSE active[x]]
      /\ manager' = <<>>
      /\ UNCHANGED <<written, job, careless>>
  BY <1>0 DEF ManagerWrites
<1>3. SitesHoldCode' /\ DOMAIN site' = Sites
  BY <1>0, <1>2, SiteWritten DEF Types
<1>4. \A x : Held(x)' = Held(x)
  BY <1>2 DEF Held, Callable
<1>5. Kept' /\ Pending'
  BY <1>0, <1>1, <1>2, <1>4 DEF Kept, Pending
<1> QED
  BY <1>2, <1>3, <1>5 DEF Types, CodeBeforeSite, PayloadBeforeTool

(* It puts back what it keeps.                                             *)
LEMMA ManagerRestoresStep ==
    ASSUME WriterInv, NEW s \in Sites, ManagerRestores(s) PROVE WriterInv'
<1> USE DEF WriterInv
<1>1. /\ site' = [site EXCEPT ![s] = active[s]]
      /\ s \in DOMAIN active
      /\ manager = <<>>
      /\ UNCHANGED <<written, job, manager, careless>>
  BY DEF ManagerRestores
<1>2. /\ DOMAIN active' \subseteq DOMAIN active
      /\ \A x \in DOMAIN active' : active'[x] = active[x]
  BY DEF ManagerRestores, Restrict
<1>3. SitesHoldCode' /\ DOMAIN site' = Sites
  <2>1. active[s] \in Held(s)
    BY <1>1 DEF Kept
  <2> QED
    BY <1>1, <2>1, SiteWritten DEF Types
<1>4. \A x : Held(x)' = Held(x)
  BY <1>1 DEF Held, Callable
<1>5. Kept' /\ Pending'
  BY <1>1, <1>2, <1>4 DEF Kept, Pending
<1> QED
  BY <1>1, <1>3, <1>5 DEF Types, CodeBeforeSite, PayloadBeforeTool

(* What it reads is code, and the game's own where that was asked for.     *)
LEMMA ManagerReadsStep ==
    ASSUME WriterInv, NEW s \in Sites, NEW h \in written,
           NEW e \in {"SetCarCfg", "not given"}, Redirects(s, h, e)
    PROVE  WriterInv'
<1> USE DEF WriterInv
<1>1. /\ manager' = <<[site |-> s, original |-> site[s], handler |-> h]>>
      /\ UNCHANGED <<site, written, job, active>>
      /\ careless' = (careless \/ e = "not given")
      /\ Matches(s, e) /\ h \in Held(s)
  BY DEF Redirects, memory, Held, Callable
<1>2. site[s] \in Held(s)
  BY DEF SitesHoldCode
<1>3. /\ careless' \in BOOLEAN
      /\ ~careless' => ~careless /\ site[s] = "SetCarCfg"
  BY <1>1 DEF Matches, Types
<1>4. \A x : Held(x)' = Held(x)
  BY <1>1 DEF Held, Callable
<1>5. Pending'
  BY <1>1, <1>2, <1>3, <1>4 DEF Pending
<1>6. Kept'
  BY <1>1, <1>3, <1>4 DEF Kept
<1>7. SitesHoldCode'
  BY <1>1, SitesAlone
<1> QED
  BY <1>1, <1>3, <1>5, <1>6, <1>7 DEF Types, CodeBeforeSite, PayloadBeforeTool

LEMMA WriterStep == WriterInv /\ [Next]_vars => WriterInv'
<1> SUFFICES ASSUME WriterInv, [Next]_vars PROVE WriterInv'
  OBVIOUS
<1> USE DEF WriterInv
<1>1. CASE ApplyPnach
  <2>1. /\ written' = written \cup {"handler"}
        /\ site' = [site EXCEPT !["first"] = "handler"]
        /\ UNCHANGED <<job, manager, active, careless>>
    BY <1>1 DEF ApplyPnach, writers
  <2>2. Pending' /\ Kept'
    BY <2>1, ManagerAlone
  <2>3. SitesHoldCode' /\ DOMAIN site' = Sites
    BY <2>1, MoreCode DEF SitesHoldCode, Types, Held, Callable, Sites, CallSites
  <2> QED
    BY <2>1, <2>2, <2>3 DEF Types, CodeBeforeSite, PayloadBeforeTool
<1>2. ASSUME NEW t \in Tools, Install(t) PROVE WriterInv'
  <2>1. /\ job' = [job EXCEPT ![t] = <<"code", "ring", "site">>]
        /\ site[t] = Original[t]
        /\ UNCHANGED <<site, written, manager, active, careless>>
    BY <1>2 DEF Install, InstallOrder, memory
  <2>2. Pending' /\ Kept' /\ SitesHoldCode'
    BY <2>1, ManagerAlone, SitesAlone
  <2>3. t = "first" => "handler" \in written
    BY <2>1 DEF SitesHoldCode, Held, Callable, Original, Sites, CallSites
  <2>4. Types' /\ CodeBeforeSite'
    BY <2>1 DEF Types, CodeBeforeSite, Jobs
  <2>5. PayloadBeforeTool'
    BY <2>1, <2>3 DEF Types, PayloadBeforeTool
  <2> QED
    BY <2>2, <2>4, <2>5
<1>3. ASSUME NEW t \in Tools, Restore(t) PROVE WriterInv'
  <2>1. /\ job' = [job EXCEPT ![t] = <<"back">>]
        /\ t = "second" \/ site[t] = Trampoline[t]
        /\ UNCHANGED <<site, written, manager, active, careless>>
    BY <1>3 DEF Restore, memory
  <2>2. Pending' /\ Kept' /\ SitesHoldCode'
    BY <2>1, ManagerAlone, SitesAlone
  <2>3. t = "first" => "handler" \in written
    BY <2>1 DEF SitesHoldCode, Held, Callable, Trampoline, PayloadBeforeTool,
                Sites, CallSites
  <2>4. Types' /\ CodeBeforeSite'
    BY <2>1 DEF Types, CodeBeforeSite, Jobs
  <2>5. PayloadBeforeTool'
    BY <2>1, <2>3 DEF Types, PayloadBeforeTool
  <2> QED
    BY <2>2, <2>4, <2>5
<1>4. ASSUME NEW t \in Tools, Write(t) PROVE WriterInv'
  BY <1>4, WriteStep
<1>5. ASSUME NEW t \in Tools, Fail(t) PROVE WriterInv'
  <2>1. /\ job' = [job EXCEPT ![t] = <<>>]
        /\ UNCHANGED <<site, written, manager, active, careless>>
    BY <1>5 DEF Fail, memory
  <2>2. Pending' /\ Kept' /\ SitesHoldCode'
    BY <2>1, ManagerAlone, SitesAlone
  <2> QED
    BY <2>1, <2>2 DEF Types, CodeBeforeSite, PayloadBeforeTool, Jobs
<1>6. CASE ManagerWrites
  BY <1>6, ManagerWritesStep
<1>7. ASSUME NEW s \in Sites, ManagerRestores(s) PROVE WriterInv'
  BY <1>7, ManagerRestoresStep
<1>8. ASSUME NEW s \in Sites, NEW h \in written,
             \/ \E e \in {"SetCarCfg", "not given"} : ManagerReads(s, h, e)
             \/ PatchJal(s, h)
      PROVE  WriterInv'
  BY <1>8, ManagerReadsStep DEF PatchJal, ManagerReads
<1>9. CASE UNCHANGED <<site, written, writers>>
  <2>1. Pending' /\ Kept' /\ SitesHoldCode'
    BY <1>9, ManagerAlone, SitesAlone DEF writers
  <2> QED
    BY <1>9, <2>1 DEF writers, Types, CodeBeforeSite, PayloadBeforeTool
<1>10. Execute \/ (\E s \in Sites : Call(s)) \/ UNCHANGED vars
         => UNCHANGED <<site, written, writers>>
  BY DEF Execute, Jalr, Push, KeepRa, Pop, Return, Work, Stash, Index,
         Unstash, Resume, Store, Computes, Call, memory, vars
<1> QED
  BY <1>1, <1>2, <1>3, <1>4, <1>5, <1>6, <1>7, <1>8, <1>9, <1>10 DEF Next

-----------------------------------------------------------------------------
(* The processor.  A routine is entered with a return address b and with s  *)
(* on the stack; each operator says where in it, or in what it calls, the  *)
(* processor may be.                                                       *)

\* The return addresses of a call: the caller's, and those in our routines.
Frames == {Home, <<"T1", 6>>, <<"T2", 6>>, <<"handler", 3>>}
CpuFields == {"pc", "ra", "args", "saved", "stack", "scratch", "site", "visits",
              "number"}

Before == cpu.args = "given" /\ cpu.visits = <<>>
After == cpu.visits = <<<<"SetCarCfg", "given">>>>

At(routine, i, ra, stack) ==
    cpu.pc = <<routine, i>> /\ cpu.ra = ra /\ cpu.stack = stack

InSetCarCfg(b, s) ==
    \/ At("SetCarCfg", 1, b, s) /\ Before
    \/ At("SetCarCfg", 2, b, s) /\ After

InHandler(b, s) ==
    \/ At("handler", 1, b, s) /\ Before
    \/ At("handler", 2, b, Append(s, b)) /\ Before
    \/ InSetCarCfg(<<"handler", 3>>, Append(s, b))
    \/ At("handler", 3, <<"handler", 3>>, Append(s, b)) /\ After
    \/ At("handler", 4, b, s) /\ After

\* The steps of a trampoline, but for those of the routine it calls.
InTrampoline(t, b, s) ==
    \/ At(t, 1, b, s) /\ Before
    \/ \E i \in {2, 3, 4, 5} : At(t, i, b, Append(s, b)) /\ Before
    \/ At(t, 6, <<t, 6>>, Append(s, b)) /\ After
    \/ At(t, 7, b, s) /\ After

InT1(b, s) == InTrampoline("T1", b, s) \/ InHandler(<<"T1", 6>>, Append(s, b))
InT2(b, s) == InTrampoline("T2", b, s) \/ InSetCarCfg(<<"T2", 6>>, Append(s, b))

\* About to return from it, the callee done and the stack as it was.
Leaves(b, s) == Return /\ cpu.ra = b /\ cpu.stack = s /\ After

OnTheWay ==
    \/ InSetCarCfg(Home, <<>>)
    \/ InHandler(Home, <<>>)
    \/ InT1(Home, <<>>)
    \/ InT2(Home, <<>>)

CpuInv ==
    /\ DOMAIN cpu = CpuFields
    /\ cpu.site \in CallSites => OnTheWay /\ cpu.saved = "kept"

LEMMA FramesFacts ==
    /\ Home \in Frames /\ <<>> \in Seq(Frames)
    /\ \A f \in {<<"T1", 6>>, <<"T2", 6>>, <<"handler", 3>>} : f \in Frames /\ f # Home
<1>1. \A f \in {<<"T1", 6>>, <<"T2", 6>>, <<"handler", 3>>} : f[1] # Home[1]
  BY DEF Home
<1> QED
  BY <1>1 DEF Frames

(* What is pushed is what is popped.                                       *)
LEMMA PushPop ==
    ASSUME NEW s \in Seq(Frames), NEW b \in Frames
    PROVE  /\ Append(s, b) \in Seq(Frames)
           /\ Append(s, b) # <<>>
           /\ Last(Append(s, b)) = b
           /\ Front(Append(s, b)) = s
<1>1. /\ Append(s, b) \in Seq(Frames)
      /\ Len(Append(s, b)) = Len(s) + 1
      /\ Append(s, b)[Len(s) + 1] = b
      /\ \A i \in 1..Len(s) : Append(s, b)[i] = s[i]
  OBVIOUS
<1>2. Last(Append(s, b)) = b
  BY <1>1 DEF Last
<1>3. Front(Append(s, b)) = s
  BY <1>1 DEF Front
<1> QED
  BY <1>1, <1>2, <1>3

(* The step a routine is at.                                               *)
LEMMA StepAt ==
    /\ cpu.pc = <<"SetCarCfg", 1>> => Step = "work"
    /\ cpu.pc = <<"SetCarCfg", 2>> => Step = "return"
    /\ cpu.pc = <<"handler", 1>> => Step = "push"
    /\ cpu.pc = <<"handler", 2>> => Step = "SetCarCfg"
    /\ cpu.pc = <<"handler", 3>> => Step = "pop"
    /\ cpu.pc = <<"handler", 4>> => Step = "return"
BY DEF Step, Steps, Routine, Home, HandlerSteps

LEMMA TrampolineStepAt ==
    ASSUME NEW t \in {"T1", "T2"}
    PROVE  /\ cpu.pc = <<t, 1>> => Step = "push"
           /\ cpu.pc = <<t, 2>> => Step = "count"
           /\ cpu.pc = <<t, 3>> => Step = "head"
           /\ cpu.pc = <<t, 4>> => Step = "record"
           /\ cpu.pc = <<t, 5>> => Step = IF t = "T1" THEN "handler" ELSE "SetCarCfg"
           /\ cpu.pc = <<t, 6>> => Step = "pop"
           /\ cpu.pc = <<t, 7>> => Step = "return"
<1>1. Steps[t] = <<"push", "count", "head", "record",
                  IF t = "T1" THEN "handler" ELSE "SetCarCfg", "pop", "return">>
  BY DEF Steps, Forwarding
<1>2. Len(Steps[t]) = 7
  BY <1>1
<1>3. ASSUME NEW i \in 1..7, cpu.pc = <<t, i>> PROVE Step = Steps[t][i]
  BY <1>2, <1>3 DEF Step, Routine, Home
<1> QED
  BY <1>1, <1>3

(* The step decides which action there is.                                 *)
LEMMA StepDecides ==
    Execute => /\ Step = "work" => Work
               /\ Step = "return" => Return
               /\ Step = "push" => Push
               /\ Step = "pop" => Pop
               /\ Step \in {"count", "head", "record"} => Store
               /\ Step \in {"handler", "SetCarCfg"} => Jalr
BY DEF Execute, Jalr, Push, KeepRa, Pop, Return, Work, Stash, Index, Unstash,
       Resume, Store, Steps

(* What no step of a call changes.                                         *)
Goes == DOMAIN cpu' = CpuFields /\ cpu'.saved = cpu.saved /\ cpu'.site = cpu.site

LEMMA Returns ==
    ASSUME DOMAIN cpu = CpuFields, NEW b, NEW s, b # Home, Leaves(b, s)
    PROVE  Goes /\ cpu'.pc = b /\ cpu'.ra = b /\ cpu'.stack = s /\ After'
BY DEF Leaves, Return, Computes, Goes, After, CpuFields

LEMMA SetCarCfgStep ==
    ASSUME DOMAIN cpu = CpuFields, NEW b, NEW s, InSetCarCfg(b, s), Execute
    PROVE  (Goes /\ InSetCarCfg(b, s)') \/ Leaves(b, s)
<1>1. CASE At("SetCarCfg", 1, b, s) /\ Before
  <2>1. Work /\ Step = "work"
    BY <1>1, StepAt, StepDecides DEF At
  <2>2. cpu' = [cpu EXCEPT !.visits = Append(<<>>, <<"SetCarCfg", "given">>),
                           !.args = "lost", !.pc = <<"SetCarCfg", 2>>]
    BY <1>1, <2>1 DEF Work, Computes, Next1, Routine, At, Before
  <2>3. Append(<<>>, <<"SetCarCfg", "given">>) = <<<<"SetCarCfg", "given">>>>
    OBVIOUS
  <2> QED
    BY <1>1, <2>2, <2>3 DEF Goes, InSetCarCfg, At, After, CpuFields
<1>2. CASE At("SetCarCfg", 2, b, s) /\ After
  BY <1>2, StepAt, StepDecides DEF At, Leaves
<1> QED
  BY <1>1, <1>2 DEF InSetCarCfg

LEMMA HandlerStep ==
    ASSUME DOMAIN cpu = CpuFields, NEW b \in Frames, NEW s \in Seq(Frames),
           InHandler(b, s), Execute
    PROVE  (Goes /\ InHandler(b, s)') \/ Leaves(b, s)
<1>1. CASE At("handler", 1, b, s) /\ Before
  <2>1. Push
    BY <1>1, StepAt, StepDecides DEF At
  <2> QED
    BY <1>1, <2>1 DEF Push, PushedRa, Computes, Next1, Routine, At, Before, Goes,
                      InHandler, CpuFields
<1>2. CASE At("handler", 2, b, Append(s, b)) /\ Before
  <2>1. Jalr /\ Step = "SetCarCfg"
    BY <1>2, StepAt, StepDecides DEF At
  <2>2. cpu' = [cpu EXCEPT !.ra = <<"handler", 3>>, !.pc = <<"SetCarCfg", 1>>]
    BY <1>2, <2>1 DEF Jalr, Computes, Next1, Routine, At
  <2> QED
    BY <1>2, <2>2 DEF At, Before, Goes, InHandler, InSetCarCfg, CpuFields
<1>3. CASE InSetCarCfg(<<"handler", 3>>, Append(s, b))
  <2>1. CASE Leaves(<<"handler", 3>>, Append(s, b))
    BY <2>1, FramesFacts, Returns DEF InHandler, At
  <2> QED
    BY <1>3, <2>1, SetCarCfgStep DEF InHandler
<1>4. CASE At("handler", 3, <<"handler", 3>>, Append(s, b)) /\ After
  <2>1. Pop
    BY <1>4, StepAt, StepDecides DEF At
  <2>2. Last(cpu.stack) = b /\ Front(cpu.stack) = s
    BY <1>4, PushPop DEF At
  <2>3. cpu' = [cpu EXCEPT !.ra = b, !.stack = s, !.pc = <<"handler", 4>>]
    BY <1>4, <2>1, <2>2 DEF Pop, Computes, Next1, Routine, At
  <2> QED
    BY <1>4, <2>3 DEF At, After, Goes, InHandler, CpuFields
<1>5. CASE At("handler", 4, b, s) /\ After
  BY <1>5, StepAt, StepDecides DEF At, Leaves
<1> QED
  BY <1>1, <1>2, <1>3, <1>4, <1>5 DEF InHandler

(* The steps that both trampolines have.                                   *)
LEMMA TrampolineStep ==
    ASSUME DOMAIN cpu = CpuFields, NEW t \in {"T1", "T2"},
           NEW b \in Frames, NEW s \in Seq(Frames),
           InTrampoline(t, b, s), ~(cpu.pc = <<t, 5>>), Execute
    PROVE  (Goes /\ InTrampoline(t, b, s)') \/ Leaves(b, s)
<1>1. CASE At(t, 1, b, s) /\ Before
  <2>1. Push
    BY <1>1, TrampolineStepAt, StepDecides DEF At
  <2> QED
    BY <1>1, <2>1 DEF Push, PushedRa, Computes, Next1, Routine, At, Before, Goes,
                      InTrampoline, CpuFields
<1>2. ASSUME NEW i \in {2, 3, 4, 5}, At(t, i, b, Append(s, b)) /\ Before
      PROVE  Goes /\ InTrampoline(t, b, s)'
  <2>1. i \in {2, 3, 4}
    BY <1>2 DEF At
  <2>2. Store
    BY <1>2, <2>1, TrampolineStepAt, StepDecides DEF At
  <2>3. cpu' = [cpu EXCEPT !.pc = <<t, i + 1>>]
    BY <1>2, <2>2 DEF Store, AfterStore, Next1, Routine, At
  <2>4. i + 1 \in {2, 3, 4, 5} /\ At(t, i + 1, b, Append(s, b))' /\ Before'
    BY <1>2, <2>1, <2>3 DEF At, Before, CpuFields
  <2> QED
    BY <2>3, <2>4 DEF Goes, InTrampoline, CpuFields
<1>3. CASE At(t, 6, <<t, 6>>, Append(s, b)) /\ After
  <2>1. Pop
    BY <1>3, TrampolineStepAt, StepDecides DEF At
  <2>2. Last(cpu.stack) = b /\ Front(cpu.stack) = s
    BY <1>3, PushPop DEF At
  <2>3. cpu' = [cpu EXCEPT !.ra = b, !.stack = s, !.pc = <<t, 7>>]
    BY <1>3, <2>1, <2>2 DEF Pop, Computes, Next1, Routine, At
  <2> QED
    BY <1>3, <2>3 DEF At, After, Goes, InTrampoline, CpuFields
<1>4. CASE At(t, 7, b, s) /\ After
  BY <1>4, TrampolineStepAt, StepDecides DEF At, Leaves
<1> QED
  BY <1>1, <1>2, <1>3, <1>4 DEF InTrampoline

(* The call of the one chains through the payload's handler, that of the   *)
(* other goes to SetCarCfg itself.                                         *)
LEMMA CallingStep ==
    ASSUME DOMAIN cpu = CpuFields, NEW t \in {"T1", "T2"}, NEW b, NEW s,
           At(t, 5, b, Append(s, b)), Before, Execute
    PROVE  /\ Goes /\ Before'
           /\ At(IF t = "T1" THEN "handler" ELSE "SetCarCfg", 1,
                 <<t, 6>>, Append(s, b))'
<1>1. Jalr /\ Step = IF t = "T1" THEN "handler" ELSE "SetCarCfg"
  BY TrampolineStepAt, StepDecides DEF At
<1>2. cpu' = [cpu EXCEPT !.ra = <<t, 6>>,
                         !.pc = <<IF t = "T1" THEN "handler" ELSE "SetCarCfg", 1>>]
  BY <1>1 DEF Jalr, Computes, Next1, Routine, At
<1> QED
  BY <1>2 DEF At, Before, Goes, CpuFields

LEMMA AtTheCall ==
    ASSUME NEW t, NEW b, NEW s, InTrampoline(t, b, s), cpu.pc = <<t, 5>>
    PROVE  At(t, 5, b, Append(s, b)) /\ Before
BY DEF InTrampoline, At

LEMMA T1Step ==
    ASSUME DOMAIN cpu = CpuFields, NEW b \in Frames, NEW s \in Seq(Frames),
           InT1(b, s), Execute
    PROVE  (Goes /\ InT1(b, s)') \/ Leaves(b, s)
<1>0. <<"T1", 6>> \in Frames /\ Append(s, b) \in Seq(Frames) /\ <<"T1", 6>> # Home
  BY PushPop, FramesFacts
<1>1. CASE InTrampoline("T1", b, s) /\ cpu.pc = <<"T1", 5>>
  BY <1>1, AtTheCall, CallingStep DEF InT1, InHandler
<1>2. CASE InTrampoline("T1", b, s) /\ ~(cpu.pc = <<"T1", 5>>)
  BY <1>2, TrampolineStep DEF InT1
<1>3. CASE InHandler(<<"T1", 6>>, Append(s, b))
  <2>1. CASE Leaves(<<"T1", 6>>, Append(s, b))
    BY <1>0, <2>1, Returns DEF InT1, InTrampoline, At
  <2> QED
    BY <1>0, <1>3, <2>1, HandlerStep DEF InT1
<1> QED
  BY <1>1, <1>2, <1>3 DEF InT1

LEMMA T2Step ==
    ASSUME DOMAIN cpu = CpuFields, NEW b \in Frames, NEW s \in Seq(Frames),
           InT2(b, s), Execute
    PROVE  (Goes /\ InT2(b, s)') \/ Leaves(b, s)
<1>1. CASE InTrampoline("T2", b, s) /\ cpu.pc = <<"T2", 5>>
  BY <1>1, AtTheCall, CallingStep DEF InT2, InSetCarCfg
<1>2. CASE InTrampoline("T2", b, s) /\ ~(cpu.pc = <<"T2", 5>>)
  BY <1>2, TrampolineStep DEF InT2
<1>3. CASE InSetCarCfg(<<"T2", 6>>, Append(s, b))
  <2>1. CASE Leaves(<<"T2", 6>>, Append(s, b))
    BY <2>1, FramesFacts, Returns DEF InT2, InTrampoline, At
  <2> QED
    BY <1>3, <2>1, SetCarCfgStep DEF InT2
<1> QED
  BY <1>1, <1>2, <1>3 DEF InT2

(* So a call of SetCarCfg stays on its way until it is done.               *)
LEMMA OnTheWayStep ==
    ASSUME DOMAIN cpu = CpuFields, OnTheWay, Execute
    PROVE  (Goes /\ OnTheWay') \/ Leaves(Home, <<>>)
BY FramesFacts, SetCarCfgStep, HandlerStep, T1Step, T2Step DEF OnTheWay

(* Any step of the processor, whatever it is in.                           *)
LEMMA ExecuteKeeps ==
    ASSUME DOMAIN cpu = CpuFields, Execute
    PROVE  DOMAIN cpu' = CpuFields /\ cpu'.site \in {cpu.site, "none"}
BY DEF Execute, Jalr, Push, KeepRa, Pop, Return, Work, Stash, Index, Unstash,
       Resume, Store, AfterStore, Computes, Idle, CpuFields

LEMMA NothingElseRuns ==
    [Next]_vars => \/ Execute
                   \/ \E s \in Sites : Call(s)
                   \/ UNCHANGED cpu
BY DEF Next, ApplyPnach, ManagerWrites, ManagerRestores, ManagerReads, PatchJal, Redirects,
       Install, Restore, Write, Fail, vars

LEMMA CpuInit == Init => CpuInv
BY DEF Init, CpuInv, Idle, CpuFields, CallSites

LEMMA CpuStep == WriterInv /\ CpuInv /\ [Next]_vars => CpuInv'
<1> SUFFICES ASSUME WriterInv, CpuInv, [Next]_vars PROVE CpuInv'
  OBVIOUS
<1>1. CASE Execute
  <2>1. DOMAIN cpu' = CpuFields /\ cpu'.site \in {cpu.site, "none"}
    BY <1>1, ExecuteKeeps DEF CpuInv
  <2>2. ASSUME cpu'.site \in CallSites PROVE OnTheWay' /\ cpu'.saved = "kept"
    <3>1. cpu.site \in CallSites /\ OnTheWay /\ cpu.saved = "kept"
      BY <2>1, <2>2 DEF CpuInv, CallSites
    <3>2. ~Leaves(Home, <<>>)
      BY <2>2 DEF Leaves, Return, Computes, Idle, CallSites
    <3> QED
      BY <1>1, <3>1, <3>2, OnTheWayStep DEF CpuInv, Goes
  <2> QED
    BY <2>1, <2>2 DEF CpuInv
<1>2. ASSUME NEW s \in Sites, Call(s) PROVE CpuInv'
  <2>1. /\ DOMAIN cpu' = CpuFields /\ cpu'.site = s
        /\ cpu'.pc = <<site[s], 1>> /\ cpu'.stack = <<>>
        /\ cpu'.args = "given" /\ cpu'.visits = <<>> /\ cpu'.saved = "kept"
        /\ s # "entry" => cpu'.ra = Home
    BY <1>2 DEF Call, Computes, Idle, CpuFields
  <2>2. ASSUME s \in CallSites PROVE OnTheWay'
    <3>1. At(site[s], 1, Home, <<>>)' /\ Before'
      BY <1>2, <2>1, <2>2 DEF At, Before, CallSites, Call, Computes, memory
    <3>2. site[s] \in {"SetCarCfg", "handler", "T1", "T2"}
      BY <2>2 DEF WriterInv, Types, SitesHoldCode, Held, Callable, CallSites
    <3>3. site'[s] = site[s]
      BY <1>2 DEF Call, Computes, memory
    <3> QED
      BY <3>1, <3>2, <3>3
         DEF OnTheWay, InSetCarCfg, InHandler, InT1, InT2, InTrampoline
  <2> QED
    BY <2>1, <2>2 DEF CpuInv
<1>3. CASE UNCHANGED cpu
  BY <1>3 DEF CpuInv, OnTheWay, InSetCarCfg, InHandler, InT1, InT2,
              InTrampoline, At, Before, After
<1> QED
  BY <1>1, <1>2, <1>3, NothingElseRuns

(* The game never jumps to an address where our code is not yet written,   *)
(* however installations, removals and redirections interleave and         *)
(* wherever one of them is given up.                                       *)
THEOREM JumpsIntoCodeTheorem == Spec => []JumpsIntoCode
<1>1. WriterInv => JumpsIntoCode
  BY DEF WriterInv, SitesHoldCode, Held, Callable, GameRoutines, JumpsIntoCode
<1> QED
  BY <1>1, WriterInit, WriterStep, PTL DEF Spec

(* As long as every redirection was made with the expected original given, *)
(* a restore of HookManager makes the site call SetCarCfg again.           *)
THEOREM RestoreUndoesTheorem == Spec => RestoreUndoes
<1>1. WriterInv /\ [Next]_vars =>
        [\A s \in CallSites :
            (~careless /\ ManagerRestores(s)) => site'[s] = "SetCarCfg"]_vars
  BY DEF WriterInv, Types, Kept, ManagerRestores, Sites
<1> QED
  BY <1>1, WriterInit, WriterStep, PTL DEF Spec, RestoreUndoes
(* A call of SetCarCfg that comes back has reached SetCarCfg once, with the *)
(* caller's arguments, and left its registers and its stack as they were,  *)
(* whatever was done to the sites and the rings while it was on its way.   *)
THEOREM CallsAreTransparentTheorem == Spec => CallsAreTransparent
<1>1. WriterInv /\ CpuInv /\ [Next]_vars =>
        [\A s \in CallSites :
            (cpu.site = s /\ cpu'.site = "none") =>
               /\ cpu.visits = <<<<"SetCarCfg", "given">>>>
               /\ cpu.stack = <<>> /\ cpu.saved = "kept"]_vars
  <2> SUFFICES ASSUME CpuInv, [Next]_vars, NEW s \in CallSites,
                      cpu.site = s, cpu'.site = "none"
               PROVE  /\ cpu.visits = <<<<"SetCarCfg", "given">>>>
                      /\ cpu.stack = <<>> /\ cpu.saved = "kept"
    OBVIOUS
  <2>1. cpu'.site # cpu.site /\ cpu.site # "none"
    BY DEF CallSites
  <2>2. Execute
    BY <2>1, NothingElseRuns DEF Call
  <2>3. OnTheWay /\ cpu.saved = "kept" /\ DOMAIN cpu = CpuFields
    BY DEF CpuInv
  <2>4. Leaves(Home, <<>>)
    BY <2>1, <2>2, <2>3, OnTheWayStep DEF Goes
  <2> QED
    BY <2>3, <2>4 DEF Leaves, After
<1> QED
  BY <1>1, WriterInit, WriterStep, CpuInit, CpuStep, PTL
     DEF Spec, CallsAreTransparent
-----------------------------------------------------------------------------
(* The rings.  What a place's step is, and where a step leads: in between   *)
(* the stores of a trampoline there is only the way from one to the next.  *)
LEMMA ProbeStepAt ==
    /\ cpu.pc = <<"probe", 1>> => Step = "stash"
    /\ cpu.pc = <<"probe", 2>> => Step = "index"
    /\ cpu.pc = <<"probe", 3>> => Step = "count"
    /\ cpu.pc = <<"probe", 4>> => Step = "head"
    /\ cpu.pc = <<"probe", 5>> => Step = "record"
    /\ cpu.pc = <<"probe", 6>> => Step = "unstash"
    /\ cpu.pc = <<"probe", 7>> => Step = "push"
    /\ cpu.pc = <<"probe", 8>> => Step = "resume"
<1>1. Steps["probe"] = <<"stash", "index", "count", "head", "record", "unstash",
                        "push", "resume">>
  BY DEF Steps, ProbeSteps
<1>2. Len(Steps["probe"]) = 8
  BY <1>1
<1>3. ASSUME NEW i \in 1..8, cpu.pc = <<"probe", i>> PROVE Step = Steps["probe"][i]
  BY <1>2, <1>3 DEF Step, Routine, Home
<1> QED
  BY <1>1, <1>3

LEMMA DisplayStepAt ==
    /\ cpu.pc = <<"display", 1>> => Step = "push"
    /\ cpu.pc = <<"display", 2>> => Step = "body"
    /\ cpu.pc = <<"display", 3>> => Step = "keep_ra"
    /\ cpu.pc = <<"display", 4>> => Step = "pop"
    /\ cpu.pc = <<"display", 5>> => Step = "return"
<1>1. Steps["display"] = <<"push", "body", "keep_ra", "pop", "return">>
  BY DEF Steps
<1>2. Len(Steps["display"]) = 5
  BY <1>1
<1>3. ASSUME NEW i \in 1..5, cpu.pc = <<"display", i>> PROVE Step = Steps["display"][i]
  BY <1>2, <1>3 DEF Step, Routine, Home
<1> QED
  BY <1>1, <1>3

\* The places of our routines and of the game's.
Length == [T1 |-> 7, T2 |-> 7, probe |-> 8, handler |-> 4, SetCarCfg |-> 2, display |-> 5]
Addresses == Frames \cup {<<"display", 3>>}

PlaceInv ==
    /\ DOMAIN cpu = CpuFields
    /\ cpu.ra \in Addresses /\ cpu.stack \in Seq(Addresses)
    /\ cpu.scratch = <<>> \/ \E a \in Addresses : cpu.scratch = <<a>>
    /\ cpu.number \in Nat
    /\ cpu.site = "none" => cpu.pc = Home
    /\ cpu.pc # Home =>
          /\ cpu.number > 0
          /\ \E r \in DOMAIN Length : \E i \in 1..Length[r] :
                /\ cpu.pc = <<r, i>>
                /\ r = "probe" /\ i > 1 => cpu.scratch # <<>>

\* Where the ring of that name has been counted up already, and moved on.
HeadAt == [cfg |-> {<<"T1", 3>>, <<"T2", 3>>}, display |-> {<<"probe", 4>>}]
RecordAt == [cfg |-> {<<"T1", 4>>, <<"T2", 4>>}, display |-> {<<"probe", 5>>}]
Rings == {"cfg", "display"}
Between(name) == cpu.pc \in HeadAt[name] \cup RecordAt[name]

(* A place tells the step, and a step where the processor may be.          *)
LEMMA Places ==
    ASSUME PlaceInv
    PROVE  /\ Step = "push" =>
                 cpu.pc \in {<<"T1", 1>>, <<"T2", 1>>, <<"handler", 1>>, <<"probe", 7>>,
                             <<"display", 1>>}
           /\ Step = "count" => cpu.pc \in {<<"T1", 2>>, <<"T2", 2>>, <<"probe", 3>>}
           /\ Step = "head" => cpu.pc \in {<<"T1", 3>>, <<"T2", 3>>, <<"probe", 4>>}
           /\ Step = "record" => cpu.pc \in {<<"T1", 4>>, <<"T2", 4>>, <<"probe", 5>>}
           /\ Step \in DOMAIN Steps =>
                 /\ cpu.pc \in {<<"T1", 5>>, <<"T2", 5>>, <<"handler", 2>>}
                 /\ Step \in {"handler", "SetCarCfg"}
           /\ Step = "pop" =>
                 cpu.pc \in {<<"T1", 6>>, <<"T2", 6>>, <<"handler", 3>>, <<"display", 4>>}
           /\ Step = "work" => cpu.pc = <<"SetCarCfg", 1>>
           /\ Step = "body" => cpu.pc = <<"display", 2>>
           /\ Step = "keep_ra" => cpu.pc = <<"display", 3>>
           /\ Step = "stash" => cpu.pc = <<"probe", 1>>
           /\ Step = "index" => cpu.pc = <<"probe", 2>>
           /\ Step = "unstash" => cpu.pc = <<"probe", 6>>
           /\ Step # "none" => cpu.pc # Home
<1>0. DOMAIN Steps = {"T1", "T2", "probe", "handler", "SetCarCfg", "display"}
  BY DEF Steps
<1>1. CASE cpu.pc = Home
  BY <1>0, <1>1 DEF Step
<1>2. CASE cpu.pc # Home
  <2>1. PICK r \in DOMAIN Length : \E j \in 1..Length[r] : cpu.pc = <<r, j>>
    BY <1>2 DEF PlaceInv
  <2>i. PICK i \in 1..Length[r] : cpu.pc = <<r, i>>
    BY <2>1
  <2>2. CASE r \in {"T1", "T2"}
    <3>1. i \in {1, 2, 3, 4, 5, 6, 7}
      BY <2>i, <2>2 DEF Length
    <3> QED
      BY <1>0, <1>2, <2>i, <2>2, <3>1, TrampolineStepAt
  <2>3. CASE r = "probe"
    <3>1. i \in {1, 2, 3, 4, 5, 6, 7, 8}
      BY <2>i, <2>3 DEF Length
    <3> QED
      BY <1>0, <1>2, <2>i, <2>3, <3>1, ProbeStepAt
  <2>4. CASE r = "display"
    <3>1. i \in {1, 2, 3, 4, 5}
      BY <2>i, <2>4 DEF Length
    <3> QED
      BY <1>0, <1>2, <2>i, <2>4, <3>1, DisplayStepAt
  <2>5. CASE r \in {"handler", "SetCarCfg"}
    <3>1. \/ r = "handler" /\ i \in {1, 2, 3, 4}
          \/ r = "SetCarCfg" /\ i \in {1, 2}
      BY <2>i, <2>5 DEF Length
    <3> QED
      BY <1>0, <1>2, <2>i, <3>1, StepAt
  <2> QED
    BY <2>1, <2>2, <2>3, <2>4, <2>5 DEF Length
<1> QED
  BY <1>1, <1>2

\* What a step that goes to the next place, or to a given one, keeps.
LEMMA Onwards ==
    ASSUME PlaceInv, NEW r \in DOMAIN Length, NEW i \in Nat, i \in 1..Length[r],
           cpu'.pc = <<r, i>>, r = "probe" /\ i > 1 => cpu'.scratch # <<>>,
           DOMAIN cpu' = CpuFields, cpu'.ra \in Addresses, cpu'.stack \in Seq(Addresses),
           cpu'.scratch = <<>> \/ \E a \in Addresses : cpu'.scratch = <<a>>,
           cpu'.number \in Nat, cpu'.number > 0, cpu'.site # "none"
    PROVE  PlaceInv'
BY DEF PlaceInv

\* The return addresses, and what is pushed and popped of them.
LEMMA AddressStacks ==
    ASSUME NEW s \in Seq(Addresses), NEW a \in Addresses
    PROVE  /\ Append(s, a) \in Seq(Addresses)
           /\ s # <<>> => Last(s) \in Addresses /\ Front(s) \in Seq(Addresses)
           /\ s # <<>> => Append(Front(s), a) \in Seq(Addresses)
<1>1. Append(s, a) \in Seq(Addresses)
  OBVIOUS
<1>2. ASSUME s # <<>> PROVE Last(s) \in Addresses /\ Front(s) \in Seq(Addresses)
  <2>1. Len(s) \in Nat \ {0}
    BY <1>2, EmptySeq
  <2>2. Last(s) \in Addresses
    BY <2>1, ElementOfSeq DEF Last
  <2>3. \A i \in 1..(Len(s) - 1) : s[i] \in Addresses
    BY <2>1, ElementOfSeq
  <2>4. Front(s) \in Seq(Addresses)
    BY <2>1, <2>3, SubSeqProperties DEF Front
  <2> QED
    BY <2>2, <2>4
<1> QED
  BY <1>1, <1>2

LEMMA AddressPlaces ==
    ASSUME NEW a \in Addresses, a # Home
    PROVE  \E r \in DOMAIN Length \ {"probe"} : \E i \in 5..7 \cup {3} :
              /\ i \in 1..Length[r] /\ a = <<r, i>>
              /\ <<r, i>> \notin {<<"T1", 3>>, <<"T2", 3>>, <<"T1", 4>>, <<"T2", 4>>}
BY DEF Addresses, Frames, Length

LEMMA BetweenStores ==
    ASSUME NEW name \in Rings, Between(name)
    PROVE  /\ Step \in {"head", "record"}
           /\ cpu.pc \in {<<"T1", 3>>, <<"T2", 3>>, <<"probe", 4>>,
                          <<"T1", 4>>, <<"T2", 4>>, <<"probe", 5>>}
BY TrampolineStepAt, ProbeStepAt DEF Between, HeadAt, RecordAt, Rings

\* A step to the next place, and what it may change meanwhile.
LEMMA NextPlace ==
    ASSUME PlaceInv, Step # "none",
           DOMAIN cpu' = CpuFields, cpu'.pc = Next1,
           cpu'.ra \in Addresses, cpu'.stack \in Seq(Addresses),
           cpu'.scratch = cpu.scratch \/ \E a \in Addresses : cpu'.scratch = <<a>>,
           cpu'.number = cpu.number, cpu'.site = cpu.site,
           NEW r \in DOMAIN Length, NEW i \in Nat, i \in 1..(Length[r] - 1),
           cpu.pc = <<r, i>>, r = "probe" /\ i = 1 => cpu'.scratch # <<>>
    PROVE  PlaceInv' /\ cpu'.pc = <<r, i + 1>>
<1>1. cpu'.pc = <<r, i + 1>>
  BY DEF Next1, Routine
<1>2. i + 1 \in Nat /\ i + 1 \in 1..Length[r]
  BY DEF Length
<1>3. cpu.pc # Home
  BY Places
<1>4. PICK q \in DOMAIN Length : \E j \in 1..Length[q] :
         cpu.pc = <<q, j>> /\ (q = "probe" /\ j > 1 => cpu.scratch # <<>>)
  BY <1>3 DEF PlaceInv
<1>5. r = "probe" /\ i > 1 => cpu.scratch # <<>>
  BY <1>4
<1>6. r = "probe" => cpu'.scratch # <<>>
  <2>1. \A a \in Addresses : <<a>> # <<>>
    OBVIOUS
  <2>2. i = 1 \/ i > 1
    OBVIOUS
  <2> QED
    BY <1>5, <2>1, <2>2
<1>7. /\ cpu'.number \in Nat /\ cpu'.number > 0 /\ cpu'.site # "none"
      /\ cpu'.scratch = <<>> \/ \E a \in Addresses : cpu'.scratch = <<a>>
  BY <1>3 DEF PlaceInv
<1> QED
  BY <1>1, <1>2, <1>6, <1>7, Onwards

LEMMA MoveOn ==
    ASSUME PlaceInv, Execute, ~Store
    PROVE  PlaceInv' /\ \A name \in Rings : ~Between(name)'
<1> DEFINE Among == {<<"T1", 3>>, <<"T2", 3>>, <<"probe", 4>>,
                     <<"T1", 4>>, <<"T2", 4>>, <<"probe", 5>>}
<1> SUFFICES PlaceInv' /\ cpu'.pc \notin Among
  BY DEF Between, HeadAt, RecordAt, Rings
<1>0. /\ DOMAIN cpu = CpuFields /\ cpu.ra \in Addresses /\ cpu.stack \in Seq(Addresses)
      /\ cpu.scratch = <<>> \/ \E a \in Addresses : cpu.scratch = <<a>>
      /\ cpu.number \in Nat
  BY DEF PlaceInv
<1>1. CASE Push
  <2>1. /\ Step = "push" /\ cpu'.stack = Append(cpu.stack, cpu.ra) /\ cpu'.pc = Next1
        /\ DOMAIN cpu' = CpuFields /\ cpu'.ra = cpu.ra /\ cpu'.scratch = cpu.scratch
        /\ cpu'.number = cpu.number /\ cpu'.site = cpu.site
    BY <1>0, <1>1 DEF Push, PushedRa, Computes, CpuFields
  <2>2. cpu'.stack \in Seq(Addresses)
    BY <1>0, <2>1, AddressStacks
  <2>3. \E r \in DOMAIN Length : \E i \in 1..(Length[r] - 1) :
           /\ cpu.pc = <<r, i>> /\ <<r, i + 1>> \notin Among
           /\ ~(r = "probe" /\ i = 1)
    BY <2>1, Places DEF Length
  <2> QED
    BY <1>0, <2>1, <2>2, <2>3, NextPlace
<1>2. CASE KeepRa
  <2>1. /\ Step = "keep_ra" /\ cpu.stack # <<>> /\ cpu'.pc = Next1
        /\ cpu'.stack = Append(Front(cpu.stack), cpu.ra)
        /\ DOMAIN cpu' = CpuFields /\ cpu'.ra = cpu.ra /\ cpu'.scratch = cpu.scratch
        /\ cpu'.number = cpu.number /\ cpu'.site = cpu.site
    BY <1>0, <1>2 DEF KeepRa, Computes, CpuFields
  <2>2. cpu'.stack \in Seq(Addresses)
    BY <1>0, <2>1, AddressStacks
  <2>3. \E r \in DOMAIN Length : \E i \in 1..(Length[r] - 1) :
           /\ cpu.pc = <<r, i>> /\ <<r, i + 1>> \notin Among
           /\ ~(r = "probe" /\ i = 1)
    BY <2>1, Places DEF Length
  <2> QED
    BY <1>0, <2>1, <2>2, <2>3, NextPlace
<1>3. CASE Pop
  <2>1. /\ Step = "pop" /\ cpu.stack # <<>> /\ cpu'.pc = Next1
        /\ cpu'.stack = Front(cpu.stack) /\ cpu'.ra = Last(cpu.stack)
        /\ DOMAIN cpu' = CpuFields /\ cpu'.scratch = cpu.scratch
        /\ cpu'.number = cpu.number /\ cpu'.site = cpu.site
    BY <1>0, <1>3 DEF Pop, Computes, CpuFields
  <2>2. cpu'.stack \in Seq(Addresses) /\ cpu'.ra \in Addresses
    BY <1>0, <2>1, AddressStacks
  <2>3. \E r \in DOMAIN Length : \E i \in 1..(Length[r] - 1) :
           /\ cpu.pc = <<r, i>> /\ <<r, i + 1>> \notin Among
           /\ ~(r = "probe" /\ i = 1)
    BY <2>1, Places DEF Length
  <2> QED
    BY <1>0, <2>1, <2>2, <2>3, NextPlace
<1>4. CASE Work \/ Index
  <2>1. /\ Step \in {"work", "body", "index"} /\ cpu'.pc = Next1
        /\ cpu'.stack = cpu.stack /\ cpu'.ra = cpu.ra
        /\ DOMAIN cpu' = CpuFields /\ cpu'.scratch = cpu.scratch
        /\ cpu'.number = cpu.number /\ cpu'.site = cpu.site
    BY <1>0, <1>4 DEF Work, Index, Computes, CpuFields
  <2>3. \E r \in DOMAIN Length : \E i \in 1..(Length[r] - 1) :
           /\ cpu.pc = <<r, i>> /\ <<r, i + 1>> \notin Among
           /\ ~(r = "probe" /\ i = 1)
    BY <2>1, Places DEF Length
  <2> QED
    BY <1>0, <2>1, <2>3, NextPlace
<1>5. CASE Stash
  <2>1. /\ Step = "stash" /\ cpu'.pc = Next1
        /\ cpu'.stack = cpu.stack /\ cpu'.ra = cpu.ra
        /\ DOMAIN cpu' = CpuFields /\ cpu'.scratch = <<cpu.ra>>
        /\ cpu'.number = cpu.number /\ cpu'.site = cpu.site
    BY <1>0, <1>5 DEF Stash, Computes, CpuFields
  <2>2. cpu'.scratch # <<>>
    BY <2>1
  <2>3. cpu.pc = <<"probe", 1>> /\ <<"probe", 2>> \notin Among
    BY <2>1, Places
  <2>4. "probe" \in DOMAIN Length /\ 1 \in 1..(Length["probe"] - 1) /\ 1 + 1 = 2
    BY DEF Length
  <2> QED
    BY <1>0, <2>1, <2>2, <2>3, <2>4, NextPlace
<1>6. CASE Unstash
  <2>1. /\ Step = "unstash" /\ cpu'.pc = Next1
        /\ cpu'.stack = cpu.stack /\ cpu'.ra = cpu.scratch[1]
        /\ DOMAIN cpu' = CpuFields /\ cpu'.scratch = cpu.scratch
        /\ cpu'.number = cpu.number /\ cpu'.site = cpu.site
    BY <1>0, <1>6 DEF Unstash, Computes, CpuFields
  <2>2. cpu.pc = <<"probe", 6>> /\ cpu.pc # Home
    BY <2>1, Places
  <2>3. cpu.scratch # <<>>
    BY <2>2 DEF PlaceInv
  <2>4. cpu'.ra \in Addresses
    BY <1>0, <2>1, <2>3
  <2>5. "probe" \in DOMAIN Length /\ 6 \in 1..(Length["probe"] - 1) /\ 6 + 1 = 7
        /\ <<"probe", 7>> \notin Among
    BY DEF Length
  <2> QED
    BY <1>0, <2>1, <2>2, <2>4, <2>5, NextPlace
<1>7. CASE Resume
  <2>1. /\ Step = "resume" /\ cpu'.pc = <<"display", 2>>
        /\ cpu'.stack = cpu.stack /\ cpu'.ra = cpu.ra
        /\ DOMAIN cpu' = CpuFields /\ cpu'.scratch = cpu.scratch
        /\ cpu'.number = cpu.number /\ cpu'.site = cpu.site
    BY <1>0, <1>7 DEF Resume, Computes, CpuFields
  <2>2. cpu.number > 0 /\ cpu.site # "none"
    BY <2>1, Places DEF PlaceInv
  <2>3. "display" \in DOMAIN Length /\ 2 \in 1..Length["display"] /\ <<"display", 2>> \notin Among
    BY DEF Length
  <2> QED
    BY <1>0, <2>1, <2>2, <2>3, Onwards
<1>8. CASE Jalr
  <2>1. /\ Step \in DOMAIN Steps /\ cpu'.pc = <<Step, 1>> /\ cpu'.ra = Next1
        /\ cpu'.stack = cpu.stack
        /\ DOMAIN cpu' = CpuFields /\ cpu'.scratch = cpu.scratch
        /\ cpu'.number = cpu.number /\ cpu'.site = cpu.site
    BY <1>0, <1>8 DEF Jalr, Computes, CpuFields
  <2>2. /\ cpu.pc \in {<<"T1", 5>>, <<"T2", 5>>, <<"handler", 2>>} /\ cpu.pc # Home
        /\ Step \in {"handler", "SetCarCfg"}
    BY <2>1, Places DEF Steps
  <2>3. cpu.number > 0 /\ cpu.site # "none"
    BY <2>2 DEF PlaceInv
  <2>4. cpu'.ra \in Addresses
    BY <2>1, <2>2 DEF Next1, Routine, Addresses, Frames
  <2>5. Step \in DOMAIN Length /\ 1 \in 1..Length[Step] /\ <<Step, 1>> \notin Among
        /\ Step # "probe"
    BY <2>2 DEF Length
  <2> QED
    BY <1>0, <2>1, <2>3, <2>4, <2>5, Onwards
<1>9. CASE Return
  <2>1. CASE cpu.ra = Home
    <3>1. cpu' = [Idle EXCEPT !.number = cpu.number]
      BY <1>9, <2>1 DEF Return, Computes
    <3>2. /\ cpu'.pc = Home /\ cpu'.ra = Home /\ cpu'.stack = <<>> /\ cpu'.scratch = <<>>
          /\ cpu'.number = cpu.number /\ cpu'.site = "none" /\ DOMAIN cpu' = CpuFields
      BY <3>1 DEF Idle, CpuFields
    <3>3. <<>> \in Seq(Addresses) /\ Home \in Addresses /\ Home \notin Among
      BY DEF Addresses, Frames, Home
    <3> QED
      BY <1>0, <3>2, <3>3 DEF PlaceInv
  <2>2. CASE cpu.ra # Home
    <3>1. /\ Step = "return" /\ cpu'.pc = cpu.ra /\ cpu'.ra = cpu.ra
          /\ cpu'.stack = cpu.stack /\ cpu'.scratch = cpu.scratch
          /\ DOMAIN cpu' = CpuFields
          /\ cpu'.number = cpu.number /\ cpu'.site = cpu.site
      BY <1>0, <1>9, <2>2 DEF Return, Computes, CpuFields
    <3>2. PICK r \in DOMAIN Length \ {"probe"}, i \in 5..7 \cup {3} :
              /\ i \in 1..Length[r] /\ cpu.ra = <<r, i>>
              /\ <<r, i>> \notin {<<"T1", 3>>, <<"T2", 3>>, <<"T1", 4>>, <<"T2", 4>>}
      BY <1>0, <2>2, AddressPlaces
    <3>3. cpu.number > 0 /\ cpu.site # "none"
      BY <3>1, Places DEF PlaceInv
    <3>4. <<r, i>> \notin Among
      BY <3>2
    <3> QED
      BY <1>0, <3>1, <3>2, <3>3, <3>4, Onwards
  <2> QED
    BY <2>1, <2>2
<1> QED
  BY <1>1, <1>2, <1>3, <1>4, <1>5, <1>6, <1>7, <1>8, <1>9 DEF Execute

(* The stores of a trampoline, one after the other.                        *)
LEMMA StoreMoves ==
    ASSUME PlaceInv, Store
    PROVE  /\ PlaceInv' /\ RingOf(Routine) \in Rings
           /\ cpu.number > 0
           /\ \A name \in Rings :
              IF name # RingOf(Routine) THEN ~Between(name) /\ ~Between(name)'
              ELSE /\ Step = "count" => ~Between(name) /\ cpu'.pc \in HeadAt[name]
                   /\ Step = "head" => cpu.pc \in HeadAt[name] /\ cpu'.pc \in RecordAt[name]
                   /\ Step = "record" => cpu.pc \in RecordAt[name] /\ ~Between(name)'
<1>0. /\ DOMAIN cpu = CpuFields /\ cpu.ra \in Addresses /\ cpu.stack \in Seq(Addresses)
      /\ cpu.scratch = <<>> \/ \E a \in Addresses : cpu.scratch = <<a>>
      /\ cpu.number \in Nat
  BY DEF PlaceInv
<1>1. /\ Step \in {"count", "head", "record"} /\ cpu'.pc = Next1
      /\ cpu'.stack = cpu.stack /\ cpu'.ra = cpu.ra
      /\ DOMAIN cpu' = CpuFields /\ cpu'.scratch = cpu.scratch
      /\ cpu'.number = cpu.number /\ cpu'.site = cpu.site
  BY <1>0 DEF Store, AfterStore, CpuFields
<1>2. /\ Step = "count" => cpu.pc \in {<<"T1", 2>>, <<"T2", 2>>, <<"probe", 3>>}
      /\ Step = "head" => cpu.pc \in {<<"T1", 3>>, <<"T2", 3>>, <<"probe", 4>>}
      /\ Step = "record" => cpu.pc \in {<<"T1", 4>>, <<"T2", 4>>, <<"probe", 5>>}
  BY Places
<1>3. PICK r \in {"T1", "T2", "probe"} : \E j \in {2, 3, 4, 5} :
         /\ cpu.pc = <<r, j>>
         /\ j = (CASE Step = "count" -> 2 [] Step = "head" -> 3 [] OTHER -> 4)
                + (IF r = "probe" THEN 1 ELSE 0)
  BY <1>1, <1>2
<1>4. PICK i \in {2, 3, 4, 5} :
         /\ cpu.pc = <<r, i>>
         /\ i = (CASE Step = "count" -> 2 [] Step = "head" -> 3 [] OTHER -> 4)
                + (IF r = "probe" THEN 1 ELSE 0)
  BY <1>3
<1>5. r \in DOMAIN Length /\ i \in Nat /\ i \in 1..(Length[r] - 1)
  BY DEF Length
<1>6. PlaceInv' /\ cpu'.pc = <<r, i + 1>>
  BY <1>0, <1>1, <1>4, <1>5, NextPlace
<1>7. Routine = r
  BY <1>4 DEF Routine
<1>8. cpu.number > 0
  BY <1>1, Places DEF PlaceInv
<1>9. RingOf(Routine) = (IF r = "probe" THEN "display" ELSE "cfg")
  BY <1>7 DEF RingOf
<1> QED
  BY <1>1, <1>4, <1>6, <1>8, <1>9 DEF Between, HeadAt, RecordAt, Rings

LEMMA PlaceInit == Init => PlaceInv
<1> SUFFICES ASSUME Init PROVE PlaceInv
  OBVIOUS
<1>1. <<>> \in Seq(Addresses) /\ Home \in Addresses
  BY DEF Addresses, Frames
<1> QED
  BY <1>1 DEF Init, Idle, PlaceInv, CpuFields

\* A call begins where no trampoline is on its way.
LEMMA CallMoves ==
    ASSUME WriterInv, PlaceInv, NEW s \in Sites, Call(s)
    PROVE  PlaceInv' /\ \A name \in Rings : ~Between(name) /\ ~Between(name)'
<1>1. /\ DOMAIN cpu' = CpuFields /\ cpu'.site = s
      /\ cpu'.pc = <<site[s], 1>> /\ cpu'.stack = <<>> /\ cpu'.scratch = <<>>
      /\ cpu'.number = cpu.number + 1
      /\ cpu'.ra = Home \/ cpu'.ra = <<"display", 3>>
      /\ cpu.site = "none"
  BY DEF Call, Computes, Idle, CpuFields
<1>2. site[s] \in DOMAIN Length
  BY DEF WriterInv, Types, SitesHoldCode, Held, Callable, Length
<1>3. <<>> \in Seq(Addresses) /\ cpu'.ra \in Addresses
  <2>1. Home \in Addresses /\ <<"display", 3>> \in Addresses
    BY DEF Addresses, Frames
  <2> QED
    BY <1>1, <2>1
<1>4. 1 \in Nat /\ 1 \in 1..Length[site[s]]
  BY <1>2 DEF Length
<1>5. cpu'.number \in Nat /\ cpu'.number > 0 /\ cpu'.site # "none" /\ cpu.pc = Home
  BY <1>1 DEF PlaceInv, Sites, CallSites
<1>6. PlaceInv'
  BY <1>1, <1>2, <1>3, <1>4, <1>5, Onwards
<1>7. \A name \in Rings : ~Between(name)
  BY <1>5 DEF Between, HeadAt, RecordAt, Rings, Home
<1>8. \A name \in Rings : ~Between(name)'
  BY <1>1 DEF Between, HeadAt, RecordAt, Rings
<1> QED
  BY <1>6, <1>7, <1>8

(* Any step: the stores, a step that leaves the rings to the tools, or one  *)
(* of them zeroing a ring.                                                 *)
Zeroes == cpu' = cpu /\ \E name \in Rings : ring' = [ring EXCEPT ![name] = EmptyRing]
Elsewhere ==
    ring' = ring /\ \A name \in Rings : ~Between(name) /\ ~Between(name)'

LEMMA RingSteps ==
    ASSUME WriterInv, PlaceInv, [Next]_vars
    PROVE  PlaceInv' /\ (Store \/ Elsewhere \/ Zeroes \/ UNCHANGED <<cpu, ring>>)
<1>1. CASE Store
  BY <1>1, StoreMoves
<1>2. CASE Execute /\ ~Store
  <2>1. PlaceInv' /\ \A name \in Rings : ~Between(name)'
    BY <1>2, MoveOn
  <2>2. \A name \in Rings : ~Between(name)
    BY <1>2, BetweenStores, StepDecides
  <2>3. ring' = ring
    BY <1>2 DEF Execute, Jalr, Push, KeepRa, Pop, Return, Work, Stash, Index,
                Unstash, Resume, Computes, memory
  <2> QED
    BY <2>1, <2>2, <2>3 DEF Elsewhere
<1>3. ASSUME NEW s \in Sites, Call(s)
      PROVE  PlaceInv' /\ Elsewhere
  BY <1>3, CallMoves DEF Elsewhere, Call, Computes, memory
<1>4. ASSUME NEW t \in Tools, Write(t)
      PROVE  PlaceInv' /\ (Zeroes \/ UNCHANGED <<cpu, ring>>)
  <2>1. cpu' = cpu
    BY <1>4 DEF Write
  <2>2. PlaceInv'
    BY <2>1 DEF PlaceInv
  <2>3. RingOf(Trampoline[t]) \in Rings
    BY DEF RingOf, Rings
  <2>4. Zeroes \/ ring' = ring
    BY <1>4, <2>1, <2>3 DEF Write, Zeroes
  <2> QED
    BY <2>1, <2>2, <2>4
<1>5. CASE UNCHANGED <<cpu, ring>>
  BY <1>5 DEF PlaceInv
<1>6. \/ Execute \/ (\E s \in Sites : Call(s)) \/ (\E t \in Tools : Write(t))
      \/ UNCHANGED <<cpu, ring>>
  BY DEF Next, ApplyPnach, ManagerWrites, ManagerRestores, ManagerReads, PatchJal,
         Redirects, Install, Restore, Fail, vars, memory
<1> QED
  BY <1>1, <1>2, <1>3, <1>4, <1>5, <1>6
-----------------------------------------------------------------------------
(* What a ring holds: of the n numbers it has logged the last REC_COUNT, in *)
(* the slots they were counted into, and nothing else.                     *)
Shows(r, n) ==
    /\ \A i \in 1..n : i > n - REC_COUNT => r.slots[i % REC_COUNT] = r.log[i]
    /\ \A s \in Slots : r.slots[s] = 0 \/ \E i \in 1..n : i > n - REC_COUNT /\ i % REC_COUNT = s

RingTypes(r) ==
    /\ r \in [count : Nat, head : Slots, slots : [Slots -> Nat], log : Seq(Nat \ {0})]

\* A ring whose count agrees with its log, but for a record under way.
RingHolds(r, counted, moved) ==
    r.count = Len(r.log) + (IF counted THEN 1 ELSE 0) =>
       /\ Shows(r, Len(r.log))
       /\ r.head = (Len(r.log) + (IF moved THEN 1 ELSE 0)) % REC_COUNT

RingOK(name) ==
    /\ RingTypes(ring[name])
    /\ RingHolds(ring[name], Between(name), cpu.pc \in RecordAt[name])

RingInv == DOMAIN ring = Rings /\ \A name \in Rings : RingOK(name)

LEMMA EmptyRingIsFine ==
    /\ RingTypes(EmptyRing)
    /\ \A counted, moved \in BOOLEAN : (counted \/ ~moved) => RingHolds(EmptyRing, counted, moved)
<1>1. /\ EmptyRing.count = 0 /\ EmptyRing.head = 0 /\ EmptyRing.log = <<>>
      /\ EmptyRing.slots = [s \in Slots |-> 0]
  BY DEF EmptyRing
<1>2. 0 \in Slots /\ 0 % REC_COUNT = 0
  BY RingAssumption DEF Slots
<1>3. Len(<<>>) = 0 /\ <<>> \in Seq(Nat \ {0})
  BY EmptySeq
<1>4. RingTypes(EmptyRing)
  BY <1>2, <1>3 DEF RingTypes, EmptyRing
<1>5. Shows(EmptyRing, 0)
  BY <1>1 DEF Shows
<1>6. ASSUME NEW counted \in BOOLEAN, NEW moved \in BOOLEAN, counted \/ ~moved
      PROVE  RingHolds(EmptyRing, counted, moved)
  BY <1>1, <1>2, <1>3, <1>5, <1>6 DEF RingHolds
<1> QED
  BY <1>4, <1>6

LEMMA CountStored ==
    ASSUME NEW r, RingTypes(r), RingHolds(r, FALSE, FALSE),
           NEW q, q = [r EXCEPT !.count = @ + 1]
    PROVE  RingTypes(q) /\ RingHolds(q, TRUE, FALSE)
<1>0. /\ r.head \in Slots /\ r.count \in Nat /\ r.log \in Seq(Nat \ {0})
      /\ r.slots \in [Slots -> Nat] /\ DOMAIN r = {"count", "head", "slots", "log"}
  BY DEF RingTypes
<1>1. /\ q.count = r.count + 1 /\ q.head = r.head /\ q.slots = r.slots /\ q.log = r.log
      /\ RingTypes(q)
  <2>1. q = [count |-> r.count + 1, head |-> r.head, slots |-> r.slots, log |-> r.log]
    BY <1>0
  <2>2. /\ q.count = r.count + 1 /\ q.head = r.head /\ q.slots = r.slots /\ q.log = r.log
        /\ r.count + 1 \in Nat
    BY <1>0, <2>1
  <2>3. RingTypes(q)
    BY <1>0, <2>1, <2>2 DEF RingTypes
  <2> QED
    BY <2>2, <2>3
<1>2. r.count \in Nat /\ Len(r.log) \in Nat
  BY DEF RingTypes
<1> QED
  BY <1>1, <1>2 DEF RingHolds, Shows

LEMMA HeadStored ==
    ASSUME NEW r, RingTypes(r), RingHolds(r, TRUE, FALSE),
           NEW q, q = [r EXCEPT !.head = (@ + 1) % REC_COUNT]
    PROVE  RingTypes(q) /\ RingHolds(q, TRUE, TRUE)
<1> DEFINE n == Len(r.log)
<1>1. r.head \in Nat /\ n \in Nat /\ DOMAIN r = {"count", "head", "slots", "log"}
  BY RingAssumption DEF RingTypes, Slots
<1>2. (r.head + 1) % REC_COUNT \in Slots
  <2> DEFINE h == r.head + 1
  <2>1. h \in Int /\ REC_COUNT \in Nat \ {0}
    BY <1>1, RingAssumption
  <2> HIDE DEF h
  <2>2. h % REC_COUNT \in Slots
    BY <2>1, Division DEF Slots
  <2> QED
    BY <2>2 DEF h
<1>3. /\ q.count = r.count /\ q.head = (r.head + 1) % REC_COUNT
      /\ q.slots = r.slots /\ q.log = r.log
  BY <1>1
<1>4. RingTypes(q)
  BY <1>2 DEF RingTypes
<1>5. ((n % REC_COUNT) + 1) % REC_COUNT = (n + 1) % REC_COUNT
  <2> DEFINE one == 1
  <2>1. one \in Int /\ n \in Int /\ REC_COUNT \in Nat \ {0}
    BY <1>1, RingAssumption
  <2> HIDE DEF one, n
  <2>2. ((n % REC_COUNT) + one) % REC_COUNT = (n + one) % REC_COUNT
    BY <2>1, ModAdd
  <2> QED
    BY <2>2 DEF one
<1>6. n + 0 = n
  BY <1>1
<1> QED
  BY <1>3, <1>4, <1>5, <1>6 DEF RingHolds, Shows

\* A record goes where the oldest one was.
LEMMA Recorded ==
    ASSUME NEW n \in Nat, NEW m, m = n + 1, NEW r, NEW q, Shows(r, n),
           m % REC_COUNT \in Slots, q.slots[m % REC_COUNT] = q.log[m],
           \A s \in Slots : s # m % REC_COUNT => q.slots[s] = r.slots[s],
           \A i \in 1..n : q.log[i] = r.log[i]
    PROVE  Shows(q, m)
<1> DEFINE head == m % REC_COUNT
<1>1. q.slots[head] = q.log[m] /\ \A s \in Slots : s # head => q.slots[s] = r.slots[s]
  OBVIOUS
<1>2. \A i \in 1..n : q.log[i] = r.log[i]
  OBVIOUS
<1>3. ASSUME NEW i \in 1..n, i > m - REC_COUNT
      PROVE  i % REC_COUNT # head /\ i % REC_COUNT \in Slots
  <2>1. m \in Int /\ i \in Int /\ REC_COUNT \in Nat \ {0} /\ i < m /\ m - i < REC_COUNT
    BY <1>3, RingAssumption
  <2>2. i % REC_COUNT # m % REC_COUNT
    BY <2>1, ModApart
  <2>3. i % REC_COUNT \in Slots
    BY <2>1, Division DEF Slots
  <2> QED
    BY <2>2, <2>3
<1>4. ASSUME NEW i \in 1..m, i > m - REC_COUNT
      PROVE  q.slots[i % REC_COUNT] = q.log[i]
  <2>1. CASE i = m
    BY <1>1, <1>2, <2>1
  <2>2. CASE i # m
    <3>1. i \in 1..n /\ i > n - REC_COUNT
      BY <1>4, <2>2, RingAssumption
    <3>2. r.slots[i % REC_COUNT] = r.log[i]
      BY <3>1 DEF Shows
    <3> QED
      BY <1>1, <1>2, <1>3, <1>4, <3>1, <3>2
  <2> QED
    BY <2>1, <2>2
<1>5. ASSUME NEW s \in Slots, q.slots[s] # 0
      PROVE  \E i \in 1..m : i > m - REC_COUNT /\ i % REC_COUNT = s
  <2>0. m \in 1..m /\ m > m - REC_COUNT
    BY RingAssumption
  <2>1. CASE s = head
    BY <2>0, <2>1
  <2>2. CASE s # head
    <3>1. PICK i \in 1..n : i > n - REC_COUNT /\ i % REC_COUNT = s
      BY <1>1, <1>5, <2>2 DEF Shows
    <3>2. CASE i = m - REC_COUNT
      <4>1. i \in Int /\ REC_COUNT \in Nat \ {0} /\ m = i + REC_COUNT
        BY <3>2, RingAssumption
      <4>2. (i + REC_COUNT) % REC_COUNT = i % REC_COUNT
        BY <4>1, ModTurn
      <4> QED
        BY <2>2, <3>1, <4>1, <4>2
    <3>3. CASE i # m - REC_COUNT
      <4>1. i \in 1..m /\ i > m - REC_COUNT
        BY <3>1, <3>3, RingAssumption
      <4> QED
        BY <3>1, <4>1
    <3> QED
      BY <3>2, <3>3
  <2> QED
    BY <2>1, <2>2
<1> QED
  BY <1>4, <1>5 DEF Shows

LEMMA RecordHolds ==
    ASSUME NEW r, RingTypes(r), RingHolds(r, TRUE, TRUE),
           NEW number \in Nat, number > 0, NEW slots, NEW log,
           slots = [r.slots EXCEPT ![r.head] = number], log = Append(r.log, number),
           NEW q, q = [count |-> r.count, head |-> r.head, slots |-> slots, log |-> log]
    PROVE  RingTypes(q) /\ RingHolds(q, FALSE, FALSE)
<1>1. /\ r.head \in Slots /\ Len(r.log) \in Nat /\ r.count \in Nat
      /\ r.log \in Seq(Nat \ {0}) /\ r.slots \in [Slots -> Nat]
  BY DEF RingTypes
<1>2. q.count = r.count /\ q.head = r.head /\ q.slots = slots /\ q.log = log
  OBVIOUS
<1>3. log \in Seq(Nat \ {0}) /\ Len(log) = Len(r.log) + 1
  BY <1>1, AppendProperties
<1>4. slots \in [Slots -> Nat]
  BY <1>1
<1>5. RingTypes(q)
  BY <1>1, <1>3, <1>4 DEF RingTypes
<1>6. ASSUME NEW n, n = Len(r.log), NEW m, m = n + 1, q.count = m
      PROVE  Shows(q, m) /\ q.head = m % REC_COUNT
  <2>1. Shows(r, n) /\ r.head = m % REC_COUNT
    BY <1>2, <1>6 DEF RingHolds
  <2>2. n \in Nat /\ Len(r.log) = n
    BY <1>1, <1>6
  <2>3. /\ q.slots[r.head] = number
        /\ \A s \in Slots : s # r.head => q.slots[s] = r.slots[s]
    BY <1>1, <1>2
  <2>4. q.log[m] = number /\ \A i \in 1..n : q.log[i] = r.log[i]
    BY <1>1, <1>2, <1>6
  <2>5. /\ m % REC_COUNT \in Slots /\ q.slots[m % REC_COUNT] = q.log[m]
        /\ \A s \in Slots : s # m % REC_COUNT => q.slots[s] = r.slots[s]
    BY <1>1, <2>1, <2>3, <2>4
  <2>6. Shows(q, m)
    BY ONLY <1>6, <2>1, <2>2, <2>4, <2>5, Recorded
  <2> QED
    BY <1>2, <2>1, <2>6
<1>7. ASSUME NEW m, m = Len(r.log) + 1, q.count = m
      PROVE  Shows(q, m) /\ q.head = m % REC_COUNT
  BY <1>6, <1>7
<1>8. Len(q.log) \in Nat /\ Len(q.log) = Len(r.log) + 1 /\ Len(q.log) + 0 = Len(q.log)
  BY <1>2, <1>3
<1> QED
  BY <1>5, <1>7, <1>8 DEF RingHolds

LEMMA RecordStored ==
    ASSUME NEW r, RingTypes(r), RingHolds(r, TRUE, TRUE),
           NEW number \in Nat, number > 0,
           NEW q, q = [r EXCEPT !.slots[r.head] = number, !.log = Append(@, number)]
    PROVE  RingTypes(q) /\ RingHolds(q, FALSE, FALSE)
<1>1. DOMAIN r = {"count", "head", "slots", "log"}
  BY DEF RingTypes
<1>2. q = [count |-> r.count, head |-> r.head,
           slots |-> [r.slots EXCEPT ![r.head] = number], log |-> Append(r.log, number)]
  BY <1>1
<1> QED
  BY <1>2, RecordHolds
\* Which of the three forms a ring is in, by where the processor is.
LEMMA RingForms ==
    ASSUME NEW name \in Rings
    PROVE  /\ ~Between(name) =>
                (RingOK(name) <=> RingTypes(ring[name]) /\ RingHolds(ring[name], FALSE, FALSE))
           /\ cpu.pc \in HeadAt[name] =>
                (RingOK(name) <=> RingTypes(ring[name]) /\ RingHolds(ring[name], TRUE, FALSE))
           /\ cpu.pc \in RecordAt[name] =>
                (RingOK(name) <=> RingTypes(ring[name]) /\ RingHolds(ring[name], TRUE, TRUE))
<1>1. HeadAt[name] \cap RecordAt[name] = {}
  BY DEF HeadAt, RecordAt, Rings
<1> QED
  BY <1>1 DEF RingOK, Between, RingHolds

LEMMA RingFormsNext ==
    ASSUME NEW name \in Rings
    PROVE  /\ ~Between(name)' =>
                (RingOK(name)' <=> RingTypes(ring'[name]) /\ RingHolds(ring'[name], FALSE, FALSE))
           /\ cpu'.pc \in HeadAt[name] =>
                (RingOK(name)' <=> RingTypes(ring'[name]) /\ RingHolds(ring'[name], TRUE, FALSE))
           /\ cpu'.pc \in RecordAt[name] =>
                (RingOK(name)' <=> RingTypes(ring'[name]) /\ RingHolds(ring'[name], TRUE, TRUE))
<1>1. HeadAt[name] \cap RecordAt[name] = {}
  BY DEF HeadAt, RecordAt, Rings
<1> QED
  BY <1>1 DEF RingOK, Between, RingHolds, RingTypes, Shows, HeadAt, RecordAt

LEMMA StoreKeeps == ASSUME PlaceInv, RingInv, Store PROVE RingInv'
<1>0. PICK mine \in Rings : mine = RingOf(Routine)
  BY StoreMoves
<1> DEFINE r == ring[mine]
<1>1. mine = RingOf(Routine) /\ DOMAIN ring = Rings
  BY <1>0 DEF RingInv
<1>2. Step \in {"count", "head", "record"} /\ cpu.number \in Nat /\ cpu.number > 0
  BY StoreMoves DEF Store, PlaceInv
<1>3. DOMAIN ring' = Rings /\ \A name \in Rings : name # mine => ring'[name] = ring[name]
  BY <1>1 DEF Store
<1>4. ASSUME NEW name \in Rings, name # mine PROVE RingOK(name)'
  <2>1. ~Between(name) /\ ~Between(name)'
    BY <1>1, <1>4, StoreMoves
  <2>2. RingOK(name)
    BY DEF RingInv
  <2> QED
    BY <1>3, <1>4, <2>1, <2>2, RingForms, RingFormsNext
<1>5. RingOK(mine)
  BY <1>1 DEF RingInv
<1>6. ASSUME Step = "count" PROVE RingOK(mine)'
  <2>1. ring'[mine] = [r EXCEPT !.count = @ + 1]
    BY <1>1, <1>6 DEF Store
  <2>2. ~Between(mine) /\ cpu'.pc \in HeadAt[mine]
    BY <1>1, <1>6, StoreMoves
  <2>3. RingTypes(r) /\ RingHolds(r, FALSE, FALSE)
    BY <1>1, <1>5, <2>2, RingForms
  <2>4. RingTypes(ring'[mine]) /\ RingHolds(ring'[mine], TRUE, FALSE)
    BY ONLY <2>1, <2>3, CountStored
  <2> QED
    BY <1>1, <2>2, <2>4, RingFormsNext
<1>7. ASSUME Step = "head" PROVE RingOK(mine)'
  <2>1. ring'[mine] = [r EXCEPT !.head = (@ + 1) % REC_COUNT]
    BY <1>1, <1>7 DEF Store
  <2>2. cpu.pc \in HeadAt[mine] /\ cpu'.pc \in RecordAt[mine]
    BY <1>1, <1>7, StoreMoves
  <2>3. RingTypes(r) /\ RingHolds(r, TRUE, FALSE)
    BY <1>1, <1>5, <2>2, RingForms
  <2>4. RingTypes(ring'[mine]) /\ RingHolds(ring'[mine], TRUE, TRUE)
    BY ONLY <2>1, <2>3, HeadStored
  <2> QED
    BY <1>1, <2>2, <2>4, RingFormsNext
<1>8. ASSUME Step = "record" PROVE RingOK(mine)'
  <2>1. ring'[mine] = [r EXCEPT !.slots[r.head] = cpu.number, !.log = Append(@, cpu.number)]
    BY <1>1, <1>8 DEF Store
  <2>2. cpu.pc \in RecordAt[mine] /\ ~Between(mine)'
    BY <1>1, <1>8, StoreMoves
  <2>3. RingTypes(r) /\ RingHolds(r, TRUE, TRUE)
    BY <1>1, <1>5, <2>2, RingForms
  <2>4. RingTypes(ring'[mine]) /\ RingHolds(ring'[mine], FALSE, FALSE)
    BY ONLY <1>2, <2>1, <2>3, RecordStored
  <2> QED
    BY <1>1, <2>2, <2>4, RingFormsNext
<1>9. RingOK(mine)'
  BY <1>2, <1>6, <1>7, <1>8
<1> QED
  BY <1>1, <1>3, <1>4, <1>9 DEF RingInv

LEMMA ZeroKeeps == ASSUME RingInv, Zeroes PROVE RingInv'
<1>1. DOMAIN ring = Rings /\ \A name \in Rings : RingOK(name)
  BY DEF RingInv
<1>2. PICK zeroed \in Rings : ring' = [ring EXCEPT ![zeroed] = EmptyRing]
  BY DEF Zeroes
<1>3. DOMAIN ring' = Rings /\ ring'[zeroed] = EmptyRing
      /\ \A name \in Rings : name # zeroed => ring'[name] = ring[name]
  BY <1>1, <1>2
<1>4. cpu' = cpu
  BY DEF Zeroes
<1>5. RingOK(zeroed)'
  <2>1. \/ ~Between(zeroed)' \/ cpu'.pc \in HeadAt[zeroed] \/ cpu'.pc \in RecordAt[zeroed]
    BY DEF Between, HeadAt, RecordAt
  <2>2. /\ RingTypes(ring'[zeroed]) /\ RingHolds(ring'[zeroed], FALSE, FALSE)
        /\ RingHolds(ring'[zeroed], TRUE, FALSE) /\ RingHolds(ring'[zeroed], TRUE, TRUE)
    BY <1>3, EmptyRingIsFine
  <2> QED
    BY <2>1, <2>2, RingFormsNext
<1>6. ASSUME NEW name \in Rings, name # zeroed PROVE RingOK(name)'
  <2>1. \/ ~Between(name) /\ ~Between(name)'
        \/ cpu.pc \in HeadAt[name] /\ cpu'.pc \in HeadAt[name]
        \/ cpu.pc \in RecordAt[name] /\ cpu'.pc \in RecordAt[name]
    BY <1>4 DEF Between, HeadAt, RecordAt
  <2>2. ring'[name] = ring[name] /\ RingOK(name)
    BY <1>1, <1>3, <1>6
  <2> QED
    BY <2>1, <2>2, RingForms, RingFormsNext
<1> QED
  BY <1>3, <1>5, <1>6 DEF RingInv

LEMMA RingInit == Init => RingInv
<1> SUFFICES ASSUME Init PROVE RingInv
  OBVIOUS
<1>1. DOMAIN ring = Rings /\ \A name \in Rings : ring[name] = EmptyRing
  BY DEF Init, Rings
<1>2. \A name \in Rings : ~Between(name)
  BY DEF Init, Idle, Home, Between, HeadAt, RecordAt, Rings
<1>3. RingTypes(EmptyRing) /\ RingHolds(EmptyRing, FALSE, FALSE)
  BY EmptyRingIsFine
<1> QED
  BY <1>1, <1>2, <1>3, RingForms DEF RingInv

LEMMA RingStep ==
    ASSUME WriterInv, PlaceInv, RingInv, [Next]_vars
    PROVE  PlaceInv' /\ RingInv'
<1>1. PlaceInv' /\ (Store \/ Elsewhere \/ Zeroes \/ UNCHANGED <<cpu, ring>>)
  BY RingSteps
<1>2. CASE Store
  BY <1>1, <1>2, StoreKeeps
<1>3. CASE Zeroes
  BY <1>1, <1>3, ZeroKeeps
<1>4. CASE Elsewhere
  <2>1. \A name \in Rings : RingOK(name)'
    BY <1>4, RingForms, RingFormsNext DEF Elsewhere, RingInv
  <2> QED
    BY <1>1, <1>4, <2>1 DEF Elsewhere, RingInv
<1>5. CASE UNCHANGED <<cpu, ring>>
  BY <1>1, <1>5 DEF RingInv, RingOK, RingTypes, RingHolds, Shows, Between, HeadAt, RecordAt
<1> QED
  BY <1>1, <1>2, <1>3, <1>4, <1>5
-----------------------------------------------------------------------------
(* What the status commands read of such a ring.                           *)
\* The slots in use are those of the last records, one each.
LEMMA LatestAreThere ==
    ASSUME NEW r, RingTypes(r), NEW total, total = Len(r.log), Shows(r, total),
           NEW n, n = Min({total, REC_COUNT})
    PROVE  /\ n \in Nat /\ n <= total /\ total \in Nat
           /\ \A i \in (total - n + 1)..total :
                 /\ i \in 1..total /\ i % REC_COUNT \in Slots
                 /\ r.slots[i % REC_COUNT] = r.log[i] /\ r.log[i] \in Nat \ {0}
           /\ \A s \in Slots :
                 r.slots[s] # 0 => \E i \in (total - n + 1)..total : i % REC_COUNT = s
<1>1. total \in Nat /\ r.log \in Seq(Nat \ {0}) /\ REC_COUNT \in Nat \ {0}
  BY RingAssumption DEF RingTypes
<1>2. /\ total <= REC_COUNT => n = total
      /\ ~(total <= REC_COUNT) => n = REC_COUNT
  BY <1>1, MinOfTwo
<1>3. n \in Nat /\ n <= total /\ n <= REC_COUNT
  BY <1>1, <1>2
<1>4. ASSUME NEW i \in (total - n + 1)..total
      PROVE  /\ i \in 1..total /\ i % REC_COUNT \in Slots
             /\ r.slots[i % REC_COUNT] = r.log[i] /\ r.log[i] \in Nat \ {0}
  <2>1. i \in 1..total /\ i > total - REC_COUNT /\ i \in Int
    BY <1>1, <1>3
  <2>2. i % REC_COUNT \in Slots
    BY <1>1, <2>1, Division DEF Slots
  <2>3. r.log[i] \in Nat \ {0}
    BY <1>1, <2>1
  <2> QED
    BY <2>1, <2>2, <2>3 DEF Shows
<1>5. ASSUME NEW s \in Slots, r.slots[s] # 0
      PROVE  \E i \in (total - n + 1)..total : i % REC_COUNT = s
  <2>1. PICK i \in 1..total : i > total - REC_COUNT /\ i % REC_COUNT = s
    BY <1>5 DEF Shows
  <2>2. i \in (total - n + 1)..total
    BY <1>1, <1>2, <2>1
  <2> QED
    BY <2>1, <2>2
<1> QED
  BY <1>1, <1>3, <1>4, <1>5

LEMMA StatusShows ==
    ASSUME NEW r, RingTypes(r), NEW total, total = Len(r.log), Shows(r, total),
           NEW n, n = Min({total, REC_COUNT})
    PROVE  Status(r) = {r.log[i] : i \in (total - n + 1)..total}
<1>1. ASSUME NEW x \in Status(r)
      PROVE  \E i \in (total - n + 1)..total : x = r.log[i]
  <2>1. PICK s \in Slots : x = r.slots[s] /\ x # 0
    BY DEF Status
  <2>2. PICK i \in (total - n + 1)..total : i % REC_COUNT = s
    BY <2>1, LatestAreThere
  <2>3. r.slots[i % REC_COUNT] = r.log[i]
    BY LatestAreThere
  <2> QED
    BY <2>1, <2>2, <2>3
<1>2. ASSUME NEW i \in (total - n + 1)..total
      PROVE  r.log[i] \in Status(r)
  <2>1. i % REC_COUNT \in Slots /\ r.slots[i % REC_COUNT] = r.log[i] /\ r.log[i] # 0
    BY LatestAreThere
  <2> QED
    BY <2>1 DEF Status
<1> QED
  BY <1>1, <1>2

LEMMA RecentShows ==
    ASSUME NEW r, RingTypes(r), NEW total, total = Len(r.log), Shows(r, total),
           NEW n, n = Min({total, REC_COUNT}),
           r.count = total, r.head = total % REC_COUNT
    PROVE  Recent(r) = [k \in 1..n |-> r.log[total - k + 1]]
<1>1. n \in Nat /\ n <= total /\ total \in Nat
  BY LatestAreThere
<1>2. ASSUME NEW k \in 1..n
      PROVE  r.slots[(r.head - (k - 1)) % REC_COUNT] = r.log[total - k + 1]
  <2> DEFINE back == 1 - k
             i == total - k + 1
  <2>1. back \in Int /\ total \in Int /\ i \in (total - n + 1)..total
        /\ REC_COUNT \in Nat \ {0}
    BY <1>1, RingAssumption
  <2>2. r.slots[i % REC_COUNT] = r.log[i]
    <3> HIDE DEF i
    <3> QED
      BY <2>1, LatestAreThere
  <2>3. total + back = i
    BY <1>1
  <2>4. r.head \in Int
    BY DEF RingTypes, Slots
  <2>5. r.head - (k - 1) = r.head + back
    BY <2>4
  <2> HIDE DEF back
  <2>6. ((total % REC_COUNT) + back) % REC_COUNT = (total + back) % REC_COUNT
    BY <2>1, ModAdd
  <2> HIDE DEF i
  <2>7. (r.head - (k - 1)) % REC_COUNT = i % REC_COUNT
    BY <2>3, <2>5, <2>6
  <2>8. r.slots[(r.head - (k - 1)) % REC_COUNT] = r.log[i]
    BY <2>2, <2>7
  <2> QED
    BY <2>8 DEF i
<1> QED
  BY <1>2 DEF Recent

LEMMA RingsShow == PlaceInv /\ RingInv => RingsShowTheLatest
<1> SUFFICES ASSUME PlaceInv, RingInv, NEW name \in DOMAIN ring,
                    ~Storing(name), ring[name].count = Len(ring[name].log),
                    NEW total, total = Len(ring[name].log),
                    NEW n, n = Min({total, REC_COUNT})
             PROVE  /\ Status(ring[name]) = {ring[name].log[i] : i \in (total - n + 1)..total}
                    /\ Recent(ring[name]) = [k \in 1..n |-> ring[name].log[total - k + 1]]
  BY DEF RingsShowTheLatest
<1> DEFINE r == ring[name]
<1>1. name \in Rings /\ RingOK(name)
  BY DEF RingInv
<1>2. ~Between(name)
  <2> SUFFICES ASSUME Between(name) PROVE FALSE
    OBVIOUS
  <2>1. Step \in {"head", "record"}
    BY <1>1, BetweenStores
  <2>2. RingOf(Routine) = name
    BY <1>1 DEF Between, HeadAt, RecordAt, Rings, RingOf, Routine
  <2> QED
    BY <2>1, <2>2 DEF Storing
<1>3. RingTypes(r) /\ RingHolds(r, FALSE, FALSE)
  BY <1>1, <1>2, RingForms
<1> HIDE DEF r
<1>4. total \in Nat /\ total + 0 = total /\ r.count = total /\ Len(r.log) = total
  <2>1. Len(r.log) \in Nat
    BY <1>3 DEF RingTypes
  <2> QED
    BY <2>1 DEF r
<1>5. Shows(r, total) /\ r.head = total % REC_COUNT
  BY <1>3, <1>4 DEF RingHolds
<1>6. Status(r) = {r.log[i] : i \in (total - n + 1)..total}
  BY <1>3, <1>4, <1>5, StatusShows
<1>7. Recent(r) = [k \in 1..n |-> r.log[total - k + 1]]
  BY <1>3, <1>4, <1>5, RecentShows
<1> QED
  BY <1>6, <1>7 DEF r

(* Whoever looks at a ring while no trampoline is between its stores to it, *)
(* and no installation zeroed it under one, sees the last REC_COUNT calls   *)
(* it logged and no other, and the reader of the probe's in their order.    *)
THEOREM RingsShowTheLatestTheorem == Spec => []RingsShowTheLatest
<1>1. WriterInv /\ PlaceInv /\ RingInv /\ [Next]_vars => PlaceInv' /\ RingInv'
  BY RingStep
<1> QED
  BY <1>1, WriterInit, WriterStep, PlaceInit, RingInit, RingsShow, PTL DEF Spec
-----------------------------------------------------------------------------
(* The assembler.  Only the field of a jump is as wide as an address.       *)
Ops == {"nop", "alu", "jr", "lui", "ori", "addiu", "lw", "sw", "lb", "lbu", "sb",
        "beq", "jal"}
Operands == Registers \cup {"zero", "ra", "sp"}
Instruction == {w \in [op : Ops, rt : Operands, rs : Operands, imm : Int] :
                   w.op # "jal" => w.imm \in 0..(Half - 1)}
LabelTables == UNION {[N -> Nat] : N \in SUBSET Names}
ReferenceRecords == [at : Nat, op : {"beq", "jal"}, name : Names]

ProgramTypes ==
    /\ text \in Seq(Instruction) /\ image \in Seq(Instruction)
    /\ Len(image) <= Len(text)
    /\ labels \in LabelTables /\ meant \in LabelTables
    /\ pending \in Seq(ReferenceRecords)

\* Every reference has a word of its own.
Placed ==
    /\ \A k \in DOMAIN pending : pending[k].at \in 1..Len(text)
    /\ \A j, k \in DOMAIN pending : j # k => pending[j].at # pending[k].at

\* What a reference is filled in with.
Filling(ref, table) ==
    Word(ref.op, "zero", "zero", IF ref.op = "beq" THEN Offset(ref.at, table[ref.name])
                                                   ELSE table[ref.name])

\* The references of the image are filled in with what the labels meant then.
Linked ==
    \A k \in DOMAIN pending :
       pending[k].at <= Len(image) =>
          /\ pending[k].name \in DOMAIN meant
          /\ image[pending[k].at] = Filling(pending[k], meant)

ProgramInv == ProgramTypes /\ Placed /\ Linked

-----------------------------------------------------------------------------
\* The addresses of words, and back.
LEMMA Addressing ==
    ASSUME NEW s \in Seq(Instruction), NEW i \in DOMAIN s
    PROVE  /\ i \in 1..Len(s) /\ AddressOf(i) \in Nat
           /\ s[i] \in Instruction
           /\ Inside(s, AddressOf(i))
           /\ WordAt(s, AddressOf(i)) = s[i]
<1>1. i \in 1..Len(s) /\ Len(s) \in Nat /\ s[i] \in Instruction /\ Base \in Nat
  BY ImageAssumption
<1>2. (Base + i - 1) - Base + 1 = i /\ Base + i - 1 \in Base..(Base + Len(s) - 1)
  BY <1>1
<1> QED
  BY <1>1, <1>2 DEF AddressOf, Inside, WordAt

\* Half is twice something.
LEMMA HalfFacts ==
    /\ Half \in Nat /\ Half # 0 /\ Half \div 2 \in Nat
    /\ Half = (Half \div 2) + (Half \div 2)
BY WidthAssumption

\* A half of an address is smaller than Half.
LEMMA Halves ==
    ASSUME NEW a \in 0..(Half * Half - 1)
    PROVE  a \div Half \in 0..(Half - 1) /\ a % Half \in 0..(Half - 1)
<1> DEFINE q == a \div Half
           r == a % Half
<1>1. q \in Int /\ r \in 0..(Half - 1) /\ a = Half * q + r /\ a \in Int
  BY HalfFacts, Division
<1> HIDE DEF q, r
<1>2. q >= 0
  <2> SUFFICES ASSUME q <= -1 PROVE FALSE
    BY <1>1
  <2>1. Half * q <= Half * (-1)
    BY <1>1, HalfFacts
  <2> QED
    BY <1>1, <2>1, HalfFacts
<1>3. q < Half
  <2> SUFFICES ASSUME q >= Half PROVE FALSE
    BY <1>1, HalfFacts
  <2>1. Half * q >= Half * Half
    BY <1>1, HalfFacts
  <2> QED
    BY <1>1, <2>1, HalfFacts
<1> QED
  BY <1>1, <1>2, <1>3, HalfFacts DEF q, r

\* What two halves are the halves of.
LEMMA Joined ==
    ASSUME NEW h \in 0..(Half - 1), NEW l \in 0..(Half - 1)
    PROVE  /\ h * Half + l \in 0..(Half * Half - 1)
           /\ (h * Half + l) \div Half = h /\ (h * Half + l) % Half = l
<1>1. h \in Int /\ l \in Int /\ Half \in Int /\ Half * Half \in Int /\ h * Half \in Int
  BY HalfFacts
<1>2. h * Half = Half * h
  BY <1>1
<1>3. Half * h >= 0 /\ Half * h <= Half * (Half - 1)
  BY <1>1, HalfFacts
<1>4. Half * (Half - 1) = Half * Half - Half
  BY <1>1
<1>5. h * Half + l \in 0..(Half * Half - 1)
  BY <1>1, <1>2, <1>3, <1>4
<1>6. (Half * h + l) % Half = l
  BY HalfFacts, Remainder
<1>7. (Half * h + l) \div Half = h
  BY <1>1, HalfFacts
<1> QED
  BY <1>2, <1>5, <1>6, <1>7

\* A low half with its sign, added to a high half: an address whose low half it is,
\* and whose high half is the one before.
LEMMA Carried ==
    ASSUME NEW h \in 0..(Half - 1), NEW l \in 0..(Half - 1), l >= Half \div 2,
           NEW b, b = (h * Half + (l - Half)) % (Half * Half)
    PROVE  b % Half = l /\ (b \div Half + 1) % Half = h
<1>1. h \in Int /\ l \in Int /\ Half \in Int /\ Half > 0 /\ Half * Half \in Int
      /\ h * Half \in Int
  BY HalfFacts
<1>2. CASE h > 0
  <2>1. h - 1 \in 0..(Half - 1)
    BY <1>1, <1>2
  <2>2. (h - 1) * Half + l = h * Half + (l - Half)
    BY <1>1
  <2>3. /\ h * Half + (l - Half) \in 0..(Half * Half - 1)
        /\ (h * Half + (l - Half)) \div Half = h - 1
        /\ (h * Half + (l - Half)) % Half = l
    BY <2>1, <2>2, Joined
  <2>4. b = h * Half + (l - Half)
    BY <1>1, <2>3
  <2>5. (h - 1) + 1 = h /\ h % Half = h
    BY <1>1
  <2> QED
    BY <2>3, <2>4, <2>5
<1>3. CASE h = 0
  <2>1. Half - 1 \in 0..(Half - 1)
    BY <1>1
  <2> DEFINE c == (Half - 1) * Half + l
  <2>2. c \in 0..(Half * Half - 1) /\ c \div Half = Half - 1 /\ c % Half = l
    BY <2>1, Joined
  <2>3. h * Half + (l - Half) = (Half * Half) * (-1) + c
    BY <1>1, <1>3
  <2> HIDE DEF c
  <2>4. Half * Half \in Nat \ {0}
    BY <1>1, <2>2
  <2>5. -1 \in Int
    OBVIOUS
  <2>6. b = c
    BY ONLY <2>2, <2>3, <2>4, <2>5, Remainder, b = (h * Half + (l - Half)) % (Half * Half)
  <2>7. (Half - 1) + 1 = Half /\ Half % Half = 0
    BY <1>1
  <2> QED
    BY <1>3, <2>2, <2>6, <2>7
<1> QED
  BY <1>1, <1>2, <1>3

\* A distance that fits its field is read back from it.
LEMMA FieldIsRead ==
    ASSUME NEW d \in (-(Half \div 2))..(Half \div 2 - 1)
    PROVE  SignExtended(d % Half) = d
<1>1. d \in Int /\ Half \in Int /\ Half \div 2 \in Int /\ Half > 0
      /\ Half = (Half \div 2) + (Half \div 2)
  BY HalfFacts
<1>2. CASE d >= 0
  <2>1. d % Half = d /\ ~(d >= Half \div 2)
    BY <1>1, <1>2
  <2> QED
    BY <2>1 DEF SignExtended
<1>3. CASE d < 0
  <2>1. d + Half \in 0..(Half - 1) /\ d = Half * (-1) + (d + Half)
    BY <1>1, <1>3
  <2>2. d % Half = d + Half
    BY <2>1, HalfFacts, Remainder
  <2>3. d + Half >= Half \div 2 /\ (d + Half) - Half = d
    BY <1>1
  <2> QED
    BY <2>2, <2>3 DEF SignExtended
<1> QED
  BY <1>1, <1>2, <1>3

-----------------------------------------------------------------------------
\* What is emitted is a word.
LEMMA Words ==
    ASSUME NEW op \in Ops, NEW rt \in Operands, NEW rs \in Operands, NEW imm \in Int,
           op = "jal" \/ imm \in 0..(Half - 1)
    PROVE  Word(op, rt, rs, imm) \in Instruction
BY DEF Word, Instruction

\* Words more: the references stay where they are.
LEMMA EmittedKeeps ==
    ASSUME ProgramInv, NEW words \in Seq(Instruction), Emitted(words),
           pending' \in Seq(ReferenceRecords),
           \A k \in DOMAIN pending : k \in DOMAIN pending' /\ pending'[k] = pending[k],
           \A k \in DOMAIN pending' \ DOMAIN pending :
              pending'[k].at = Len(text) + 1 /\ Len(words) > 0,
           \A j, k \in DOMAIN pending' \ DOMAIN pending : j = k
    PROVE  ProgramInv'
<1>1. /\ text' = text \o words /\ labels' = labels /\ image' = image /\ meant' = meant
      /\ text \in Seq(Instruction) /\ image \in Seq(Instruction)
      /\ Len(image) <= Len(text) /\ labels \in LabelTables /\ meant \in LabelTables
  BY DEF Emitted, ProgramInv, ProgramTypes
<1>2. /\ text' \in Seq(Instruction) /\ Len(text') = Len(text) + Len(words)
      /\ Len(text) \in Nat /\ Len(words) \in Nat /\ Len(image) \in Nat
  BY <1>1
<1>3. ProgramTypes'
  BY <1>1, <1>2 DEF ProgramTypes
<1>4. \A k \in DOMAIN pending' :
         \/ k \in DOMAIN pending /\ pending'[k] = pending[k] /\ pending[k].at \in 1..Len(text)
         \/ k \notin DOMAIN pending /\ pending'[k].at = Len(text) + 1 /\ Len(words) > 0
  BY DEF ProgramInv, Placed
<1>5. Placed'
  <2>1. \A k \in DOMAIN pending' : pending'[k].at \in 1..Len(text')
    BY <1>2, <1>4
  <2>2. ASSUME NEW j \in DOMAIN pending', NEW k \in DOMAIN pending', j # k
        PROVE  pending'[j].at # pending'[k].at
    <3>1. CASE j \in DOMAIN pending /\ k \in DOMAIN pending
      BY <1>4, <2>2, <3>1 DEF ProgramInv, Placed
    <3>2. CASE j \notin DOMAIN pending \/ k \notin DOMAIN pending
      BY <1>2, <1>4, <2>2, <3>2
    <3> QED
      BY <3>1, <3>2
  <2> QED
    BY <2>1, <2>2 DEF Placed
<1>6. Linked'
  <2> SUFFICES ASSUME NEW k \in DOMAIN pending', pending'[k].at <= Len(image)
               PROVE  /\ pending'[k].name \in DOMAIN meant
                      /\ image[pending'[k].at] = Filling(pending'[k], meant)
    BY <1>1 DEF Linked
  <2>1. k \in DOMAIN pending /\ pending'[k] = pending[k]
    BY <1>1, <1>2, <1>4
  <2> QED
    BY <2>1 DEF ProgramInv, Linked
<1> QED
  BY <1>3, <1>5, <1>6 DEF ProgramInv

\* Words without a reference.
LEMMA EmitKeeps ==
    ASSUME ProgramInv, NEW words \in Seq(Instruction), Emit(words)
    PROVE  ProgramInv'
<1>1. pending' = pending /\ Emitted(words) /\ pending \in Seq(ReferenceRecords)
  BY DEF Emit, ProgramInv, ProgramTypes
<1> QED
  BY <1>1, EmittedKeeps

\* A reference: the word of it is the next one.
LEMMA ReferenceKeeps ==
    ASSUME ProgramInv, NEW op \in {"beq", "jal"}, NEW n \in Names, Reference(op, n)
    PROVE  ProgramInv'
<1> DEFINE ref == [at |-> Len(text) + 1, op |-> op, name |-> n]
<1>1. pending' = Append(pending, ref) /\ Emitted(<<Nop>>)
  BY DEF Reference
<1>2. /\ pending \in Seq(ReferenceRecords) /\ text \in Seq(Instruction)
  BY DEF ProgramInv, ProgramTypes
<1>3. ref \in ReferenceRecords /\ ref.at = Len(text) + 1
  BY <1>2 DEF ReferenceRecords
<1>4. <<Nop>> \in Seq(Instruction) /\ Len(<<Nop>>) = 1
  <2>1. 0 \in 0..(Half - 1) /\ "nop" \in Ops /\ "zero" \in Operands
    BY HalfFacts DEF Ops, Operands
  <2>2. Nop \in Instruction
    BY <2>1, Words DEF Nop
  <2> QED
    BY <2>2
<1> HIDE DEF ref
<1>5. /\ pending' \in Seq(ReferenceRecords)
      /\ \A k \in DOMAIN pending : k \in DOMAIN pending' /\ pending'[k] = pending[k]
      /\ \A k \in DOMAIN pending' \ DOMAIN pending :
            k = Len(pending) + 1 /\ pending'[k] = ref
  <2>1. DOMAIN pending = 1..Len(pending) /\ Len(pending) \in Nat
    BY <1>2
  <2>2. /\ pending' \in Seq(ReferenceRecords) /\ Len(pending') = Len(pending) + 1
        /\ DOMAIN pending' = 1..(Len(pending) + 1)
        /\ \A k \in 1..Len(pending) : pending'[k] = pending[k]
        /\ pending'[Len(pending) + 1] = ref
    BY ONLY <1>1, <1>2, <1>3, <2>1
  <2> QED
    BY ONLY <2>1, <2>2
<1>6. /\ \A k \in DOMAIN pending' \ DOMAIN pending :
            pending'[k].at = Len(text) + 1 /\ Len(<<Nop>>) > 0
      /\ \A j, k \in DOMAIN pending' \ DOMAIN pending : j = k
  BY <1>3, <1>4, <1>5
<1> QED
  BY <1>1, <1>4, <1>5, <1>6, EmittedKeeps

\* Every instruction but references.
LEMMA InstructionsKeep ==
    ASSUME ProgramInv
    PROVE  /\ \A r \in Operands : Jr(r) => ProgramInv'
           /\ \A r \in Operands : RType(r) => ProgramInv'
           /\ \A op \in Ops, r, s \in Operands, i \in Immediates :
                 IType(op, r, s, i) => ProgramInv'
           /\ \A r \in Operands, a \in DataAddresses : LoadAddr(r, a) => ProgramInv'
<1>1. /\ "zero" \in Operands /\ 0 \in 0..(Half - 1) /\ 0 \in Int
      /\ {"alu", "jr", "lui", "ori"} \subseteq Ops
  BY HalfFacts DEF Operands, Ops
<1>2. ASSUME NEW r \in Operands, Jr(r) PROVE ProgramInv'
  <2>1. Word("jr", "zero", r, 0) \in Instruction
    BY <1>1, Words
  <2>2. <<Word("jr", "zero", r, 0)>> \in Seq(Instruction)
    BY <2>1
  <2> QED
    BY <1>2, <2>2, EmitKeeps DEF Jr
<1>3. ASSUME NEW r \in Operands, RType(r) PROVE ProgramInv'
  <2>1. Word("alu", r, "zero", 0) \in Instruction
    BY <1>1, Words
  <2>2. <<Word("alu", r, "zero", 0)>> \in Seq(Instruction)
    BY <2>1
  <2> QED
    BY <1>3, <2>2, EmitKeeps DEF RType
<1>4. ASSUME NEW op \in Ops, NEW r \in Operands, NEW s \in Operands, NEW i \in Immediates,
             IType(op, r, s, i)
      PROVE  ProgramInv'
  <2>1. Imm16(i) \in 0..(Half - 1) /\ Imm16(i) \in Int
    BY HalfFacts, ProgramAssumption, Division DEF Imm16
  <2>2. Word(op, r, s, Imm16(i)) \in Instruction
    BY <2>1, Words
  <2>3. <<Word(op, r, s, Imm16(i))>> \in Seq(Instruction)
    BY <2>2
  <2> QED
    BY <1>4, <2>3, EmitKeeps DEF IType
<1>5. ASSUME NEW r \in Operands, NEW a \in DataAddresses, LoadAddr(r, a) PROVE ProgramInv'
  <2> DEFINE upper == Word("lui", r, "zero", a \div Half)
             lower == Word("ori", r, r, Low(a))
             words == IF Low(a) = 0 THEN <<upper>> ELSE <<upper, lower>>
  <2>1. a \div Half \in 0..(Half - 1) /\ Low(a) \in 0..(Half - 1)
    BY ProgramAssumption, Halves DEF Low
  <2>2. upper \in Instruction /\ lower \in Instruction
    <3>1. a \div Half \in Int /\ Low(a) \in Int
      BY <2>1
    <3> QED
      BY <1>1, <2>1, <3>1, Words
  <2>3. Emit(words)
    BY <1>5 DEF LoadAddr
  <2> HIDE DEF upper, lower
  <2>4. words \in Seq(Instruction)
    BY <2>2
  <2> QED
    BY <2>3, <2>4, EmitKeeps
<1> QED
  BY <1>2, <1>3, <1>4, <1>5

\* A name is given a place.
LEMMA LblKeeps ==
    ASSUME ProgramInv, NEW name \in Names, Lbl(name)
    PROVE  ProgramInv'
<1>1. /\ labels' = [n \in DOMAIN labels \cup {name} |-> IF n = name THEN Here ELSE labels[n]]
      /\ text' = text /\ pending' = pending /\ image' = image /\ meant' = meant
  BY DEF Lbl
<1>2. ProgramTypes
  BY DEF ProgramInv
<1>3. labels' \in LabelTables
  <2>1. PICK N \in SUBSET Names : labels \in [N -> Nat]
    BY <1>2 DEF ProgramTypes, LabelTables
  <2>2. Here \in Nat
    BY <1>2, ImageAssumption DEF ProgramTypes, Here, AddressOf
  <2>3. labels' \in [N \cup {name} -> Nat]
    BY <1>1, <2>1, <2>2
  <2> QED
    BY <2>3 DEF LabelTables
<1> QED
  BY <1>1, <1>2, <1>3 DEF ProgramInv, ProgramTypes, Placed, Linked

\* The places of labels are addresses.
LEMMA LabelFacts ==
    ASSUME NEW table \in LabelTables, NEW n \in DOMAIN table
    PROVE  table[n] \in Nat /\ n \in Names
BY DEF LabelTables

\* A word filled in.
LEMMA FillingFacts ==
    ASSUME NEW ref \in ReferenceRecords, NEW table \in LabelTables, ref.name \in DOMAIN table
    PROVE  /\ Filling(ref, table) \in Instruction
           /\ Filling(ref, table).op = ref.op
           /\ Filling(ref, table).imm =
                 IF ref.op = "beq" THEN Offset(ref.at, table[ref.name]) ELSE table[ref.name]
<1> DEFINE imm == IF ref.op = "beq" THEN Offset(ref.at, table[ref.name]) ELSE table[ref.name]
<1>1. /\ ref.at \in Nat /\ ref.op \in {"beq", "jal"} /\ ref.op \in Ops /\ "zero" \in Operands
      /\ table[ref.name] \in Nat
  BY LabelFacts DEF ReferenceRecords, Ops, Operands
<1>2. Offset(ref.at, table[ref.name]) \in 0..(Half - 1)
  <2>1. table[ref.name] - AddressOf(ref.at) - 1 \in Int
    BY <1>1, ImageAssumption DEF AddressOf
  <2> QED
    BY <2>1, HalfFacts, Division DEF Offset
<1>3. imm \in Int /\ (ref.op = "jal" \/ imm \in 0..(Half - 1))
  BY <1>1, <1>2
<1>4. Filling(ref, table) = Word(ref.op, "zero", "zero", imm)
  BY DEF Filling
<1> HIDE DEF imm
<1>5. Word(ref.op, "zero", "zero", imm) \in Instruction
  BY <1>1, <1>3, Words
<1>6. /\ Word(ref.op, "zero", "zero", imm).op = ref.op
      /\ Word(ref.op, "zero", "zero", imm).imm = imm
  BY DEF Word
<1> QED
  BY <1>4, <1>5, <1>6 DEF imm

\* The text with some references filled in.
LEMMA FilledFacts ==
    ASSUME ProgramInv, NEW n \in 0..Len(pending),
           \A k \in 1..n : pending[k].name \in DOMAIN labels
    PROVE  /\ Filled(n) \in Seq(Instruction) /\ Len(Filled(n)) = Len(text)
           /\ \A k \in 1..n : Filled(n)[pending[k].at] = Filling(pending[k], labels)
<1> DEFINE Refs(i) == {k \in References(n) : k > 0 /\ pending[k].at = i}
<1>1. /\ text \in Seq(Instruction) /\ pending \in Seq(ReferenceRecords)
      /\ labels \in LabelTables
      /\ DOMAIN text = 1..Len(text) /\ DOMAIN pending = 1..Len(pending)
      /\ Len(text) \in Nat /\ Len(pending) \in Nat
  BY DEF ProgramInv, ProgramTypes
<1>2. ASSUME NEW k \in 1..n
      PROVE  /\ pending[k] \in ReferenceRecords /\ pending[k].at \in DOMAIN text
             /\ Resolved(pending[k]) = Filling(pending[k], labels)
             /\ Filling(pending[k], labels) \in Instruction
             /\ Refs(pending[k].at) = {k}
  <2>1. k \in DOMAIN pending /\ k \in Nat /\ k > 0
    BY <1>1
  <2>2. pending[k] \in ReferenceRecords /\ pending[k].at \in DOMAIN text
    BY <1>1, <2>1 DEF ProgramInv, Placed
  <2>3. pending[k].op \in {"beq", "jal"}
    BY <2>2 DEF ReferenceRecords
  <2>4. Resolved(pending[k]) = Filling(pending[k], labels)
    BY <2>3 DEF Resolved, Filling, Branches
  <2>5. Filling(pending[k], labels) \in Instruction
    BY <1>1, <2>2, FillingFacts
  <2>6. \A j \in 1..n : pending[j].at = pending[k].at => j = k
    BY <1>1, <2>1 DEF ProgramInv, Placed
  <2>7. Refs(pending[k].at) = {k}
    BY <2>1, <2>6 DEF References
  <2> QED
    BY <2>2, <2>4, <2>5, <2>7
<1>3. \A k \in 1..n : Max({k}) = k
  BY DEF Max
<1>4. ASSUME NEW i \in DOMAIN text
      PROVE  /\ Filled(n)[i] = IF Refs(i) = {} THEN text[i] ELSE Resolved(pending[Max(Refs(i))])
             /\ Refs(i) # {} => \E k \in 1..n : pending[k].at = i
  BY DEF Filled, References
<1>5. DOMAIN Filled(n) = 1..Len(text)
  BY <1>1 DEF Filled
<1> HIDE DEF Refs
<1>6. \A k \in 1..n : Filled(n)[pending[k].at] = Filling(pending[k], labels)
  <2> SUFFICES ASSUME NEW k \in 1..n
               PROVE  Filled(n)[pending[k].at] = Filling(pending[k], labels)
    OBVIOUS
  <2>1. pending[k].at \in DOMAIN text /\ Refs(pending[k].at) = {k}
    BY <1>2
  <2>2. Max(Refs(pending[k].at)) = k /\ Refs(pending[k].at) # {}
    BY <1>3, <2>1
  <2>3. Filled(n)[pending[k].at] = Resolved(pending[k])
    BY ONLY <1>4, <2>1, <2>2
  <2> QED
    BY <1>2, <2>3
<1>7. \A i \in 1..Len(text) : Filled(n)[i] \in Instruction
  BY <1>1, <1>2, <1>4, <1>6
<1>8. Filled(n) = [i \in 1..Len(text) |-> Filled(n)[i]]
  BY <1>5 DEF Filled
<1> QED
  BY <1>1, <1>5, <1>6, <1>7, <1>8

\* link: what it returns has every reference filled in; what it leaves when a name
\* is missing has the words it had.
LEMMA LinkKeeps ==
    ASSUME ProgramInv, Link
    PROVE  ProgramInv'
<1> DEFINE missing == {k \in DOMAIN pending : pending[k].name \notin DOMAIN labels}
<1>1. /\ text \in Seq(Instruction) /\ pending \in Seq(ReferenceRecords)
      /\ image \in Seq(Instruction) /\ Len(image) <= Len(text)
      /\ labels \in LabelTables /\ meant \in LabelTables
      /\ DOMAIN pending = 1..Len(pending) /\ Len(pending) \in Nat
  BY DEF ProgramInv, ProgramTypes
<1>2. labels' = labels /\ pending' = pending
  BY DEF Link
<1>3. CASE missing = {}
  <2>1. text' = Filled(Len(pending)) /\ image' = text' /\ meant' = labels
    BY <1>3 DEF Link
  <2>2. /\ text' \in Seq(Instruction) /\ Len(text') = Len(text)
        /\ \A k \in DOMAIN pending : text'[pending[k].at] = Filling(pending[k], labels)
    <3>1. \A k \in 1..Len(pending) : pending[k].name \in DOMAIN labels
      BY <1>1, <1>3
    <3>2. Len(pending) \in 0..Len(pending)
      BY <1>1
    <3> QED
      BY <1>1, <2>1, <3>1, <3>2, FilledFacts
  <2>3. ProgramTypes'
    BY <1>1, <1>2, <2>1, <2>2 DEF ProgramTypes
  <2>4. Placed'
    BY <1>2, <2>2 DEF ProgramInv, Placed
  <2>5. Linked'
    BY <1>1, <1>2, <1>3, <2>1, <2>2 DEF Linked
  <2> QED
    BY <2>3, <2>4, <2>5 DEF ProgramInv
<1>4. CASE missing # {}
  <2> DEFINE n == Min(missing) - 1
  <2>1. text' = Filled(n) /\ image' = image /\ meant' = meant
    BY <1>4 DEF Link
  <2>2. Min(missing) \in missing /\ \A k \in missing : Min(missing) <= k
    <3>1. IsFiniteSet(1..Len(pending))
      BY <1>1, FS_Interval
    <3>2. missing \in SUBSET (1..Len(pending)) /\ missing \in SUBSET Nat
      BY <1>1
    <3>3. IsFiniteSet(missing)
      BY ONLY <3>1, <3>2, FS_Subset
    <3> HIDE DEF missing
    <3> QED
      BY <1>4, <3>2, <3>3, LeastAndGreatest
  <2>3. n \in 0..Len(pending) /\ \A k \in 1..n : k \in DOMAIN pending /\ k \notin missing
    <3>1. Min(missing) \in 1..Len(pending)
      BY <1>1, <2>2
    <3>2. missing \subseteq Nat
      BY <1>1
    <3> HIDE DEF missing
    <3> QED
      BY <1>1, <2>2, <3>1, <3>2
  <2>4. text' \in Seq(Instruction) /\ Len(text') = Len(text)
    <3>1. \A k \in 1..n : pending[k].name \in DOMAIN labels
      BY <2>3
    <3> HIDE DEF n
    <3> QED
      BY <2>1, <2>3, <3>1, FilledFacts
  <2> QED
    BY <1>1, <1>2, <2>1, <2>4 DEF ProgramInv, ProgramTypes, Placed, Linked
<1> QED
  BY <1>3, <1>4

-----------------------------------------------------------------------------
\* A program begins with nothing.
LEMMA ProgramInitInv == ProgramInit => ProgramInv
<1> SUFFICES ASSUME ProgramInit PROVE ProgramInv
  OBVIOUS
<1>1. /\ text = <<>> /\ labels = <<>> /\ pending = <<>> /\ image = <<>> /\ meant = <<>>
  BY DEF ProgramInit
<1>2. <<>> \in LabelTables
  <2>1. <<>> \in [{} -> Nat]
    OBVIOUS
  <2> QED
    BY <2>1 DEF LabelTables
<1>3. DOMAIN pending = {}
  BY <1>1
<1> QED
  BY <1>1, <1>2, <1>3 DEF ProgramInv, ProgramTypes, Placed, Linked

\* Every call of the assembler keeps the invariant.
LEMMA ProgramNextInv == ProgramInv /\ [ProgramNext]_programVars => ProgramInv'
<1> SUFFICES ASSUME ProgramInv, [ProgramNext]_programVars PROVE ProgramInv'
  OBVIOUS
<1>1. Registers \cup {"zero", "ra", "sp"} = Operands
  BY DEF Operands
<1>2. Operations \cup {"lui", "addiu"} \subseteq Ops
  BY OperationsAssumption DEF Ops
<1>3. CASE Link
  BY <1>3, LinkKeeps
<1>4. CASE \E n \in Names : Lbl(n)
  BY <1>4, LblKeeps
<1>5. CASE \E n \in Names, op \in {"beq", "jal"} : Reference(op, n)
  BY <1>5, ReferenceKeeps
<1>6. CASE Jr("ra")
  BY <1>1, <1>6, InstructionsKeep
<1>7. CASE \E i \in Immediates : IType("addiu", "sp", "sp", i)
  BY <1>1, <1>2, <1>7, InstructionsKeep
<1>8. ASSUME NEW r \in Registers,
             \/ RType(r)
             \/ \E a \in DataAddresses : LoadAddr(r, a)
             \/ \E i \in Immediates :
                   \/ IType("lui", r, "zero", i)
                   \/ \E op \in Operations, s \in Registers : IType(op, r, s, i)
      PROVE  ProgramInv'
  <2>1. r \in Operands /\ "zero" \in Operands /\ Registers \subseteq Operands
    BY <1>1
  <2>2. CASE RType(r)
    BY <2>1, <2>2, InstructionsKeep
  <2>3. CASE \E a \in DataAddresses : LoadAddr(r, a)
    BY <2>1, <2>3, InstructionsKeep
  <2>4. CASE \E i \in Immediates : IType("lui", r, "zero", i)
    BY <1>2, <2>1, <2>4, InstructionsKeep
  <2>5. CASE \E i \in Immediates, op \in Operations, s \in Registers :
                IType(op, r, s, i)
    BY <1>2, <2>1, <2>5, InstructionsKeep
  <2> QED
    BY <1>8, <2>2, <2>3, <2>4, <2>5
<1>9. CASE UNCHANGED programVars
  BY <1>9 DEF programVars, ProgramInv, ProgramTypes, Placed, Linked
<1> QED
  BY <1>3, <1>4, <1>5, <1>6, <1>7, <1>8, <1>9 DEF ProgramNext

\* What ProgramInv says of a reference of the image, and of how it is read.
LEMMA LinkedFacts ==
    ASSUME ProgramInv, NEW k \in DOMAIN pending, pending[k].at <= Len(image)
    PROVE  /\ pending[k].at \in DOMAIN image
           /\ image[pending[k].at].op = pending[k].op
           /\ pending[k].op \in {"beq", "jal"}
           /\ meant[pending[k].name] \in Nat
           /\ image[pending[k].at].imm =
                 IF pending[k].op = "beq" THEN Offset(pending[k].at, meant[pending[k].name])
                                          ELSE meant[pending[k].name]
<1>1. /\ pending \in Seq(ReferenceRecords) /\ meant \in LabelTables
      /\ image \in Seq(Instruction) /\ Len(image) \in Nat /\ DOMAIN image = 1..Len(image)
      /\ pending[k].at \in 1..Len(text)
      /\ pending[k].name \in DOMAIN meant
      /\ image[pending[k].at] = Filling(pending[k], meant)
  BY DEF ProgramInv, ProgramTypes, Placed, Linked
<1>2. pending[k] \in ReferenceRecords
  BY <1>1
<1>3. pending[k].at \in DOMAIN image
  BY <1>1, <1>2 DEF ReferenceRecords
<1>4. pending[k].op \in {"beq", "jal"}
  BY <1>2 DEF ReferenceRecords
<1>5. meant[pending[k].name] \in Nat
  BY <1>1, LabelFacts
<1> QED
  BY <1>1, <1>2, <1>3, <1>4, <1>5, FillingFacts

\* A reference of the image goes where its label was.
LEMMA ReferencesLandFacts == ProgramInv => ReferencesLand
<1> SUFFICES ASSUME ProgramInv, NEW k \in DOMAIN pending, pending[k].at <= Len(image)
             PROVE  /\ image[pending[k].at].op = pending[k].op
                    /\ (pending[k].op = "jal" \/ Near(pending[k])) =>
                          Destination(AddressOf(pending[k].at), image[pending[k].at])
                             = meant[pending[k].name]
  BY DEF ReferencesLand
<1> DEFINE at == pending[k].at
           target == meant[pending[k].name]
           d == target - AddressOf(at) - 1
<1>1. /\ at \in DOMAIN image /\ image[at].op = pending[k].op
      /\ pending[k].op \in {"beq", "jal"} /\ target \in Nat
      /\ image[at].imm = IF pending[k].op = "beq" THEN Offset(at, target) ELSE target
  BY LinkedFacts
<1>2. CASE pending[k].op = "jal"
  BY <1>1, <1>2 DEF Destination, Branches
<1>3. ASSUME pending[k].op = "beq", Near(pending[k])
      PROVE  Destination(AddressOf(at), image[at]) = target
  <2>1. d \in (-(Half \div 2))..(Half \div 2 - 1)
    BY <1>3 DEF Near
  <2>2. SignExtended(image[at].imm) = d
    BY <1>1, <1>3, <2>1, FieldIsRead DEF Offset
  <2>3. Destination(AddressOf(at), image[at]) = AddressOf(at) + 1 + SignExtended(image[at].imm)
    BY <1>1, <1>3 DEF Destination, Branches
  <2>4. AddressOf(at) \in Int
    <3>1. image \in Seq(Instruction)
      BY DEF ProgramInv, ProgramTypes
    <3> QED
      BY <1>1, <3>1, Addressing
  <2> HIDE DEF at, target
  <2> QED
    BY <1>1, <2>2, <2>3, <2>4
<1> QED
  BY <1>1, <1>2, <1>3

\* Assembler.ReferencesLand: a branch or a call of a linked image goes to its label.
THEOREM ReferencesLandTheorem == ProgramSpec => []ReferencesLand
BY ProgramInitInv, ProgramNextInv, ReferencesLandFacts, PTL DEF ProgramSpec
-----------------------------------------------------------------------------
\* What two words build is found at the second.
LEMMA LoadsFacts == ProgramInv => LoadsAreFound
<1> SUFFICES ASSUME ProgramInv, NEW i \in DOMAIN image, image[i].op \in Uses,
                    Writer(i) \in (i - Window)..(i - 1), Writer(i) > 0,
                    image[Writer(i)].op = "lui"
             PROVE  AddressOf(i) \in FindDatarefs(image, Built(i)) <=> image[i].op # "sb"
  BY DEF LoadsAreFound
<1> DEFINE j == Writer(i)
           h == image[j].imm
           l == image[i].imm
           b == Built(i)
<1>1. /\ image \in Seq(Instruction) /\ DOMAIN image = 1..Len(image) /\ Len(image) \in Nat
      /\ i \in Nat
  BY DEF ProgramInv, ProgramTypes
<1>2. j \in DOMAIN image /\ image[j].rt = image[i].rs
  <2> DEFINE S == {m \in 1..(i - 1) : Writes(image[m], image[i].rs)}
  <2>1. S \in SUBSET (1..(i - 1)) /\ S \cup {0} \in SUBSET Nat /\ S \cup {0} # {}
    BY <1>1
  <2>2. IsFiniteSet(1..(i - 1))
    <3>1. 1 \in Int /\ i - 1 \in Int
      BY <1>1
    <3> QED
      BY ONLY <3>1, FS_Interval
  <2>3. IsFiniteSet(S)
    BY ONLY <2>1, <2>2, FS_Subset
  <2>4. IsFiniteSet(S \cup {0})
    BY ONLY <2>3, FS_AddElement
  <2>5. j = Max(S \cup {0})
    BY DEF Writer
  <2> HIDE DEF S
  <2>6. j \in S \cup {0}
    BY ONLY <2>1, <2>4, <2>5, LeastAndGreatest
  <2>7. j \in S
    BY <2>6
  <2> QED
    BY <1>1, <2>7 DEF S, Writes
<1>3. /\ image[j] \in Instruction /\ image[i] \in Instruction
      /\ h \in 0..(Half - 1) /\ l \in 0..(Half - 1)
  <2>1. image[j] \in Instruction /\ image[i] \in Instruction
    BY <1>1, <1>2
  <2>2. image[j].op # "jal" /\ image[i].op # "jal"
    BY DEF Uses, Accesses
  <2> QED
    BY <2>1, <2>2 DEF Instruction
<1>4. Half > 0 /\ Half \in Nat /\ h \in Nat /\ l \in Nat /\ h < Half /\ l < Half
  BY <1>3, HalfFacts
<1>5. b % Half = l /\ HighFor(image[i], b) = h
  <2>1. CASE image[i].op # "ori" /\ l >= Half \div 2
    <3>1. b = (h * Half + (l - Half)) % (Half * Half)
      BY <2>1 DEF Built, SignExtended
    <3> HIDE DEF b, h, l
    <3>2. b % Half = l /\ (b \div Half + 1) % Half = h
      BY <1>3, <2>1, <3>1, Carried
    <3> QED
      BY <2>1, <3>2 DEF HighFor, Low
  <2>2. CASE ~(image[i].op # "ori" /\ l >= Half \div 2)
    <3>1. b = (h * Half + l) % (Half * Half)
      BY <2>2 DEF Built, SignExtended
    <3> HIDE DEF b, h, l
    <3>2. /\ h * Half + l \in 0..(Half * Half - 1)
          /\ (h * Half + l) \div Half = h /\ (h * Half + l) % Half = l
      BY <1>3, Joined
    <3>3. b = h * Half + l
      <4> DEFINE x == h * Half + l
                 n == Half * Half
      <4>1. n \in Int /\ x \in 0..(n - 1)
        BY <1>4, <3>2
      <4> HIDE DEF x, n
      <4>2. x % n = x
        BY <4>1
      <4> QED
        BY <3>1, <4>2 DEF x, n
    <3>4. HighFor(image[i], b) = (b \div Half + 0) % Half
      BY <2>2, <3>2, <3>3 DEF HighFor, Low
    <3>5. (h + 0) % Half = h
      BY <1>4
    <3> QED
      BY <3>2, <3>3, <3>4, <3>5
  <2> QED
    BY <2>1, <2>2
<1> HIDE DEF j, h, l, b
<1>6. /\ image[i].imm = Low(b)
      /\ j \in (i - Window)..(i - 1) /\ j \in DOMAIN image /\ image[j].op = "lui"
      /\ image[j].rt = image[i].rs /\ image[j].imm = HighFor(image[i], b)
  BY <1>2, <1>5 DEF Low, l, h, j
<1>7. CASE image[i].op # "sb"
  <2>1. image[i].op \in {"addiu", "ori"} \cup Accesses
    BY <1>7 DEF Uses
  <2> QED
    BY <1>6, <1>7, <2>1 DEF FindDatarefs, b
<1>8. CASE image[i].op = "sb"
  <2>1. \A k \in DOMAIN image : AddressOf(k) = AddressOf(i) => k = i
    BY <1>1, ImageAssumption DEF AddressOf
  <2>2. image[i].op \notin {"addiu", "ori"} \cup Accesses
    BY <1>8 DEF Accesses
  <2>3. AddressOf(i) \notin FindDatarefs(image, b)
    BY <2>1, <2>2 DEF FindDatarefs
  <2> QED
    BY <1>8, <2>3 DEF b
<1> QED
  BY <1>7, <1>8

\* A call of a label is found by both scanners.
LEMMA CallsFacts == ProgramInv => CallsAreFound
<1> SUFFICES ASSUME ProgramInv, NEW k \in DOMAIN pending, pending[k].op = "jal",
                    pending[k].at <= Len(image)
             PROVE  /\ AddressOf(pending[k].at) \in FindCallers(image, meant[pending[k].name])
                    /\ \A f \in FindFunctions(image) :
                          f.start = meant[pending[k].name] =>
                             f.callers = FindCallers(image, f.start)
  BY DEF CallsAreFound
<1>1. /\ pending[k].at \in DOMAIN image /\ image[pending[k].at].op = "jal"
      /\ image[pending[k].at].imm = meant[pending[k].name]
  BY LinkedFacts
<1>2. image \in Seq(Instruction)
  BY DEF ProgramInv, ProgramTypes
<1>3. WordAt(image, AddressOf(pending[k].at)) = image[pending[k].at]
  BY <1>1, <1>2, Addressing
<1>4. AddressOf(pending[k].at) \in Jals(image)
  BY <1>1 DEF Jals, IsJal
<1>5. \A f \in FindFunctions(image) : f.callers = FindCallers(image, f.start)
  BY DEF FindFunctions, Function, FindCallers
<1> QED
  BY <1>1, <1>3, <1>4, <1>5 DEF FindCallers

\* Assembler.EveryUseIsFound: the scanners find every address that is built, but for a
\* byte store, and every call of a label.
THEOREM EveryUseIsFoundTheorem == ProgramSpec => []EveryUseIsFound
<1>1. ProgramInv => EveryUseIsFound
  BY LoadsFacts, CallsFacts DEF EveryUseIsFound
<1> QED
  BY ProgramInitInv, ProgramNextInv, <1>1, PTL DEF ProgramSpec
-----------------------------------------------------------------------------
\* The addresses of an image, and its words at them.
LEMMA AddressesOfImage ==
    ASSUME NEW s \in Seq(Instruction)
    PROVE  /\ \A a \in Base..AddressOf(Len(s)) :
                 /\ a - Base + 1 \in DOMAIN s /\ a = AddressOf(a - Base + 1)
                 /\ WordAt(s, a) = s[a - Base + 1]
           /\ \A a \in Jals(s) : a \in Nat /\ IsJal(WordAt(s, a))
           /\ \A a \in Base..AddressOf(Len(s)) : IsReturn(WordAt(s, a)) => a \in ReturnSites(s)
           /\ ReturnSites(s) \subseteq Nat /\ IsFiniteSet(ReturnSites(s))
<1>1. Base \in Nat /\ Len(s) \in Nat /\ DOMAIN s = 1..Len(s)
  BY ImageAssumption
<1>2. ASSUME NEW a \in Base..AddressOf(Len(s))
      PROVE  /\ a - Base + 1 \in DOMAIN s /\ a = AddressOf(a - Base + 1)
             /\ WordAt(s, a) = s[a - Base + 1]
  BY <1>1 DEF AddressOf, WordAt
<1>3. \A i \in DOMAIN s : AddressOf(i) \in Nat /\ WordAt(s, AddressOf(i)) = s[i]
  BY Addressing
<1>4. \A a \in Jals(s) : a \in Nat /\ IsJal(WordAt(s, a))
  BY <1>3 DEF Jals
<1>5. \A a \in Base..AddressOf(Len(s)) : IsReturn(WordAt(s, a)) => a \in ReturnSites(s)
  BY <1>2 DEF ReturnSites
<1>6. ReturnSites(s) \subseteq Nat
  BY <1>3 DEF ReturnSites
<1>7. IsFiniteSet(ReturnSites(s))
  <2>1. ReturnSites(s) \in SUBSET (Base..AddressOf(Len(s)))
    BY <1>1 DEF ReturnSites, AddressOf
  <2>2. Base \in Int /\ AddressOf(Len(s)) \in Int
    BY <1>1 DEF AddressOf
  <2>3. IsFiniteSet(Base..AddressOf(Len(s)))
    BY ONLY <2>2, FS_Interval
  <2> QED
    BY ONLY <2>1, <2>3, FS_Subset
<1> QED
  BY <1>2, <1>4, <1>5, <1>6, <1>7

\* Of the functions around an address one starts first.
LEMMA FirstFunction ==
    ASSUME NEW s \in Seq(Instruction), NEW around \in SUBSET FindFunctions(s), around # {}
    PROVE  \E g \in around : \A h \in around : g.start <= h.start
<1> DEFINE starts == {g.start : g \in around}
<1>1. \A g \in FindFunctions(s) : g.start \in Base..AddressOf(Len(s))
  BY DEF FindFunctions, Inside
<1>2. Base \in Nat /\ AddressOf(Len(s)) \in Int
  BY ImageAssumption DEF AddressOf
<1>3. starts \in SUBSET (Base..AddressOf(Len(s))) /\ starts \in SUBSET Nat /\ starts # {}
  BY <1>1, <1>2
<1>4. IsFiniteSet(Base..AddressOf(Len(s)))
  <2>1. Base \in Int /\ AddressOf(Len(s)) \in Int
    BY <1>2
  <2> QED
    BY ONLY <2>1, FS_Interval
<1>5. IsFiniteSet(starts)
  <2> HIDE DEF starts
  <2> QED
    BY ONLY <1>3, <1>4, FS_Subset
<1>6. Min(starts) \in starts /\ \A x \in starts : Min(starts) <= x
  <2> HIDE DEF starts
  <2> QED
    BY ONLY <1>3, <1>5, LeastAndGreatest
<1> QED
  BY <1>6

\* An entry that is proposed is that of a function around the instruction.
LEMMA CandidatesFacts ==
    ASSUME NEW s \in Seq(Instruction), NEW target \in Base..AddressOf(Len(s)),
           NEW c \in FindHookCandidates(s, target)
    PROVE  c.kind = "function_entry_inline" =>
              \E f \in FindFunctions(s) : /\ target \in f.start..(f.end - 1)
                                          /\ c.site = f.start
<1> DEFINE around == {f \in FindFunctions(s) : target \in f.start..(f.end - 1)}
           nearby == {a \in Jals(s) : a \in (target - 64)..(target + 63)}
           Proposed(kind, sites) == {Candidate(kind, a, WordAt(s, a)) : a \in sites}
<1>3. \A kind, sites : \A x \in Proposed(kind, sites) :
         x.kind = kind /\ \E a \in sites : x.site = a /\ x.original = WordAt(s, a)
  BY DEF Candidate
<1>4. PICK f : /\ \/ c \in Proposed("nearby_jal", nearby)
                  \/ /\ around # {}
                     /\ \/ c \in Proposed("function_entry_inline", {f.start})
                        \/ c \in Proposed("caller_jal", f.callers)
               /\ around # {} => f \in around
  <2> DEFINE g == CHOOSE g \in around : \A h \in around : g.start <= h.start
  <2>1. \/ c \in Proposed("nearby_jal", nearby)
        \/ /\ around # {}
           /\ \/ c \in Proposed("function_entry_inline", {g.start})
              \/ c \in Proposed("caller_jal", g.callers)
    BY DEF FindHookCandidates
  <2>2. around # {} => g \in around
    <3>1. around \in SUBSET FindFunctions(s)
      OBVIOUS
    <3> HIDE DEF around
    <3> QED
      BY <3>1, FirstFunction
  <2> HIDE DEF g, around, nearby, Proposed
  <2> QED
    BY <2>1, <2>2
<1>5. CASE c \in Proposed("nearby_jal", nearby)
  <2> HIDE DEF Proposed
  <2> QED
    BY <1>3, <1>5
<1>6. CASE around # {} /\ c \in Proposed("caller_jal", f.callers)
  <2> HIDE DEF Proposed, around
  <2> QED
    BY ONLY <1>3, <1>6
<1>7. CASE around # {} /\ c \in Proposed("function_entry_inline", {f.start})
  <2>1. f \in FindFunctions(s) /\ target \in f.start..(f.end - 1)
    BY <1>4, <1>7
  <2> HIDE DEF Proposed, around
  <2>2. c.kind = "function_entry_inline" /\ c.site = f.start
    BY ONLY <1>3, <1>7
  <2> QED
    BY <2>1, <2>2
<1> QED
  BY ONLY <1>4, <1>5, <1>6, <1>7

\* The bodies of functions and of regions hold no return but the last.
LEMMA NoReturnBefore ==
    ASSUME NEW s \in Seq(Instruction), NEW target \in Base..AddressOf(Len(s))
    PROVE  /\ \A f \in FindFunctions(s) : target \in f.start..(f.end - 1) =>
                 /\ f.start <= target
                 /\ \A a \in (f.start + 1)..(target - 1) : ~IsReturn(WordAt(s, a))
           /\ target \in FuncRegion(s, target) =>
                 \A a \in FunctionStart(s, target)..(target - 2) : ~IsReturn(WordAt(s, a))
<1>1. /\ Base \in Nat /\ AddressOf(Len(s)) \in Int /\ target \in Int
      /\ ReturnSites(s) \subseteq Nat /\ IsFiniteSet(ReturnSites(s))
      /\ \A a \in Base..AddressOf(Len(s)) : IsReturn(WordAt(s, a)) => a \in ReturnSites(s)
  BY ImageAssumption, AddressesOfImage DEF AddressOf
<1>2. ASSUME NEW S \in SUBSET ReturnSites(s), S # {}
      PROVE  Min(S) \in S /\ \A x \in S : Min(S) <= x
  <2>1. IsFiniteSet(S) /\ S \in SUBSET Nat
    BY <1>1, FS_Subset
  <2> QED
    BY <1>2, <2>1, LeastAndGreatest
<1>3. ASSUME NEW f \in FindFunctions(s), target \in f.start..(f.end - 1)
      PROVE  /\ f.start <= target
             /\ \A a \in (f.start + 1)..(target - 1) : ~IsReturn(WordAt(s, a))
  <2> DEFINE returns == {a \in ReturnSites(s) : a > f.start}
  <2>1. f.start \in Base..AddressOf(Len(s)) /\ f.end = End(s, f.start)
    BY DEF FindFunctions, Function, Inside
  <2>2. f.start \in Int /\ f.start <= target
    BY <1>1, <1>3, <2>1
  <2> SUFFICES ASSUME NEW a \in (f.start + 1)..(target - 1), IsReturn(WordAt(s, a))
               PROVE  FALSE
    BY <2>2
  <2>3. a \in Base..AddressOf(Len(s)) /\ a > f.start /\ a < target /\ a \in Int
    BY <1>1, <2>1, <2>2
  <2>4. a \in returns /\ returns \in SUBSET ReturnSites(s)
    BY <1>1, <2>3
  <2>5. f.end = Min(returns) + 1
    BY <2>1, <2>4 DEF End
  <2>6. Min(returns) \in Nat /\ Min(returns) <= a
    BY <1>1, <1>2, <2>4
  <2> HIDE DEF returns
  <2> QED
    BY <1>1, <1>3, <2>2, <2>3, <2>5, <2>6
<1>4. ASSUME target \in FuncRegion(s, target),
             NEW a \in FunctionStart(s, target)..(target - 2), IsReturn(WordAt(s, a))
      PROVE  FALSE
  <2> DEFINE start == FunctionStart(s, target)
             returns == {r \in ReturnSites(s) : r >= start}
             low == target - SearchBack + 1
             found == {x \in low..target :
                          x > Base /\ Inside(s, x) /\ IsPrologue(WordAt(s, x))}
  <2>1. start # 0 /\ target \in start..(Min(returns) + 1)
    BY <1>4 DEF FuncRegion
  <2>2. start \in Base..target
    <3>1. found # {} /\ start = Max(found)
      BY <2>1 DEF FunctionStart
    <3>2. low \in Int /\ target \in Int
      BY <1>1, ImageAssumption
    <3>3. IsFiniteSet(low..target)
      BY ONLY <3>2, FS_Interval
    <3>4. found \in SUBSET (low..target) /\ found \in SUBSET Nat
      BY <1>1, <3>2
    <3>5. IsFiniteSet(found)
      <4> HIDE DEF found
      <4> QED
        BY ONLY <3>3, <3>4, FS_Subset
    <3>6. Max(found) \in found
      <4> HIDE DEF found
      <4> QED
        BY ONLY <3>1, <3>4, <3>5, LeastAndGreatest
    <3> QED
      BY <1>1, <3>1, <3>6
  <2> HIDE DEF start
  <2>3. a \in start..(target - 2)
    BY DEF start
  <2>4. a \in Base..AddressOf(Len(s)) /\ a >= start /\ a <= target - 2
    BY <1>1, <2>2, <2>3
  <2>5. a \in returns /\ returns \in SUBSET ReturnSites(s)
    BY <1>1, <1>4, <2>4
  <2>6. Min(returns) \in Nat /\ Min(returns) <= a
    BY <1>1, <1>2, <2>5
  <2> HIDE DEF returns
  <2> QED
    BY <1>1, <2>1, <2>2, <2>4, <2>6
<1> QED
  BY <1>3, <1>4

\* Assembler.EntryRunsToTarget: an entry that is proposed runs on to the instruction,
\* and so does the listing of the function around one.
THEOREM EntryRunsToTargetTheorem == ProgramSpec => []EntryRunsToTarget
<1>1. ProgramInv => EntryRunsToTarget
  <2> SUFFICES ASSUME ProgramInv, NEW target \in Base..AddressOf(Len(image))
               PROVE  /\ \A c \in FindHookCandidates(image, target) :
                            c.kind = "function_entry_inline" =>
                               /\ c.site <= target
                               /\ \A a \in (c.site + 1)..(target - 1) :
                                     ~IsReturn(WordAt(image, a))
                      /\ target \in FuncRegion(image, target) =>
                            \A a \in FunctionStart(image, target)..(target - 2) :
                               ~IsReturn(WordAt(image, a))
    BY DEF EntryRunsToTarget
  <2>1. image \in Seq(Instruction)
    BY DEF ProgramInv, ProgramTypes
  <2> QED
    BY <2>1, CandidatesFacts, NoReturnBefore
<1> QED
  BY ProgramInitInv, ProgramNextInv, <1>1, PTL DEF ProgramSpec
=============================================================================
