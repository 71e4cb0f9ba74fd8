---------------------------- MODULE Acpm_proofs ----------------------------
(***************************************************************************)
(* Theorems about Acpm, for every script of calls, every PMIC and however  *)
(* long the firmware takes: each call is served once, in order and as the  *)
(* board meant it, and what a read returns is what its own call found.     *)
(***************************************************************************)
EXTENDS Acpm, TLAPS

Accesses == [func : Funcs, reg : Reg, ok : BOOLEAN, data : Seq(Byte)]

(* Four registers hold the request that is due. *)
BytesLaid(r2, r3) ==
  Call.func = "bulk_write" => r2 = Pack(Call.data, 0) /\ r3 = Pack(Call.data, 4)

Prepared(r0, r1, r2, r3) ==
  r0 = Request0(Call) /\ r1 = Request1(Call) /\ BytesLaid(r2, r3)

(* They hold the answer to it. *)
Answered ==
  /\ sr[3] = Answer(log[k].ok, IF log[k].ok THEN log[k].data[1] ELSE 0)
  /\ log[k].func = "bulk_read" /\ log[k].ok
       => sr[0] = Pack(log[k].data, 0) /\ sr[1] = Pack(log[k].data, 4)

(* What the firmware may be doing while the driver waits. *)
Quiet == fw = "idle" /\ ~doorbell /\ ~pending

Rung    == /\ fw = "idle" /\ doorbell /\ ~pending /\ Len(log) = k - 1
           /\ Prepared(sr[0], sr[1], sr[2], sr[3])
Taken   == /\ fw = "serve" /\ ~doorbell /\ ~pending /\ Len(log) = k - 1
           /\ Prepared(job[1], job[2], job[3], job[4])
Carried == fw = "reply" /\ ~doorbell /\ ~pending /\ Len(log) = k
Told    == fw = "interrupt" /\ ~doorbell /\ ~pending /\ Len(log) = k /\ Answered
Raised  == fw = "idle" /\ ~doorbell /\ pending /\ Len(log) = k /\ Answered

(* What is known in each phase of the driver. *)
Phase ==
  /\ pc \notin {"call", "return"} => k <= Len(Script)
  /\ pc \in {"call", "put2", "put3", "put0", "put1", "ring", "return"}
       => Quiet /\ Len(log) = k - 1
  /\ pc = "put3" => sr[2] = Pack(Call.data, 0)
  /\ pc \in {"put2", "put3"} => Call.func = "bulk_write"
  /\ pc \in {"put0", "put1", "ring"} => BytesLaid(sr[2], sr[3])
  /\ pc \in {"put1", "ring"} => sr[0] = Request0(Call)
  /\ pc = "ring" => sr[1] = Request1(Call)
  /\ pc = "wait" => Rung \/ Taken \/ Carried \/ Told \/ Raised
  /\ pc = "clear" => Raised
  /\ pc \in {"answer", "bytes"} => Quiet /\ Len(log) = k /\ Answered
  /\ pc = "bytes" => Call.func = "bulk_read" /\ log[k].ok
  /\ pc = "return" => k = Len(Script) + 1

Typed ==
  /\ TypeOK
  /\ sr = [a \in 0 .. 3 |-> sr[a]]
  /\ got \in Seq(Seq(Byte)) /\ log \in Seq(Accesses)

(* The firmware has served a beginning of the script. *)
LogRight == \A j \in 1 .. Len(log) : j <= Len(Script) /\ AsAsked(j)

Inv == Typed /\ Phase /\ LogRight /\ AnswerIsOwn
-----------------------------------------------------------------------------
(* The bytes of two registers are the bytes that were laid there. *)
LEMMA UnpackPack ==
  ASSUME NEW buf \in Seq(Byte), NEW n \in 1 .. 8, Len(buf) = n
  PROVE  Unpack(n, Pack(buf, 0), Pack(buf, 4)) = buf
<1>. DEFINE lane(first) == [l \in 0 .. 3 |-> IF first + l < n THEN buf[first + l + 1] ELSE 0]
            bytes == Unpack(n, Pack(buf, 0), Pack(buf, 4))
<1>1. Pack(buf, 0)[2] = lane(0) /\ Pack(buf, 4)[2] = lane(4)
  BY DEF Pack, Bytes
<1>2. ASSUME NEW j \in 1 .. n
      PROVE  (IF j <= 4 THEN lane(0)[j - 1] ELSE lane(4)[j - 1 - 4]) = buf[j]
  <2>1. CASE j <= 4
    BY <2>1
  <2>2. CASE ~(j <= 4)
    <3>1. j - 1 - 4 \in 0 .. 3 /\ 4 + (j - 1 - 4) < n /\ 4 + (j - 1 - 4) + 1 = j
      BY <2>2
    <3>. QED  BY <2>2, <3>1
  <2>. QED  BY <2>1, <2>2
<1>3. bytes = [j \in 1 .. n |-> buf[j]]
  <2>. HIDE DEF lane
  <2>1. bytes = [j \in 1 .. n |-> IF j <= 4 THEN lane(0)[j - 1] ELSE lane(4)[j - 1 - 4]]
    BY <1>1 DEF Unpack
  <2>. QED  BY <1>2, <2>1
<1>. QED  BY <1>3

(* The call that is due. *)
LEMMA CallTyped ==
  ASSUME k \in 1 .. Len(Script)
  PROVE  IsRequest(Call)
BY AcpmAssumption DEF Call

LEMMA InitInv == Init => Inv
<1>. SUFFICES ASSUME Init PROVE Inv
  OBVIOUS
<1>1. TypeOK
  <2>1. \A a \in 0 .. 3 : sr[a][1] \in {"request", "bytes", "answer"}
    BY DEF Init, Answer, Pack, Bytes
  <2>2. pmic \in [Reg -> Byte]
    BY AcpmAssumption DEF Init
  <2>3. reply[1] = "answer" /\ reply[2] \in BOOLEAN /\ reply[3] \in Byte
    BY AcpmAssumption DEF Init, Answer
  <2>4. k \in 1 .. Len(Script) + 1 /\ Len(got) = k - 1
    BY AcpmAssumption DEF Init
  <2>. QED  BY <2>1, <2>2, <2>3, <2>4 DEF Init, TypeOK
<1>2. Typed
  BY <1>1 DEF Init, Typed
<1>3. Phase /\ LogRight
  BY DEF Init, Phase, LogRight, Quiet
<1>. QED  BY <1>1, <1>2, <1>3 DEF Init, Inv, AnswerIsOwn

(* What is known of the access that the firmware has taken. *)
LEMMA JobKnown ==
  ASSUME Typed, k \in 1 .. Len(Script), Prepared(job[1], job[2], job[3], job[4])
  PROVE  /\ JobFunc = Call.func /\ JobReg = Call.reg /\ JobCount = Call.count
         /\ JobFunc \in {"write", "bulk_write"} => Written = Call.data
<1>1. IsRequest(Call)
  BY CallTyped
<1>2. job[1] = <<"request", Call.reg>>
      /\ job[2] = <<"request", Call.func, Call.count, Call.data>>
  BY DEF Prepared, Request0, Request1
<1>3. JobFunc = Call.func /\ JobReg = Call.reg /\ JobCount = Call.count
  BY <1>2 DEF JobFunc, JobReg, JobCount
<1>4. CASE Call.func = "write"
  BY <1>2, <1>3, <1>4 DEF Written
<1>5. CASE Call.func = "bulk_write"
  <2>1. Call.data \in Seq(Byte) /\ Len(Call.data) = Call.count /\ Call.count \in 1 .. 8
    BY <1>1, <1>5 DEF IsRequest
  <2>2. Written = Unpack(Len(Call.data), Pack(Call.data, 0), Pack(Call.data, 4))
    BY <1>3, <1>5, <2>1 DEF Written, Prepared, BytesLaid
  <2>. QED  BY <1>3, <1>5, <2>1, <2>2, UnpackPack
<1>. QED  BY <1>3, <1>4, <1>5

(* The firmware carries out the call that is due, *)
LEMMA ServeEffect ==
  ASSUME Inv, Serve
  PROVE  /\ pc = "wait" /\ k \in 1 .. Len(Script) /\ Len(log) = k - 1 /\ Taken
         /\ pmic' \in [Reg -> Byte]
         /\ \E new \in Accesses :
              /\ log' = Append(log, new)
              /\ new.func = Call.func /\ new.reg = Call.reg /\ Len(new.data) = Call.count
              /\ new.ok /\ new.func \in {"write", "bulk_write"} => new.data = Call.data
<1>. USE DEF Inv
<1>1. pc = "wait" /\ Taken
  BY DEF Serve, Phase, Quiet, Raised, Rung, Carried, Told, Typed, TypeOK
<1>2. k \in 1 .. Len(Script) /\ Len(log) = k - 1
  BY <1>1, AcpmAssumption DEF Phase, Typed, TypeOK, Taken
<1>3. IsRequest(Call)
  BY <1>2, CallTyped
<1>4. JobFunc = Call.func /\ JobReg = Call.reg /\ JobCount = Call.count
      /\ (JobFunc \in {"write", "bulk_write"} => Written = Call.data)
  BY <1>1, <1>2, JobKnown DEF Taken
<1>. DEFINE data == [j \in 1 .. Call.count |-> pmic'[Call.reg + j - 1]]
            here == Call.reg .. Call.reg + Call.count - 1
<1>5. PICK ok \in BOOLEAN :
        /\ pmic' = IF ok /\ Call.func \in {"write", "bulk_write"}
                   THEN [r \in Reg |-> IF r \in here THEN Call.data[r - Call.reg + 1]
                                      ELSE pmic[r]]
                   ELSE pmic
        /\ log' = Append(log, [func |-> Call.func, reg |-> Call.reg, ok |-> ok,
                              data |-> data])
  BY <1>4 DEF Serve, Target
<1>6. /\ Call.reg \in Nat /\ Call.count \in 1 .. 8 /\ here \subseteq Reg /\ Reg \subseteq Nat
      /\ Call.func \in {"write", "bulk_write"}
           => Call.data \in Seq(Byte) /\ Len(Call.data) = Call.count
      /\ Call.func \in Funcs /\ Call.reg \in Reg
  BY <1>3, AcpmAssumption DEF IsRequest
<1>7. pmic' \in [Reg -> Byte]
        /\ (ok /\ Call.func \in {"write", "bulk_write"} => data = Call.data)
  <2>1. CASE ok /\ Call.func \in {"write", "bulk_write"}
    <3>1. \A r \in here : r - Call.reg + 1 \in 1 .. Call.count
      BY SMTT(30), <1>6
    <3>2. \A r \in here : Call.data[r - Call.reg + 1] \in Byte
      BY <1>6, <2>1, <3>1
    <3>3. pmic' \in [Reg -> Byte]
      BY <1>5, <2>1, <3>2 DEF Typed, TypeOK
    <3>4. ASSUME NEW j \in 1 .. Call.count PROVE pmic'[Call.reg + j - 1] = Call.data[j]
      <4>1. Call.reg + j - 1 \in here /\ (Call.reg + j - 1) - Call.reg + 1 = j
        BY SMTT(30), <1>6
      <4>. QED  BY <1>5, <1>6, <2>1, <4>1
    <3>5. Call.data = [j \in 1 .. Call.count |-> Call.data[j]]
      BY <1>6, <2>1
    <3>. QED  BY <3>3, <3>4, <3>5
  <2>2. CASE ~(ok /\ Call.func \in {"write", "bulk_write"})
    BY <1>5, <2>2 DEF Typed, TypeOK
  <2>. QED  BY <2>1, <2>2
<1>8. data \in Seq(Byte) /\ Len(data) = Call.count
  <2>1. \A j \in 1 .. Call.count : Call.reg + j - 1 \in Reg
    <3>1. \A j \in 1 .. Call.count : Call.reg + j - 1 \in here
      BY SMTT(30), <1>6
    <3>. QED  BY <1>6, <3>1
  <2>2. \A j \in 1 .. Call.count : pmic'[Call.reg + j - 1] \in Byte
    BY <1>7, <2>1
  <2>. QED  BY <1>6, <2>2
<1>. HIDE DEF data
<1>9. [func |-> Call.func, reg |-> Call.reg, ok |-> ok, data |-> data] \in Accesses
  BY <1>6, <1>8 DEF Accesses
<1>. QED  BY <1>1, <1>2, <1>5, <1>7, <1>8, <1>9

(* and lays down the answer to it. *)
LEMMA ReplyEffect ==
  ASSUME Inv, Reply
  PROVE  /\ Answered' /\ pc = "wait" /\ Carried
         /\ \A a \in 0 .. 3 : sr'[a][1] \in {"request", "bytes", "answer"}
<1>. USE DEF Inv
<1>1. pc = "wait" /\ Carried
  BY DEF Reply, Phase, Quiet, Raised, Rung, Taken, Told, Typed, TypeOK
<1>2. Served = log[k] /\ Len(log) = k
  BY <1>1 DEF Served, Carried
<1>3. log' = log /\ k' = k
  BY DEF Reply, apVars
<1>4. \A a \in 0 .. 3 :
        sr'[a] = IF a = 3 THEN Answer(log[k].ok, IF log[k].ok THEN log[k].data[1] ELSE 0)
                 ELSE IF a < 2 /\ log[k].func = "bulk_read" /\ log[k].ok
                      THEN Pack(log[k].data, 4 * a)
                 ELSE sr[a]
  BY <1>2 DEF Reply
<1>5. Answered'
  BY <1>3, <1>4 DEF Answered
<1>6. \A a \in 0 .. 3 : sr'[a][1] \in {"request", "bytes", "answer"}
  BY <1>4 DEF Answer, Pack, Bytes, Typed, TypeOK
<1>. QED  BY <1>1, <1>5, <1>6

(* One action at a time. *)
LEMMA TypeStep == ASSUME Inv, Next PROVE Typed'
<1>. USE DEF Inv
<1>1. /\ k \in Nat /\ Len(Script) \in Nat /\ k \in 1 .. Len(Script) + 1
      /\ pc \notin {"call", "return"} => k \in 1 .. Len(Script) /\ k + 1 \in 1 .. Len(Script) + 1
  BY AcpmAssumption DEF Typed, TypeOK, Phase
<1>2. CASE Begin \/ Return \/ Await
  BY <1>2 DEF Begin, Return, Await, Typed, TypeOK, fwVars, boxVars
<1>3. CASE Ring \/ Clear
  BY <1>3 DEF Ring, Clear, PendingCleared, Typed, TypeOK, fwVars
<1>4. CASE PutBytes \/ PutCommand
  <2>1. PICK a, v :
          /\ a \in 0 .. 3 /\ sr' = [sr EXCEPT ![a] = v] /\ v[1] \in {"request", "bytes", "answer"}
          /\ pc' \in {"put3", "put0", "put1", "ring"}
          /\ UNCHANGED <<k, reply, got, fwVars, doorbell, pending>>
    <3>1. PICK a \in 0 .. 3, v \in {Pack(Call.data, 0), Pack(Call.data, SecondWord),
                                   Request0(Call), Request1(Call)},
               next \in {"put3", "put0", "put1", "ring"},
               at \in {"put2", "put3", "put0", "put1"} :
            Put(at, a, v, next)
      BY <1>4 DEF PutBytes, PutCommand
    <3>2. v[1] \in {"request", "bytes", "answer"}
      BY DEF Pack, Bytes, Request0, Request1
    <3>. QED  BY <3>1, <3>2 DEF Put
  <2>2. sr' = [b \in 0 .. 3 |-> sr'[b]]
        /\ \A b \in 0 .. 3 : sr'[b] = IF b = a THEN v ELSE sr[b]
    BY <2>1 DEF Typed
  <2>3. \A b \in 0 .. 3 : sr'[b][1] \in {"request", "bytes", "answer"}
    BY <2>1, <2>2 DEF Typed, TypeOK
  <2>. QED  BY <2>1, <2>2, <2>3 DEF Typed, TypeOK, fwVars
<1>5. CASE ReadAnswer
  <2>1. /\ reply' = sr[3] /\ UNCHANGED <<fwVars, boxVars>> /\ k <= Len(Script)
        /\ Answered /\ Len(log) = k
    BY <1>5 DEF ReadAnswer, Phase
  <2>2. log[k] \in Accesses
    BY <1>1, <2>1 DEF Typed, TypeOK
  <2>3. log[k].ok => log[k].data[1] \in Byte
    <3>1. Len(log[k].data) = Script[k].count /\ IsRequest(Script[k])
      BY <1>1, <2>1, AcpmAssumption DEF LogRight, AsAsked
    <3>. QED  BY <2>2, <3>1 DEF Accesses, IsRequest
  <2>4. reply'[1] = "answer" /\ reply'[2] \in BOOLEAN /\ reply'[3] \in Byte
    <3>1. CASE log[k].ok
      BY <2>1, <2>2, <2>3, <3>1, AcpmAssumption DEF Answered, Answer, Accesses
    <3>2. CASE ~log[k].ok
      BY <2>1, <2>2, <3>2, AcpmAssumption DEF Answered, Answer, Accesses
    <3>. QED  BY <3>1, <3>2
  <2>5. \/ k' = k /\ got' = got /\ pc' = "bytes"
        \/ /\ k' = k + 1 /\ pc' = "call"
           /\ got' = Append(got, <<>>) \/ got' = Append(got, <<reply'[3]>>)
    BY <1>5 DEF ReadAnswer, EndCall
  <2>6. got' \in Seq(Seq(Byte)) /\ Len(got') = k' - 1
    <3>1. got \in Seq(Seq(Byte)) /\ Len(got) = k - 1
      BY DEF Typed, TypeOK
    <3>2. <<>> \in Seq(Byte) /\ <<reply'[3]>> \in Seq(Byte)
      BY <2>4
    <3>3. CASE k' = k /\ got' = got
      BY <3>1, <3>3
    <3>4. ASSUME NEW data \in Seq(Byte), k' = k + 1, got' = Append(got, data)
          PROVE  got' \in Seq(Seq(Byte)) /\ Len(got') = k' - 1
      BY <1>1, <3>1, <3>4
    <3>. QED  BY <2>5, <3>2, <3>3, <3>4
  <2>. QED  BY <1>1, <2>1, <2>4, <2>5, <2>6 DEF Typed, TypeOK, fwVars, boxVars
<1>6. CASE ReadBytes
  <2>1. /\ k <= Len(Script) /\ Answered /\ Len(log) = k
        /\ Call.func = "bulk_read" /\ log[k].ok
    BY <1>6 DEF ReadBytes, Phase
  <2>2. /\ log[k] \in Accesses /\ log[k].func = Call.func
        /\ Len(log[k].data) = Call.count /\ Call.count \in 1 .. 8
    BY <1>1, <2>1, AcpmAssumption DEF Typed, TypeOK, LogRight, AsAsked, Call, IsRequest
  <2>3. Unpack(Call.count, sr[0], sr[1]) = log[k].data /\ log[k].data \in Seq(Byte)
    <3>1. log[k].data \in Seq(Byte)
      BY <2>2 DEF Accesses
    <3>2. Unpack(Call.count, Pack(log[k].data, 0), Pack(log[k].data, 4)) = log[k].data
      BY <2>2, <3>1, UnpackPack, Zenon
    <3>3. sr[0] = Pack(log[k].data, 0) /\ sr[1] = Pack(log[k].data, 4)
      BY <2>1, <2>2 DEF Answered
    <3>. QED  BY <3>1, <3>2, <3>3
  <2>4. k' = k + 1 /\ got' = Append(got, log[k].data) /\ pc' = "call"
        /\ UNCHANGED <<reply, fwVars, boxVars>>
    BY <1>6, <2>3 DEF ReadBytes, EndCall
  <2>5. got' \in Seq(Seq(Byte)) /\ Len(got') = k' - 1
    BY <1>1, <2>3, <2>4 DEF Typed, TypeOK
  <2>. QED  BY <1>1, <1>6, <2>4, <2>5 DEF ReadBytes, Typed, TypeOK, fwVars, boxVars
<1>7. CASE Accept \/ Interrupt
  BY <1>7 DEF Accept, Interrupt, Typed, TypeOK, apVars
<1>8. CASE Serve
  <2>1. pmic' \in [Reg -> Byte]
    BY <1>8, ServeEffect
  <2>2. PICK new \in Accesses : log' = Append(log, new)
    BY <1>8, ServeEffect
  <2>3. log' \in Seq(Accesses)
    BY <2>2 DEF Typed
  <2>. QED  BY <1>8, <2>1, <2>3 DEF Serve, Typed, TypeOK, apVars, boxVars
<1>9. CASE Reply
  <2>1. \A a \in 0 .. 3 : sr'[a][1] \in {"request", "bytes", "answer"}
    BY <1>9, ReplyEffect
  <2>2. sr' = [a \in 0 .. 3 |-> sr'[a]]
    BY <1>9 DEF Reply
  <2>. QED  BY <1>9, <2>1, <2>2 DEF Reply, Typed, TypeOK, apVars
<1>10. CASE Finished
  BY <1>10 DEF Finished, vars, apVars, fwVars, boxVars, Typed, TypeOK
<1>. QED
  BY <1>2, <1>3, <1>4, <1>5, <1>6, <1>7, <1>8, <1>9, <1>10 DEF Next, Driver, Firmware

(* Nothing that was served ever changes, and only Serve adds to it. *)
LEMMA LogKept ==
  ASSUME Inv, Next
  PROVE  \/ log' = log /\ ~Serve
         \/ /\ Serve /\ Len(log') = Len(log) + 1 /\ Len(log) \in Nat
            /\ \A j \in 1 .. Len(log) : log'[j] = log[j]
            /\ UNCHANGED <<k, got, pc>>
<1>1. log \in Seq(Accesses)
  BY DEF Inv, Typed
<1>2. CASE Serve
  <2>1. PICK new \in Accesses : log' = Append(log, new)
    BY <1>2, ServeEffect
  <2>2. /\ Len(log') = Len(log) + 1 /\ Len(log) \in Nat
        /\ \A j \in 1 .. Len(log) : log'[j] = log[j]
    BY <1>1, <2>1
  <2>. QED  BY <1>2, <2>2 DEF Serve, apVars
<1>3. CASE ~Serve
  BY <1>3 DEF Next, Driver, Firmware, Begin, Return, PutBytes, PutCommand, Put, Ring, Await,
     Clear, ReadAnswer, ReadBytes, Accept, Reply, Interrupt, Finished, fwVars, vars
<1>. QED  BY <1>2, <1>3

LEMMA PhaseStep == ASSUME Inv, Next PROVE Phase'
<1>. USE DEF Inv
<1>1. /\ k \in Nat /\ Len(Script) \in Nat /\ k <= Len(Script) + 1 /\ log \in Seq(Accesses)
      /\ pc \in {"call", "put2", "put3", "put0", "put1", "ring", "wait", "clear",
                 "answer", "bytes", "return"}
  BY AcpmAssumption DEF Typed, TypeOK
<1>2. CASE Begin
  BY <1>1, <1>2 DEF Begin, Phase, Quiet, fwVars, boxVars, Call, BytesLaid
<1>3. CASE Return
  BY <1>1, <1>3 DEF Return, Phase, Quiet, fwVars, boxVars
<1>4. CASE PutBytes \/ PutCommand
  <2>0. DOMAIN sr = 0 .. 3 /\ k <= Len(Script) /\ Quiet /\ Len(log) = k - 1
        /\ UNCHANGED <<k, reply, got, fwVars, doorbell, pending>>
    BY <1>4 DEF PutBytes, PutCommand, Put, Phase, Typed
  <2>1. CASE Put("put2", 2, Pack(Call.data, 0), "put3")
    <3>1. sr'[2] = Pack(Call.data, 0)
      BY <2>0, <2>1 DEF Put
    <3>. QED  BY <2>0, <2>1, <3>1 DEF Put, Phase, Quiet, fwVars, Call
  <2>2. CASE Put("put3", 3, Pack(Call.data, SecondWord), "put0")
    <3>1. sr'[2] = Pack(Call.data, 0) /\ sr'[3] = Pack(Call.data, 4)
      BY <2>0, <2>2 DEF Put, Phase, SecondWord
    <3>. QED  BY <2>0, <2>2, <3>1 DEF Put, Phase, Quiet, fwVars, Call, BytesLaid
  <2>3. CASE Put("put0", 0, Request0(Call), "put1")
    <3>1. sr'[0] = Request0(Call) /\ sr'[2] = sr[2] /\ sr'[3] = sr[3]
      BY <2>0, <2>3 DEF Put
    <3>. QED  BY <2>0, <2>3, <3>1 DEF Put, Phase, Quiet, fwVars, Call, BytesLaid, Request0
  <2>4. CASE Put("put1", 1, Request1(Call), "ring")
    <3>1. sr'[1] = Request1(Call) /\ sr'[0] = sr[0] /\ sr'[2] = sr[2] /\ sr'[3] = sr[3]
      BY <2>0, <2>4 DEF Put
    <3>. QED  BY <2>0, <2>4, <3>1 DEF Put, Phase, Quiet, fwVars, Call, BytesLaid, Request0, Request1
  <2>. QED  BY <1>4, <2>1, <2>2, <2>3, <2>4 DEF PutBytes, PutCommand
<1>5. CASE Ring
  <2>1. Rung'
    BY <1>5 DEF Ring, Phase, Quiet, fwVars, Call, Rung, Prepared, BytesLaid
  <2>. QED  BY <1>5, <2>1 DEF Ring, Phase
<1>6. CASE Await
  <2>1. Raised
    BY <1>6 DEF Await, Phase, Rung, Taken, Carried, Told
  <2>2. Raised'
    BY <1>6, <2>1 DEF Await, Raised, Answered, fwVars, boxVars
  <2>. QED  BY <1>6, <2>2 DEF Await, Phase
<1>7. CASE Clear
  BY <1>1, <1>7 DEF Clear, PendingCleared, Phase, Raised, Quiet, Answered, fwVars
<1>8. CASE ReadAnswer
  <2>0. k <= Len(Script) /\ Quiet /\ Len(log) = k /\ Answered /\ UNCHANGED <<fwVars, boxVars>>
    BY <1>8 DEF ReadAnswer, Phase
  <2>1. CASE pc' = "call"
    BY <1>1, <1>8, <2>0, <2>1 DEF ReadAnswer, EndCall, Phase, Quiet, fwVars, boxVars
  <2>2. CASE pc' # "call"
    <3>1. pc' = "bytes" /\ k' = k /\ reply'[2] /\ reply' = sr[3] /\ Call.func = "bulk_read"
      BY <1>8, <2>2 DEF ReadAnswer, EndCall
    <3>2. log[k].ok
      BY <2>0, <3>1 DEF Answered, Answer
    <3>3. Answered' /\ Quiet' /\ Len(log') = k'
      BY <2>0, <3>1 DEF Answered, Quiet, fwVars, boxVars
    <3>. QED  BY <2>0, <3>1, <3>2, <3>3 DEF Phase, Call, fwVars
  <2>. QED  BY <2>1, <2>2
<1>9. CASE ReadBytes
  BY <1>1, <1>9 DEF ReadBytes, EndCall, Phase, Quiet, fwVars, boxVars
<1>10. CASE Accept
  <2>1. pc = "wait" /\ Rung
    BY <1>1, <1>10 DEF Accept, Phase, Quiet, Taken, Carried, Told, Raised
  <2>2. Taken'
    <3>1. job'[1] = sr[0] /\ job'[2] = sr[1] /\ job'[3] = sr[2] /\ job'[4] = sr[3]
      BY <1>10 DEF Accept
    <3>. QED  BY <1>10, <2>1, <3>1 DEF Accept, Rung, Taken, Prepared, BytesLaid, Call, apVars
  <2>. QED  BY <1>10, <2>1, <2>2 DEF Accept, Phase, apVars
<1>11. CASE Serve
  <2>1. pc = "wait" /\ k \in 1 .. Len(Script) /\ Len(log) = k - 1 /\ Taken
    BY <1>11, ServeEffect
  <2>2. Carried'
    BY <1>1, <1>11, <2>1, LogKept DEF Serve, Carried, Taken, boxVars, apVars
  <2>. QED  BY <1>1, <1>11, <2>1, <2>2 DEF Serve, Phase, apVars
<1>12. CASE Reply
  <2>1. Answered' /\ pc = "wait" /\ Carried
    BY <1>12, ReplyEffect
  <2>2. Told'
    BY <1>12, <2>1 DEF Reply, Told, Carried, apVars
  <2>. QED  BY <1>12, <2>1, <2>2 DEF Reply, Phase, apVars
<1>13. CASE Interrupt
  <2>1. pc = "wait" /\ Told
    BY <1>1, <1>13 DEF Interrupt, Phase, Quiet, Rung, Taken, Carried, Raised
  <2>2. Raised'
    BY <1>13, <2>1 DEF Interrupt, Told, Raised, Answered, apVars
  <2>. QED  BY <1>13, <2>1, <2>2 DEF Interrupt, Phase, apVars
<1>14. CASE Finished
  BY <1>1, <1>14 DEF Finished, vars, apVars, fwVars, boxVars, Phase, Quiet
<1>. QED
  BY <1>2, <1>3, <1>4, <1>5, <1>6, <1>7, <1>8, <1>9, <1>10, <1>11, <1>12, <1>13, <1>14
  DEF Next, Driver, Firmware

LEMMA LogStep == ASSUME Inv, Next PROVE LogRight'
<1>1. CASE log' = log
  BY <1>1 DEF Inv, LogRight, AsAsked
<1>2. CASE Serve
  <2>1. /\ k \in 1 .. Len(Script) /\ Len(log) = k - 1 /\ Len(log') = k
        /\ \A j \in 1 .. Len(log) : log'[j] = log[j]
    BY <1>2, ServeEffect, LogKept
  <2>2. ASSUME NEW j \in 1 .. Len(log') PROVE j <= Len(Script) /\ AsAsked(j)'
    <3>1. CASE j \in 1 .. Len(log)
      BY <2>1, <3>1 DEF Inv, LogRight, AsAsked
    <3>2. CASE j = k
      <4>1. PICK new \in Accesses :
              /\ log' = Append(log, new)
              /\ new.func = Call.func /\ new.reg = Call.reg /\ Len(new.data) = Call.count
              /\ new.ok /\ new.func \in {"write", "bulk_write"} => new.data = Call.data
        BY <1>2, ServeEffect
      <4>2. log'[k] = new
        BY <2>1, <4>1 DEF Inv, Typed
      <4>. QED  BY <2>1, <3>2, <4>1, <4>2 DEF AsAsked, Call
    <3>. QED  BY <2>1, <3>1, <3>2
  <2>. QED  BY <2>2 DEF LogRight
<1>. QED  BY <1>1, <1>2, LogKept

(* What the call that returns now gives to the board. *)
LEMMA AnswerTaken ==
  ASSUME Inv, Next, k' # k
  PROVE  /\ k' = k + 1 /\ k \in 1 .. Len(log) /\ k <= Len(Script)
         /\ pc # "return" /\ pc' # "return" /\ log' = log
         /\ \E data :
              /\ got' = Append(got, data)
              /\ log[k].func \in {"read", "bulk_read"} /\ log[k].ok => data = log[k].data
<1>. USE DEF Inv
<1>0. k \in Nat /\ k >= 1 /\ log \in Seq(Accesses)
  BY AcpmAssumption DEF Typed, TypeOK
<1>1. ReadAnswer \/ ReadBytes
  BY DEF Next, Driver, Firmware, Begin, Return, PutBytes, PutCommand, Put, Ring, Await, Clear,
     Accept, Serve, Reply, Interrupt, Finished, apVars, vars
<1>2. /\ k' = k + 1 /\ pc \in {"answer", "bytes"} /\ pc' = "call" /\ log' = log
      /\ k <= Len(Script) /\ Len(log) = k /\ Answered
  BY <1>1 DEF ReadAnswer, ReadBytes, EndCall, fwVars, Phase
<1>3. /\ log[k] \in Accesses /\ log[k].func = Call.func /\ IsRequest(Call)
      /\ Len(log[k].data) = Call.count
  BY <1>0, <1>2, AcpmAssumption DEF Typed, LogRight, AsAsked, Call
<1>4. CASE ReadAnswer
  <2>1. reply'[3] = IF log[k].ok THEN log[k].data[1] ELSE 0
    BY <1>2, <1>4 DEF ReadAnswer, Answered, Answer
  <2>2. reply'[2] = log[k].ok
    BY <1>2, <1>4 DEF ReadAnswer, Answered, Answer
  <2>3. CASE Call.func = "read"
    <3>1. got' = Append(got, <<reply'[3]>>)
      BY <1>4, <2>3 DEF ReadAnswer, EndCall
    <3>2. log[k].ok => log[k].data = <<reply'[3]>>
      <4>1. log[k].data \in Seq(Byte) /\ Len(log[k].data) = 1
        BY <1>3, <2>3 DEF Accesses, IsRequest
      <4>. QED  BY <2>1, <4>1
    <3>3. k \in 1 .. Len(log) /\ pc # "return" /\ pc' # "return"
      BY <1>0, <1>2
    <3>. QED  BY <1>2, <3>1, <3>2, <3>3, Zenon
  <2>4. CASE Call.func \in {"write", "bulk_write"}
    <3>1. got' = Append(got, <<>>)
      BY <1>4, <2>4 DEF ReadAnswer, EndCall
    <3>. QED  BY <1>0, <1>2, <1>3, <2>4, <3>1
  <2>5. CASE Call.func = "bulk_read"
    <3>1. got' = Append(got, <<>>) /\ ~log[k].ok
      BY <2>2, <2>5, <1>4 DEF ReadAnswer, EndCall
    <3>. QED  BY <1>0, <1>2, <3>1
  <2>. QED  BY <1>3, <2>3, <2>4, <2>5 DEF IsRequest, Funcs
<1>5. CASE ReadBytes
  <2>1. Call.func = "bulk_read" /\ log[k].ok
    BY <1>5 DEF ReadBytes, Phase
  <2>2. log[k].data \in Seq(Byte) /\ Call.count \in 1 .. 8
    BY <1>3 DEF Accesses, IsRequest
  <2>3. Unpack(Call.count, sr[0], sr[1]) = log[k].data
    <3>1. Unpack(Call.count, Pack(log[k].data, 0), Pack(log[k].data, 4)) = log[k].data
      BY <1>3, <2>2, UnpackPack, Zenon
    <3>2. sr[0] = Pack(log[k].data, 0) /\ sr[1] = Pack(log[k].data, 4)
      BY <1>2, <1>3, <2>1 DEF Answered
    <3>. QED  BY <3>1, <3>2
  <2>. QED  BY <1>0, <1>2, <1>5, <2>3 DEF ReadBytes, EndCall
<1>. QED  BY <1>1, <1>4, <1>5

LEMMA AnswerStep == ASSUME Inv, Next PROVE AnswerIsOwn'
<1>. USE DEF Inv
<1>1. /\ k \in Nat /\ k' \in Nat /\ Len(log) \in Nat /\ Len(log') \in Nat
      /\ got \in Seq(Seq(Byte)) /\ Len(got) = k - 1 /\ TypeOK'
  <2>1. Typed'
    BY TypeStep
  <2>2. got \in Seq(Seq(Byte)) /\ log \in Seq(Accesses) /\ log' \in Seq(Accesses)
    BY <2>1 DEF Typed
  <2>3. k \in Nat /\ k' \in Nat /\ Len(got) = k - 1
    BY <2>1, AcpmAssumption DEF Typed, TypeOK
  <2>. QED  BY <2>1, <2>2, <2>3 DEF Typed
<1>2. /\ Len(log) <= Len(log')
      /\ \A j \in 1 .. Len(log) : log'[j] = log[j]
  BY <1>1, LogKept
<1>3. ASSUME NEW j \in 1 .. k - 1, got'[j] = got[j]
      PROVE  /\ j <= Len(log')
             /\ log'[j].func \in {"read", "bulk_read"} /\ log'[j].ok => got'[j] = log'[j].data
  <2>1. /\ j <= Len(log)
        /\ log[j].func \in {"read", "bulk_read"} /\ log[j].ok => got[j] = log[j].data
    BY DEF AnswerIsOwn
  <2>2. j \in 1 .. Len(log) /\ j <= Len(log')
    BY <1>1, <1>2, <2>1
  <2>. QED  BY <1>2, <1>3, <2>1, <2>2
<1>4. CASE k' = k
  <2>1. got' = got
    BY <1>4, <1>1 DEF Next, Driver, Firmware, Begin, Return, PutBytes, PutCommand, Put, Ring,
       Await, Clear, ReadAnswer, ReadBytes, EndCall, Accept, Serve, Reply, Interrupt, Finished,
       apVars, vars
  <2>. QED  BY <1>1, <1>3, <1>4, <2>1 DEF AnswerIsOwn
<1>5. CASE k' # k
  <2>1. PICK data :
          /\ got' = Append(got, data)
          /\ log[k].func \in {"read", "bulk_read"} /\ log[k].ok => data = log[k].data
    BY <1>5, AnswerTaken
  <2>2. k' = k + 1 /\ k \in 1 .. Len(log) /\ log' = log
    BY <1>5, AnswerTaken
  <2>3. got'[k] = data /\ \A j \in 1 .. k - 1 : got'[j] = got[j]
    BY <1>1, <2>1
  <2>. QED  BY <1>1, <1>3, <2>1, <2>2, <2>3 DEF AnswerIsOwn
<1>. QED  BY <1>4, <1>5

LEMMA Kept == ASSUME Inv, UNCHANGED vars PROVE Inv'
<1>1. UNCHANGED <<pc, k, reply, got, sr, doorbell, pending, fw, job, pmic, log>>
  BY DEF vars, apVars, fwVars, boxVars
<1>2. Typed' /\ LogRight' /\ AnswerIsOwn'
  BY <1>1 DEF Inv, Typed, TypeOK, LogRight, AsAsked, AnswerIsOwn
<1>3. Phase'
  BY <1>1 DEF Inv, Phase, Quiet, Rung, Taken, Carried, Told, Raised, Answered, Prepared,
     BytesLaid, Call
<1>. QED  BY <1>2, <1>3 DEF Inv

(* The inductive invariant. *)
THEOREM Invariance == Spec => []Inv
<1>1. Inv /\ [Next]_vars => Inv'
  BY Kept, TypeStep, PhaseStep, LogStep, AnswerStep DEF Inv
<1>. QED  BY InitInv, <1>1, PTL DEF Spec

(* What a call gives to the board is what the PMIC held when this very call *)
(* was served, byte by byte: spmi_read and spmi_bulk_read of acpm.c.        *)
THEOREM ReadsItsOwnAnswer == Spec => []AnswerIsOwn
<1>1. Inv => AnswerIsOwn
  BY DEF Inv
<1>. QED  BY <1>1, Invariance, PTL
-----------------------------------------------------------------------------
LEMMA ServedIsLog == Inv => ServedInOrder = Len(log)
<1>. SUFFICES ASSUME Inv PROVE ServedInOrder = Len(log)
  OBVIOUS
<1>1. Len(log) \in Nat /\ Len(Script) \in Nat
  BY AcpmAssumption DEF Inv, Typed
<1>2. Len(log) <= Len(Script)
  BY <1>1 DEF Inv, LogRight
<1>. QED  BY <1>1, <1>2 DEF ServedInOrder, Inv, LogRight

(* The board, the driver and the firmware together implement DeviceScript:  *)
(* every call is served once and in order, none is asked before the one     *)
(* before it has been answered, and none returns before it is served.       *)
THEOREM KeepsItsPromise == Spec => KeepsPromise
<1>1. Init => Promise!Init
  <2>. SUFFICES ASSUME Init PROVE Promise!Init
    OBVIOUS
  <2>1. ServedInOrder = 0
    BY InitInv, ServedIsLog DEF Init
  <2>. QED  BY <2>1 DEF Init, Promise!Init
<1>2. Inv /\ Inv' /\ [Next]_vars => [Promise!Next]_(Promise!vars)
  <2>. SUFFICES ASSUME Inv, Inv', [Next]_vars
       PROVE  Promise!Next \/ UNCHANGED Promise!vars
    OBVIOUS
  <2>1. ServedInOrder = Len(log) /\ ServedInOrder' = Len(log')
    <3>1. (Inv => ServedInOrder = Len(log))'
      BY ServedIsLog, PTL
    <3>. QED  BY <3>1, ServedIsLog
  <2>2. k \in Nat /\ Len(Script) \in Nat /\ k <= Len(Script) + 1
    BY AcpmAssumption DEF Inv, Typed, TypeOK
  <2>3. CASE Serve
    <3>1. pc = "wait" /\ pc' = pc /\ k' = k /\ Len(log) = k - 1 /\ Len(log') = Len(log) + 1
          /\ k <= Len(Script)
      <4>1. Next /\ pc' = pc /\ k' = k
        BY <2>3 DEF Serve, apVars, Next, Firmware
      <4>2. pc = "wait" /\ k \in 1 .. Len(Script) /\ Len(log) = k - 1
        BY <2>3, ServeEffect
      <4>3. Len(log') = Len(log) + 1
        BY <2>3, <4>1, LogKept
      <4>. QED  BY <2>2, <4>1, <4>2, <4>3
    <3>. QED  BY <2>1, <2>2, <3>1 DEF Promise!Next, Promise!Apply
  <2>4. CASE Next /\ k' # k
    <3>1. /\ k' = k + 1 /\ k \in 1 .. Len(log) /\ pc # "return" /\ pc' # "return"
          /\ log' = log
      BY <2>4, AnswerTaken
    <3>2. Len(log) \in Nat
      BY DEF Inv, Typed
    <3>. QED  BY <2>1, <2>2, <3>1, <3>2 DEF Promise!Next, Promise!Acknowledge
  <2>5. CASE Return
    <3>1. pc # "return" /\ pc' = "return" /\ k' = k /\ log' = log /\ k - 1 = Len(Script)
      BY <2>2, <2>5 DEF Return, fwVars
    <3>. QED  BY <2>1, <3>1 DEF Promise!Next, Promise!Succeed
  <2>6. CASE /\ k' = k /\ log' = log /\ (pc' = "return") = (pc = "return")
    BY <2>1, <2>6 DEF Promise!vars
  <2>7. CASE UNCHANGED vars
    BY <2>6, <2>7 DEF vars, apVars, fwVars
  <2>8. CASE Next /\ k' = k /\ ~Serve /\ ~Return
    <3>1. log' = log
      BY <2>8, LogKept
    <3>2. (pc' = "return") = (pc = "return")
      BY <2>8 DEF Next, Driver, Firmware, Begin, PutBytes, PutCommand, Put, Ring, Await, Clear,
         ReadAnswer, ReadBytes, EndCall, Accept, Reply, Interrupt, Finished, apVars, vars
    <3>. QED  BY <2>6, <2>8, <3>1, <3>2
  <2>. QED  BY <2>3, <2>4, <2>5, <2>7, <2>8
<1>. QED  BY <1>1, <1>2, Invariance, PTL DEF Spec, KeepsPromise, Promise!Spec
=============================================================================
