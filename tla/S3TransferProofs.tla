-------------------------- MODULE S3TransferProofs --------------------------
(* Proofs about S3Transfer (types, bounded retries, whole transfers and the    *)
(* contract of both functions) and, at the end, about the keys of ObjectKey.   *)
EXTENDS S3Transfer, ObjectKey, SequenceTheorems, TLAPS

USE DEF At, stream, control

Data == Blocks \cup {Zeros}

Steps == {"idle", "request", "upload", "download", "answer", "retry", "close"}

-----------------------------------------------------------------------------
(* Types *)

\* Where a call stands: which function makes which step, and what is left to send or to
\* receive of what there is.
CallInv ==
  /\ pc # "idle" => op \in {"upload", "download"}
  /\ pc \in {"upload", "answer"} => op = "upload"
  /\ pc = "download" => op = "download" /\ Len(body) <= Len(object)
  /\ pc # "idle" => pos <= Len(file)
  /\ pc # "idle" /\ op = "upload" => pos + contentLength = Len(file)
  /\ pc # "idle" /\ op = "download" => object # Absent

TypeInv == TypeOK /\ CallInv

\* Whether transfers are whole, as far as their retries begin where the first request did.
WholeInv ==
  /\ pc = "request" \/ (pc = "retry" /\ status = "retryable") =>
       /\ pos = 0
       /\ op = "download" => Len(file) = Len(object)
  /\ pc \in {"upload", "download"} =>
       /\ Len(body) = pos /\ pos <= Len(file)
       /\ \A i \in 1..pos : body[i] = file[i]
  /\ pc = "answer" => body = file
  /\ pc = "download" =>
       /\ Len(file) = Len(object)
       /\ \A i \in 1..pos : body[i] = object[i]
  /\ pc \in {"retry", "close"} /\ status = "OK" => file = object
  /\ TransferWhole

\* The counter and the requests made add up.
CountInv ==
  /\ pc = "request" => retries > 0 /\ attempts + retries = Retries
  /\ pc \in {"upload", "download", "answer", "retry"} =>
       retries > 0 /\ attempts + retries = Retries + 1
  /\ attempts <= Retries

LEMMA ContentsAreSeq == Contents \subseteq Seq(Data)
<1>1. ASSUME NEW n \in 0..MaxBlocks, NEW f \in [1..n -> Blocks]
      PROVE  f \in Seq(Data)
  <2>1. n \in Nat /\ f \in [1..n -> Data]
    BY <1>1, TransferAssumption DEF Data
  <2>2. QED
    BY <2>1, SeqDef
<1>2. QED
  BY <1>1 DEF Contents

LEMMA WriteType ==
  ASSUME NEW s \in Seq(Data), NEW i \in 1..Len(s) + 1, NEW b \in Data
  PROVE  /\ Write(s, i, b) \in Seq(Data)
         /\ i <= Len(Write(s, i, b))
         /\ i <= Len(s) =>
              /\ Len(Write(s, i, b)) = Len(s)
              /\ \A k \in 1..Len(s) : Write(s, i, b)[k] = IF k = i THEN b ELSE s[k]
<1> DEFINE n == IF i > Len(s) THEN i ELSE Len(s)
<1>0. Len(s) \in Nat /\ i \in Nat
  BY LenProperties
<1>1. Len(s) \in Nat /\ i \in Nat /\ s \in [1..Len(s) -> Data]
  BY LenProperties
<1>2. n \in Nat
  BY <1>1
<1>3. \A k \in 1..n : (IF k = i THEN b ELSE s[k]) \in Data
  BY <1>1
<1>4. Write(s, i, b) = [k \in 1..n |-> IF k = i THEN b ELSE s[k]]
  BY DEF Write
<1>5. Write(s, i, b) \in [1..n -> Data]
  BY <1>3, <1>4
<1>6. Write(s, i, b) \in Seq(Data)
  BY <1>2, <1>5, SeqDef
<1>9. i <= Len(Write(s, i, b))
  <2>1. DOMAIN Write(s, i, b) = 1..n
    BY <1>4
  <2>2. Len(Write(s, i, b)) \in Nat /\ 1..Len(Write(s, i, b)) = 1..n
    BY <1>6, <2>1, LenProperties
  <2>3. QED
    BY <1>1, <1>2, <2>2
<1>7. ASSUME i <= Len(s)
      PROVE  /\ Len(Write(s, i, b)) = Len(s)
             /\ \A k \in 1..Len(s) : Write(s, i, b)[k] = IF k = i THEN b ELSE s[k]
  <2>1. n = Len(s)
    <3>1. ~(i > Len(s))
      BY <1>0, <1>7
    <3>2. QED
      BY <3>1
  <2>2. DOMAIN Write(s, i, b) = 1..Len(s)
    BY <1>4, <2>1
  <2>3. Len(Write(s, i, b)) = Len(s)
    BY <1>1, <1>6, <2>2, LenProperties
  <2>4. QED
    BY <1>4, <2>1, <2>3
<1>8. QED
  BY <1>6, <1>7, <1>9

LEMMA WriteInside ==
  ASSUME NEW s \in Seq(Data), NEW i \in 1..Len(s), NEW b \in Data
  PROVE  /\ Len(Write(s, i, b)) = Len(s)
         /\ \A k \in 1..Len(s) : Write(s, i, b)[k] = IF k = i THEN b ELSE s[k]
<1>1. Len(s) \in Nat
  BY LenProperties
<1>2. i \in 1..Len(s) + 1 /\ i <= Len(s)
  BY <1>1
<1>3. QED
  BY <1>2, WriteType

LEMMA ZerosType ==
  ASSUME NEW n \in Nat
  PROVE  ZerosOf(n) \in Seq(Data) /\ Len(ZerosOf(n)) = n
<1>1. ZerosOf(n) \in [1..n -> Data]
  BY DEF ZerosOf, Data
<1>2. ZerosOf(n) \in Seq(Data)
  BY <1>1, SeqDef
<1>3. QED
  BY <1>1, <1>2, LenProperties

\* The last block of a download that fclose could not write.
LEMMA TornType ==
  ASSUME NEW s \in Seq(Data), NEW i
  PROVE  [s EXCEPT ![i] = Zeros] \in Seq(Data)
<1>1. Len(s) \in Nat /\ s \in [1..Len(s) -> Data]
  BY LenProperties
<1>2. [s EXCEPT ![i] = Zeros] \in [1..Len(s) -> Data]
  BY <1>1 DEF Data
<1>3. QED
  BY <1>1, <1>2, SeqDef

LEMMA TypeFacts ==
  ASSUME TypeOK
  PROVE  /\ file \in Seq(Data) /\ Len(file) \in Nat
         /\ object = Absent \/ (object \in Seq(Data) /\ Len(object) \in Nat)
         /\ body \in Seq(Data) /\ Len(body) \in Nat
BY LenProperties DEF TypeOK, Data

THEOREM TransferTypeCorrect == Spec => []TypeInv
<1>1. Init => TypeInv
  <2> SUFFICES ASSUME Init PROVE TypeInv
    OBVIOUS
  <2>1. file \in Seq(Data) /\ body \in Seq(Data)
    BY ContentsAreSeq, EmptySeq DEF Init
  <2>2. TypeOK
    BY <2>1 DEF Init, TypeOK, Data
  <2>3. QED
    BY <2>2 DEF Init, TypeInv, CallInv
<1>2. TypeInv /\ [Next]_vars => TypeInv'
  <2> SUFFICES ASSUME TypeInv, [Next]_vars PROVE TypeInv'
    OBVIOUS
  <2>0. /\ file \in Seq(Data) /\ Len(file) \in Nat
        /\ object = Absent \/ (object \in Seq(Data) /\ Len(object) \in Nat)
        /\ body \in Seq(Data) /\ Len(body) \in Nat
        /\ Len(<<>>) = 0 /\ <<>> \in Seq(Data)
    BY TypeFacts, EmptySeq DEF TypeInv
  <2>1. ASSUME NEW f \in Contents, s3_upload(f) PROVE TypeInv'
    <3>1. f \in Seq(Data) /\ Len(f) \in Nat
      BY ContentsAreSeq, LenProperties
    <3>2. TypeOK'
      BY <2>0, <2>1, <3>1, TransferAssumption DEF s3_upload, Begin, TypeInv, TypeOK, Data
    <3>3. CallInv'
      BY <2>0, <2>1, <3>1 DEF s3_upload, Begin, TypeInv, CallInv
    <3>4. QED
      BY <3>2, <3>3 DEF TypeInv
  <2>2. CASE s3_download
    <3>1. file' \in Seq(Data)
      BY <2>0, <2>2, ZerosType DEF s3_download
    <3>2. TypeOK'
      BY <2>0, <2>2, <3>1, TransferAssumption DEF s3_download, Begin, TypeInv, TypeOK, Data
    <3>3. CallInv'
      BY <2>0, <2>2 DEF s3_download, Begin, TypeInv, CallInv
    <3>4. QED
      BY <3>2, <3>3 DEF TypeInv
  <2>3. CASE request
    <3>1. attempts' \in Nat
      BY <2>3 DEF request, TypeInv, TypeOK
    <3>2. TypeOK'
      BY <2>0, <2>3, <3>1 DEF request, FailsAt, TypeInv, TypeOK, CallInv, Data
    <3>3. CallInv'
      BY <2>0, <2>3 DEF request, FailsAt, TypeInv, CallInv
    <3>4. QED
      BY <3>2, <3>3 DEF TypeInv
  <2>4. CASE s3_put_object_data_callback
    <3>1. CASE contentLength > 0 /\ contentLength' = contentLength - 1 /\ pos' = pos + 1
               /\ body' = Append(body, file[pos + 1]) /\ pc' = pc
      <4>1. pos \in Nat /\ contentLength \in Nat /\ pos + contentLength = Len(file)
        BY <2>4 DEF s3_put_object_data_callback, TypeInv, TypeOK, CallInv
      <4>2. pos + 1 \in 1..Len(file)
        BY <2>0, <3>1, <4>1
      <4>3. body' \in Seq(Data)
        BY <2>0, <3>1, <4>2, ElementOfSeq, AppendProperties
      <4>4. TypeOK'
        BY <2>0, <2>4, <3>1, <4>1, <4>3 DEF s3_put_object_data_callback, TypeInv, TypeOK, Data
      <4>5. CallInv'
        BY <2>4, <3>1, <4>1 DEF s3_put_object_data_callback, TypeInv, CallInv
      <4>6. QED
        BY <4>4, <4>5 DEF TypeInv
    <3>2. CASE contentLength = 0 /\ pc' = "answer" /\ UNCHANGED <<stream, body>>
      BY <2>4, <3>2 DEF s3_put_object_data_callback, TypeInv, TypeOK, CallInv
    <3>3. QED
      BY <2>4, <3>1, <3>2 DEF s3_put_object_data_callback
  <2>5. CASE s3_get_object_data_callback
    <3>1. op = "download" /\ object \in Seq(Data) /\ pos \in Nat
      BY <2>0, <2>5 DEF s3_get_object_data_callback, TypeInv, TypeOK, CallInv
    <3>2. CASE /\ Len(body) < Len(object)
               /\ file' = Write(file, pos + 1, object[Len(body) + 1])
               /\ pos' = pos + 1
               /\ body' = Append(body, object[Len(body) + 1])
               /\ UNCHANGED <<pc, status>>
      <4>1. Len(body) + 1 \in 1..Len(object)
        BY <2>0, <3>1, <3>2, LenProperties
      <4>2. object[Len(body) + 1] \in Data
        BY <3>1, <4>1, ElementOfSeq
      <4>3. body' \in Seq(Data) /\ Len(body') = Len(body) + 1
        BY <2>0, <3>2, <4>2, AppendProperties
      <4>4. file' \in Seq(Data) /\ pos' <= Len(file')
        <5>1. pos <= Len(file)
          BY <2>5 DEF s3_get_object_data_callback, TypeInv, CallInv
        <5>2. pos + 1 \in 1..Len(file) + 1
          BY <2>0, <3>1, <5>1
        <5>3. QED
          BY <2>0, <3>2, <4>2, <5>2, WriteType
      <4>5. TypeOK'
        BY <2>5, <3>1, <3>2, <4>3, <4>4 DEF s3_get_object_data_callback, TypeInv, TypeOK, Data
      <4>6. CallInv'
        BY <2>5, <3>1, <3>2, <4>1, <4>3, <4>4 DEF s3_get_object_data_callback, TypeInv, CallInv
      <4>7. QED
        BY <4>5, <4>6 DEF TypeInv
    <3>3. CASE /\ body = object /\ pc' = "retry" /\ status' = "OK"
               /\ UNCHANGED <<file, pos, body>>
      BY <2>5, <3>1, <3>3 DEF s3_get_object_data_callback, TypeInv, TypeOK, CallInv
    <3>4. QED
      BY <2>5, <3>2, <3>3 DEF s3_get_object_data_callback
  <2>6. CASE request_breaks
    BY <2>6 DEF request_breaks, FailsAt, TypeInv, TypeOK, CallInv
  <2>7. CASE store_answers
    <3>1. TypeOK'
      BY <2>0, <2>7 DEF store_answers, FailsAt, TypeInv, TypeOK, Data
    <3>2. CallInv'
      BY <2>7 DEF store_answers, FailsAt, TypeInv, CallInv
    <3>3. QED
      BY <3>1, <3>2 DEF TypeInv
  <2>8. CASE retry
    BY <2>8 DEF retry, TypeInv, TypeOK, CallInv
  <2>9. CASE close
    <3>1. file' \in Seq(Data)
      BY <2>0, <2>9, TornType DEF close
    <3>2. TypeOK'
      BY <2>9, <3>1 DEF close, TypeInv, TypeOK, Data
    <3>3. CallInv'
      BY <2>9 DEF close, CallInv
    <3>4. QED
      BY <3>2, <3>3 DEF TypeInv
  <2>10. CASE UNCHANGED vars
    BY <2>10 DEF vars, TypeInv, TypeOK, CallInv
  <2>11. QED
    BY <2>1, <2>2, <2>3, <2>4, <2>5, <2>6, <2>7, <2>8, <2>9, <2>10 DEF Next, transfer
<1>3. QED
  BY <1>1, <1>2, PTL DEF Spec

\* The types by themselves: the callbacks never read behind the end of a file or an object,
\* however often the request is repeated.
THEOREM TransferTypes == Spec => []TypeOK
<1>1. TypeInv => TypeOK
  BY DEF TypeInv
<1>2. QED
  BY <1>1, TransferTypeCorrect, PTL

-----------------------------------------------------------------------------
(* Retries *)

LEMMA CountKept ==
  ASSUME Retries > 0, TypeInv, CountInv, [Next]_vars
  PROVE  CountInv'
<1> USE TransferAssumption DEF CountInv
<1>0. attempts \in Nat /\ retries \in Int
  BY DEF TypeInv, TypeOK
<1>1. ASSUME NEW f \in Contents, s3_upload(f) PROVE CountInv'
  BY <1>1 DEF s3_upload, Begin
<1>2. CASE s3_download
  BY <1>2 DEF s3_download, Begin
<1>3. CASE request
  <2>1. attempts' = attempts + 1
    BY <1>0, <1>3 DEF request
  <2>2. QED
    BY <1>0, <1>3, <2>1 DEF request, FailsAt, TypeInv, CallInv
<1>4. CASE s3_put_object_data_callback
  BY <1>0, <1>4 DEF s3_put_object_data_callback
<1>5. CASE s3_get_object_data_callback
  BY <1>0, <1>5 DEF s3_get_object_data_callback
<1>6. CASE request_breaks
  BY <1>0, <1>6 DEF request_breaks, FailsAt
<1>7. CASE store_answers
  BY <1>0, <1>7 DEF store_answers, FailsAt
<1>8. CASE retry
  BY <1>0, <1>8 DEF retry
<1>9. CASE close
  BY <1>0, <1>9 DEF close
<1>10. CASE UNCHANGED vars
  BY <1>0, <1>10 DEF vars
<1>11. QED
  BY <1>1, <1>2, <1>3, <1>4, <1>5, <1>6, <1>7, <1>8, <1>9, <1>10 DEF Next, transfer

\* With a positive s3_operation_retries a call makes at most that many requests: the
\* counter and the requests made add up at each step.
THEOREM RetriesCounted ==
  ASSUME Retries > 0
  PROVE  Spec => []RetriesBounded
<1>1. Init => CountInv
  BY TransferAssumption DEF Init, CountInv
<1>2. TypeInv /\ CountInv /\ [Next]_vars => CountInv'
  BY CountKept
<1>3. CountInv => RetriesBounded
  BY DEF CountInv, RetriesBounded
<1>4. QED
  BY <1>1, <1>2, <1>3, TransferTypeCorrect, PTL DEF Spec

-----------------------------------------------------------------------------
(* Whole transfers *)

LEMMA WholeKept ==
  ASSUME TransientAt \subseteq {"connect"}, TypeInv, WholeInv, [Next]_vars
  PROVE  WholeInv' /\ (object' # object => object' = file)
<1>0. /\ file \in Seq(Data) /\ Len(file) \in Nat
      /\ object = Absent \/ (object \in Seq(Data) /\ Len(object) \in Nat)
      /\ body \in Seq(Data) /\ Len(body) \in Nat
      /\ Len(<<>>) = 0
  BY TypeFacts, EmptySeq DEF TypeInv
<1>1. /\ pos \in Nat /\ contentLength \in Nat /\ CallInv
      /\ "body" \notin TransientAt /\ "answer" \notin TransientAt
  BY DEF TypeInv, TypeOK
<1>2. ASSUME NEW f \in Contents, s3_upload(f) PROVE WholeInv' /\ object' = object
  BY <1>2 DEF s3_upload, Begin, WholeInv, TransferWhole
<1>3. CASE s3_download
  <2>1. object \in Seq(Data) /\ Len(object) \in Nat
    BY <1>0, <1>3 DEF s3_download
  <2>2. Len(file') = Len(object)
    BY <1>3, <2>1, ZerosType DEF s3_download
  <2>3. QED
    BY <1>3, <2>2 DEF s3_download, Begin, WholeInv, TransferWhole
<1>4. CASE request
  <2>1. pos = 0 /\ (op = "download" => Len(file) = Len(object))
    BY <1>4 DEF request, WholeInv
  <2>2. op \in {"upload", "download"} /\ UNCHANGED <<file, object, pos, op, result>> /\ body' = <<>>
    BY <1>1, <1>4 DEF request, CallInv
  <2>3. CASE pc' = op
    <3>1. 1..pos = {}
      BY <2>1
    <3>2. QED
      BY <1>0, <2>1, <2>2, <2>3, <3>1 DEF WholeInv, TransferWhole
  <2>4. CASE FailsAt("connect")
    BY <2>1, <2>2, <2>4 DEF FailsAt, WholeInv, TransferWhole
  <2>5. QED
    BY <1>4, <2>3, <2>4 DEF request
<1>5. CASE s3_put_object_data_callback
  <2>1. op = "upload" /\ pos + contentLength = Len(file) /\ Len(body) = pos
        /\ \A i \in 1..pos : body[i] = file[i]
    BY <1>1, <1>5 DEF s3_put_object_data_callback, CallInv, WholeInv
  <2>2. CASE contentLength > 0 /\ contentLength' = contentLength - 1 /\ pos' = pos + 1
             /\ body' = Append(body, file[pos + 1]) /\ pc' = pc
    <3>1. pos + 1 \in 1..Len(file)
      BY <1>0, <1>1, <2>1, <2>2
    <3>2. file[pos + 1] \in Data
      BY <1>0, <3>1, ElementOfSeq
    <3>3. /\ Len(body') = pos + 1
          /\ \A i \in 1..pos : body'[i] = body[i]
          /\ body'[pos + 1] = file[pos + 1]
      BY <1>0, <2>1, <2>2, <3>2, AppendProperties
    <3>4. \A i \in 1..pos + 1 : body'[i] = file[i]
      BY <1>1, <2>1, <3>3
    <3>5. UNCHANGED <<file, object, op, status, result>> /\ pc = "upload"
      BY <1>5 DEF s3_put_object_data_callback
    <3>6. QED
      BY <1>1, <2>1, <2>2, <3>1, <3>3, <3>4, <3>5 DEF WholeInv, TransferWhole
  <2>3. CASE contentLength = 0 /\ pc' = "answer" /\ UNCHANGED <<stream, body>>
    <3>1. body = file
      BY <1>0, <1>1, <2>1, <2>3, SeqEqual
    <3>2. UNCHANGED <<file, object, op, status, result>>
      BY <1>5 DEF s3_put_object_data_callback
    <3>3. QED
      BY <2>3, <3>1, <3>2 DEF WholeInv, TransferWhole
  <2>4. QED
    BY <1>5, <2>2, <2>3 DEF s3_put_object_data_callback
<1>6. CASE s3_get_object_data_callback
  <2>1. /\ op = "download" /\ object \in Seq(Data) /\ Len(object) \in Nat
        /\ Len(body) = pos /\ pos <= Len(object) /\ Len(file) = Len(object)
        /\ \A i \in 1..pos : body[i] = file[i] /\ body[i] = object[i]
    BY <1>0, <1>1, <1>6 DEF s3_get_object_data_callback, CallInv, WholeInv
  <2>2. UNCHANGED <<object, op, result>> /\ pc = "download"
    BY <1>6 DEF s3_get_object_data_callback
  <2>3. CASE /\ Len(body) < Len(object)
             /\ file' = Write(file, pos + 1, object[Len(body) + 1])
             /\ pos' = pos + 1
             /\ body' = Append(body, object[Len(body) + 1])
             /\ UNCHANGED <<pc, status>>
    <3>1. pos + 1 \in 1..Len(object)
      BY <1>1, <2>1, <2>3
    <3>2. object[pos + 1] \in Data
      BY <2>1, <3>1, ElementOfSeq
    <3>3. /\ Len(body') = pos + 1
          /\ \A i \in 1..pos : body'[i] = body[i]
          /\ body'[pos + 1] = object[pos + 1]
      BY <1>0, <2>1, <2>3, <3>2, AppendProperties
    <3>4. /\ Len(file') = Len(file)
          /\ \A k \in 1..Len(file) : file'[k] = IF k = pos + 1 THEN object[pos + 1] ELSE file[k]
      <4>1. pos + 1 \in 1..Len(file)
        BY <2>1, <3>1
      <4>2. file' = Write(file, pos + 1, object[pos + 1])
        BY <2>1, <2>3
      <4> DEFINE c == object[pos + 1]
      <4> HIDE DEF c
      <4>3. /\ Len(Write(file, pos + 1, c)) = Len(file)
            /\ \A k \in 1..Len(file) : Write(file, pos + 1, c)[k] = IF k = pos + 1 THEN c ELSE file[k]
        <5>1. c \in Data /\ file \in Seq(Data)
          BY <1>0, <3>2 DEF c
        <5>2. QED
          BY <5>1, <4>1, WriteInside
      <4>4. QED
        BY <4>2, <4>3 DEF c
    <3>5. \A i \in 1..pos + 1 : body'[i] = file'[i] /\ body'[i] = object[i]
      BY <1>1, <2>1, <3>1, <3>3, <3>4
    <3>6. QED
      BY <1>1, <2>1, <2>2, <2>3, <3>1, <3>3, <3>4, <3>5 DEF WholeInv, TransferWhole
  <2>4. CASE /\ body = object /\ pc' = "retry" /\ status' = "OK"
             /\ UNCHANGED <<file, pos, body>>
    <3>1. file = object
      BY <1>0, <2>1, <2>4, SeqEqual
    <3>2. QED
      BY <2>2, <2>4, <3>1 DEF WholeInv, TransferWhole
  <2>5. QED
    BY <1>6, <2>3, <2>4 DEF s3_get_object_data_callback
<1>7. CASE request_breaks
  BY <1>1, <1>7 DEF request_breaks, FailsAt, WholeInv, TransferWhole
<1>8. CASE store_answers
  BY <1>1, <1>8 DEF store_answers, FailsAt, WholeInv, TransferWhole
<1>9. CASE retry
  BY <1>9 DEF retry, WholeInv, TransferWhole
<1>10. CASE close
  BY <1>10 DEF close, WholeInv, TransferWhole
<1>11. CASE UNCHANGED vars
  BY <1>11 DEF vars, WholeInv, TransferWhole
<1>12. QED
  BY <1>2, <1>3, <1>4, <1>5, <1>6, <1>7, <1>8, <1>9, <1>10, <1>11 DEF Next, transfer

\* Retryable errors before any data has moved are harmless: then a reported success has
\* moved the whole file, for files of any length and any other failure at any moment.
THEOREM TransfersWhole ==
  ASSUME TransientAt \subseteq {"connect"}
  PROVE  Spec => []TransferWhole
<1>1. Init => WholeInv
  BY DEF Init, WholeInv, TransferWhole
<1>2. TypeInv /\ WholeInv /\ [Next]_vars => WholeInv'
  BY WholeKept
<1>3. WholeInv => TransferWhole
  BY DEF WholeInv
<1>4. QED
  BY <1>1, <1>2, <1>3, TransferTypeCorrect, PTL DEF Spec

\* An object is then only ever replaced by a whole file, whether its call succeeds or not.
THEOREM ObjectsWhole ==
  ASSUME TransientAt \subseteq {"connect"}
  PROVE  Spec => ObjectWhole
<1>1. Init => WholeInv
  BY DEF Init, WholeInv, TransferWhole
<1>2. TypeInv /\ WholeInv /\ [Next]_vars => WholeInv' /\ [object' # object => object' = file]_vars
  BY WholeKept
<1>3. QED
  BY <1>1, <1>2, TransferTypeCorrect, PTL DEF Spec, ObjectWhole

-----------------------------------------------------------------------------
(* The contract *)

LEMMA StepAtomic ==
  ASSUME TypeInv, WholeInv, WholeInv', [Next]_vars
  PROVE  Contract!Next \/ UNCHANGED <<file, object, Call, Done, result>>
<1>1. CallInv /\ Done \in BOOLEAN /\ Done' \in BOOLEAN
  BY DEF TypeInv, Done
<1>2. ASSUME NEW f \in Contents, s3_upload(f)
      PROVE  Contract!Upload(f)
  BY <1>2 DEF s3_upload, Begin, Call, Done, Contract!Upload, Contract!Begin
<1>3. CASE s3_download
  <2>1. Call = "none" /\ ~Done /\ ~Done' /\ object # Absent /\ UNCHANGED object
    BY <1>3 DEF s3_download, Begin, Call, Done
  <2>2. \/ Call' = "download" /\ result' = "pending"
        \/ Call' = "none" /\ result' = "-1"
    BY <1>3 DEF s3_download, Begin, Call
  <2>3. Contract!Download
    BY <1>1, <2>1, <2>2 DEF Contract!Download, Contract!Begin
  <2>4. QED
    BY <2>3 DEF Contract!Next
<1>4. CASE request \/ request_breaks \/ retry
  <2>1. UNCHANGED <<file, object, op, result>> /\ pc # "idle" /\ pc' # "idle"
    BY <1>1, <1>4 DEF request, request_breaks, retry, FailsAt, CallInv
  <2>2. Done' <=> Done
    BY <1>1, <1>4 DEF request, request_breaks, retry, FailsAt, CallInv, Done
  <2>3. Done' = Done
    BY <1>1, <2>2
  <2>4. QED
    BY <2>1, <2>3 DEF Call
<1>5. CASE s3_put_object_data_callback
  BY <1>5 DEF s3_put_object_data_callback, Call, Done
<1>6. CASE s3_get_object_data_callback
  <2>1. Call = "download" /\ Call' = "download" /\ ~Done /\ UNCHANGED <<object, result>>
    BY <1>1, <1>6 DEF s3_get_object_data_callback, CallInv, Call, Done
  <2>2. Done' => file' = object'
    BY DEF Done, WholeInv
  <2>3. Contract!Fetch
    BY <1>1, <2>1, <2>2 DEF Contract!Fetch
  <2>4. QED
    BY <2>3 DEF Contract!Next
<1>7. CASE store_answers
  <2>1. /\ body = file /\ Call = "upload" /\ Call' = "upload" /\ ~Done
        /\ UNCHANGED <<file, result>>
    BY <1>1, <1>7 DEF store_answers, FailsAt, CallInv, WholeInv, Call, Done
  <2>2. object' = file \/ (object' = object /\ ~Done')
    BY <1>7, <2>1 DEF store_answers, FailsAt, Done
  <2>3. Contract!Store \/ UNCHANGED <<file, object, Call, Done, result>>
    BY <1>1, <2>1, <2>2 DEF Contract!Store
  <2>4. QED
    BY <2>3 DEF Contract!Next
<1>8. CASE close
  <2>1. Call = op /\ op \in {"upload", "download"} /\ Call' = "none" /\ Done' = FALSE
    BY <1>1, <1>8 DEF close, CallInv, Call, Done
  <2>2. \/ result' = "0" /\ Done /\ UNCHANGED <<file, object>>
        \/ result' = "-1" /\ UNCHANGED object /\ (op = "upload" => UNCHANGED file)
    BY <1>8, <2>1 DEF close, Done
  <2>3. Contract!Succeed \/ Contract!Fail
    BY <2>1, <2>2 DEF Contract!Succeed, Contract!Fail
  <2>4. QED
    BY <2>3 DEF Contract!Next
<1>9. CASE UNCHANGED vars
  BY <1>9 DEF vars, Call, Done
<1>10. QED
  BY <1>2, <1>3, <1>4, <1>5, <1>6, <1>7, <1>8, <1>9 DEF Next, transfer, Contract!Next

\* s3_upload and s3_download are atomic calls with one bit of answer, for files of any
\* length, any number of retries and every other error at any moment, as long as retryable
\* errors come before any data has moved.
THEOREM TransfersAtomic ==
  ASSUME TransientAt \subseteq {"connect"}
  PROVE  Spec => Atomic
<1>1. Init => WholeInv /\ Contract!Init
  BY DEF Init, WholeInv, TransferWhole, Contract!Init, Call, Done
<1>2. TypeInv /\ WholeInv /\ [Next]_vars => WholeInv'
  BY WholeKept
<1>3. TypeInv /\ WholeInv /\ WholeInv' /\ [Next]_vars
        => [Contract!Next]_<<file, object, Call, Done, result>>
  BY StepAtomic
<1>4. QED
  BY <1>1, <1>2, <1>3, TransferTypeCorrect, PTL DEF Spec, Atomic, Contract!Spec

-----------------------------------------------------------------------------
(* Keys *)

LEMMA KeyLength ==
  ASSUME NEW p \in Seq(Characters)
  PROVE  /\ key_len(p) \in Nat /\ key_len(p) <= Len(p) /\ key_len(p) <= S3_MAX_KEY_SIZE
         /\ Len(p) <= S3_MAX_KEY_SIZE => key_len(p) = Len(p)
<1>1. Len(p) \in Nat
  BY LenProperties
<1>2. QED
  BY <1>1, KeyAssumption DEF key_len

\* '/' and '-' are one character in a key, and nothing else is.
LEMMA KeyChar ==
  \A c, d : key_char(c) = key_char(d) <=> c = d \/ {c, d} = {Slash, Dash}
BY KeyAssumption DEF key_char

\* The i-th character of a path is the one that many places from the end of the key.
LEMMA KeyMirror ==
  ASSUME NEW p \in Seq(Characters), NEW i \in 1..key_len(p)
  PROVE  /\ key_len(p) - i + 1 \in 1..key_len(p)
         /\ s3_get_object_id_xattr_value(p)[key_len(p) - i + 1] = key_char(p[i])
<1> DEFINE n == key_len(p)
<1>1. n \in Nat
  BY KeyLength
<1> HIDE DEF n
<1>2. n - i + 1 \in 1..n /\ n - (n - i + 1) + 1 = i
  BY <1>1 DEF n
<1>3. s3_get_object_id_xattr_value(p) = [k \in 1..n |-> key_char(p[n - k + 1])]
  BY DEF s3_get_object_id_xattr_value, n
<1>4. s3_get_object_id_xattr_value(p)[n - i + 1] = key_char(p[i])
  BY <1>2, <1>3
<1>5. QED
  BY <1>2, <1>4 DEF n

LEMMA SameKeySameLength ==
  ASSUME NEW p \in Seq(Characters), NEW q \in Seq(Characters),
         s3_get_object_id_xattr_value(p) = s3_get_object_id_xattr_value(q)
  PROVE  key_len(p) = key_len(q)
<1>1. key_len(p) \in Nat /\ key_len(q) \in Nat
  BY KeyLength
<1>2. 1..key_len(p) = 1..key_len(q)
  BY DEF s3_get_object_id_xattr_value
<1>3. QED
  BY <1>1, <1>2

\* Two files share an object exactly when their paths begin alike: no more of a path than
\* its first S3_MAX_KEY_SIZE characters tells two files apart, and no less.
THEOREM KeysSharedExactly == KeysShared
<1> SUFFICES ASSUME NEW p \in Paths, NEW q \in Paths
             PROVE  s3_get_object_id_xattr_value(p) = s3_get_object_id_xattr_value(q)
                      <=> SameBeginning(p, q)
  BY DEF KeysShared
<1>1. p \in Seq(Characters) /\ q \in Seq(Characters)
  BY KeyAssumption
<1>2. ASSUME s3_get_object_id_xattr_value(p) = s3_get_object_id_xattr_value(q)
      PROVE  SameBeginning(p, q)
  <2>1. key_len(p) = key_len(q)
    BY <1>1, <1>2, SameKeySameLength
  <2>2. ASSUME NEW i \in 1..key_len(p)
        PROVE  key_char(p[i]) = key_char(q[i])
    BY <1>1, <1>2, <2>1, KeyMirror
  <2>3. QED
    BY <2>1, <2>2, KeyChar DEF SameBeginning
<1>3. ASSUME SameBeginning(p, q)
      PROVE  s3_get_object_id_xattr_value(p) = s3_get_object_id_xattr_value(q)
  <2>1. key_len(p) = key_len(q)
    BY <1>3 DEF SameBeginning
  <2>2. ASSUME NEW k \in 1..key_len(p)
        PROVE  key_char(p[key_len(p) - k + 1]) = key_char(q[key_len(p) - k + 1])
    <3>1. key_len(p) - k + 1 \in 1..key_len(p)
      BY <1>1, KeyLength
    <3>2. QED
      BY <1>3, <3>1, KeyChar DEF SameBeginning
  <2>3. QED
    BY <2>1, <2>2 DEF s3_get_object_id_xattr_value
<1>4. QED
  BY <1>2, <1>3

\* What Tiering assumes, one object for each file, holds of short paths without '-'.
THEOREM PlainPathsApart == PlainApart
<1> SUFFICES ASSUME NEW p \in Paths, NEW q \in Paths, Plain(p), Plain(q),
                    s3_get_object_id_xattr_value(p) = s3_get_object_id_xattr_value(q)
             PROVE  p = q
  BY DEF PlainApart
<1>1. p \in Seq(Characters) /\ q \in Seq(Characters)
  BY KeyAssumption
<1>2. SameBeginning(p, q)
  BY KeysSharedExactly DEF KeysShared
<1>3. Len(p) = key_len(p) /\ Len(q) = key_len(q) /\ Len(p) = Len(q)
  BY <1>1, <1>2, KeyLength DEF Plain, SameBeginning
<1>4. \A i \in 1..Len(p) : p[i] = q[i]
  <2> SUFFICES ASSUME NEW i \in 1..Len(p) PROVE p[i] = q[i]
    OBVIOUS
  <2>1. p[i] = q[i] \/ {p[i], q[i]} = {Slash, Dash}
    BY <1>2, <1>3 DEF SameBeginning
  <2>2. p[i] # Dash /\ q[i] # Dash
    BY <1>3 DEF Plain
  <2>3. QED
    BY <2>1, <2>2
<1>5. QED
  BY <1>1, <1>3, <1>4, SeqEqual
=============================================================================
