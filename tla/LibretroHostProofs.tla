------------------------- MODULE LibretroHostProofs -------------------------
(***************************************************************************)
(* Proofs about LibretroHost and LibretroSmoke, for any frame sizes, any   *)
(* number of front ends and any amount of sound.  What was told and what   *)
(* is remembered agree while a game is loaded, and the machine's queue     *)
(* holds the chunks that were made last, in order: with the types, that is *)
(* inductive, and the properties of pictures and sound follow.             *)
(***************************************************************************)
EXTENDS LibretroSmoke, SequenceTheorems, TLAPS

\* While a game is loaded, the library remembers what it told the front end.
ToldLast == loaded => told = lastSize

\* The answer to GET_CAN_DUPE is that of the front end in charge.
Negotiates == canDupe = accepts

\* Chunks s are the last of the n that were made, in order.
LastOnes(s, n) ==
    /\ Len(s) <= n
    /\ \A i \in 1 .. Len(s) : s[i] = (n - Len(s)) + i

\* Nothing of the queue has been played, or lost, before its turn.
Unplayed ==
    /\ heard <= made - Len(queue)
    /\ dropped <= made - Len(queue)

SoundInv == LastOnes(queue, made) /\ Unplayed /\ NoSoundLost

PictureInv == ToldLast /\ Negotiates /\ DrawnAsAnnounced /\ PicturePerRun

IInv == TypeOK /\ PictureInv /\ SoundInv

-----------------------------------------------------------------------------
(* Chunks of sound. *)

\* What the machine has queued after k more chunks.
LEMMA QueuedOrder ==
    ASSUME TypeOK, LastOnes(queue, made), NEW k \in NewChunks
    PROVE  /\ made + k \in 0 .. MaxChunks
           /\ Queued(k) \in Chunks
           /\ Len(Queued(k)) = Len(queue) + k
           /\ LastOnes(Queued(k), made + k)
<1> USE LibretroHostAssumption
<1> DEFINE fresh == [i \in 1 .. k |-> made + i]
           S == 1 .. MaxChunks
<1>1. k \in Nat /\ made \in Nat /\ made + k \in 0 .. MaxChunks
    BY DEF NewChunks, TypeOK
<1>2. fresh \in [1 .. k -> S]
    BY <1>1
<1>3. fresh \in Seq(S)
    BY <1>1, <1>2, SeqDef
<1>4. Len(fresh) = k
    BY <1>1, <1>3, LenProperties
<1>5. queue \in Seq(S) /\ Len(queue) \in Nat
    BY LenProperties DEF TypeOK, Chunks
<1> HIDE DEF fresh, S
<1>6. /\ queue \o fresh \in Seq(S)
      /\ Len(queue \o fresh) = Len(queue) + Len(fresh)
      /\ \A i \in 1 .. Len(queue) + Len(fresh) :
           (queue \o fresh)[i] = IF i <= Len(queue) THEN queue[i]
                                                    ELSE fresh[i - Len(queue)]
    BY <1>3, <1>5, ConcatProperties
<1>7. ASSUME NEW i \in 1 .. Len(queue) + k
      PROVE  (queue \o fresh)[i] = ((made + k) - (Len(queue) + k)) + i
  <2>1. CASE i <= Len(queue)
    <3>1. (queue \o fresh)[i] = queue[i]
        BY <1>4, <1>6, <2>1
    <3>2. i \in 1 .. Len(queue)
        BY <1>1, <1>5, <2>1
    <3>3. queue[i] = (made - Len(queue)) + i
        BY <3>2 DEF LastOnes
    <3> QED
        BY <1>1, <1>5, <3>1, <3>3
  <2>2. CASE ~(i <= Len(queue))
    <3>1. (queue \o fresh)[i] = fresh[i - Len(queue)]
        BY <1>4, <1>6, <2>2
    <3>2. i - Len(queue) \in 1 .. k
        BY <1>1, <1>5, <2>2
    <3>3. fresh[i - Len(queue)] = made + (i - Len(queue))
        BY <3>2 DEF fresh
    <3> QED
        BY <1>1, <1>5, <3>1, <3>3
  <2> QED
    BY <2>1, <2>2
<1>8. Queued(k) = queue \o fresh
    BY DEF Queued, fresh
<1>9. Len(queue) <= made
    BY DEF LastOnes
<1>10. Len(Queued(k)) = Len(queue) + k
    BY <1>4, <1>6, <1>8
<1>11. LastOnes(Queued(k), made + k)
    BY <1>1, <1>5, <1>7, <1>8, <1>9, <1>10 DEF LastOnes
<1> QED
    BY <1>1, <1>6, <1>8, <1>10, <1>11 DEF Chunks, S

\* What is played and what stays queued when the first n of them are drained.
LEMMA DrainedOrder ==
    ASSUME NEW all \in Chunks, NEW m \in Nat, LastOnes(all, m),
           NEW n \in 0 .. Len(all)
    PROVE  /\ SubSeq(all, 1, n) \in Chunks
           /\ Len(SubSeq(all, 1, n)) = n
           /\ \A i \in 1 .. n : SubSeq(all, 1, n)[i] = (m - Len(all)) + i
           /\ SubSeq(all, n + 1, Len(all)) \in Chunks
           /\ Len(SubSeq(all, n + 1, Len(all))) = Len(all) - n
           /\ LastOnes(SubSeq(all, n + 1, Len(all)), m)
<1> DEFINE S == 1 .. MaxChunks
           rest == SubSeq(all, n + 1, Len(all))
<1>1. all \in Seq(S) /\ Len(all) \in Nat /\ n \in Nat /\ n <= Len(all)
    BY LenProperties DEF Chunks
<1>2. \A i \in 1 .. Len(all) : all[i] \in S /\ all[i] = (m - Len(all)) + i
    BY <1>1, ElementOfSeq DEF LastOnes
<1>3. Len(all) <= m
    BY DEF LastOnes
<1> HIDE DEF S
<1>4. /\ SubSeq(all, 1, n) \in Seq(S)
      /\ Len(SubSeq(all, 1, n)) = IF 1 <= n THEN n - 1 + 1 ELSE 0
      /\ \A i \in 1 .. n - 1 + 1 : SubSeq(all, 1, n)[i] = all[1 + i - 1]
  <2>1. \A i \in 1 .. n : all[i] \in S
    BY <1>1, <1>2
  <2> QED
    BY <1>1, <2>1, SubSeqProperties
<1>5. /\ rest \in Seq(S)
      /\ Len(rest) = IF n + 1 <= Len(all) THEN Len(all) - (n + 1) + 1 ELSE 0
      /\ \A i \in 1 .. Len(all) - (n + 1) + 1 : rest[i] = all[(n + 1) + i - 1]
  <2>1. \A i \in n + 1 .. Len(all) : all[i] \in S
    BY <1>1, <1>2
  <2>2. n + 1 \in Int /\ Len(all) \in Int
    BY <1>1
  <2> QED
    BY <2>1, <2>2, SubSeqProperties
<1> HIDE DEF rest
<1>6. Len(SubSeq(all, 1, n)) = n
    BY <1>1, <1>4
<1>7. Len(rest) = Len(all) - n
    BY <1>1, <1>5
<1>8. ASSUME NEW i \in 1 .. n
      PROVE  SubSeq(all, 1, n)[i] = (m - Len(all)) + i
    BY <1>1, <1>2, <1>4
<1>9. ASSUME NEW i \in 1 .. Len(rest)
      PROVE  rest[i] = (m - Len(rest)) + i
  <2>1. rest[i] = all[n + i]
    BY <1>1, <1>5, <1>7
  <2>2. all[n + i] = (m - Len(all)) + (n + i)
    BY <1>1, <1>2, <1>7
  <2> QED
    BY <1>1, <1>7, <2>1, <2>2
<1>10. LastOnes(rest, m)
    BY <1>1, <1>3, <1>7, <1>9 DEF LastOnes
<1> QED
    BY <1>4, <1>5, <1>6, <1>7, <1>8, <1>10 DEF Chunks, S, rest

\* A silent call gives back no picture and no sound.
LEMMA EmptyChunks == <<>> \in Chunks /\ Len(<<>>) = 0
BY EmptySeq DEF Chunks

LEMMA NothingQueued ==
    ASSUME NEW n \in Nat
    PROVE  LastOnes(<<>>, n)
BY EmptyChunks DEF LastOnes

-----------------------------------------------------------------------------
(* The buffers and the pictures of a frame. *)

LEMMA PixelsPositive ==
    ASSUME NEW size \in Sizes
    PROVE  Pixels(size) \in Nat \ {0}
<1>1. size[1] \in Nat \ {0} /\ size[2] \in Nat \ {0}
    BY LibretroHostAssumption
<1>2. \A a, b \in Nat \ {0} : a * b \in Nat \ {0}
    OBVIOUS
<1> QED
    BY <1>1, <1>2 DEF Pixels

\* A reserved area is as large as its capacity says, and takes what was asked
\* for unless the allocator refused.
LEMMA ReservedFits ==
    ASSUME NEW area \in Areas, area.capacity = area.buffer, NEW n \in Nat,
           NEW granted \in BOOLEAN
    PROVE  /\ Reserved(area, n, granted) \in Areas
           /\ Reserved(area, n, granted).capacity = Reserved(area, n, granted).buffer
           /\ n > 0 /\ ~Refused(area, n, granted)
                => Copied(Reserved(area, n, granted), n)
           /\ Copied(Reserved(area, n, granted), n) => ~Refused(area, n, granted)
BY DEF Areas, Reserved, Refused, Copied

LEMMA NoSizeIsNone == NoSize \notin Sizes /\ Repeat \notin Sizes /\ NoSize # Repeat
BY LibretroHostAssumption

\* What a good retro_run does to the sound.
LEMMA RunSound ==
    ASSUME TypeOK, SoundInv, NEW size \in Sizes, NEW v \in BOOLEAN,
           NEW a \in BOOLEAN, RetroRun(size, v, a)
    PROVE  /\ made' \in 0 .. MaxChunks
           /\ queue' \in Chunks
           /\ last' \in [frame : Sizes \union {NoSize}, chunks : Chunks]
           /\ heard' \in 0 .. made' /\ dropped' \in 0 .. made'
           /\ audio' \in Areas /\ audio'.capacity = audio'.buffer
           /\ SoundInv'
           /\ call'.played \in Chunks
           /\ \A i \in 1 .. Len(call'.played) : call'.played[i] > heard
           /\ \A i, j \in 1 .. Len(call'.played) :
                i < j => call'.played[i] < call'.played[j]
<1> USE LibretroHostAssumption
<1>1. PICK k \in NewChunks :
         /\ made' = made + k
         /\ last' = [frame |-> size,
                     chunks |-> SubSeq(Queued(k), 1, Shorter(Len(Queued(k)), DrainLimit))]
         /\ queue' = SubSeq(Queued(k), Shorter(Len(Queued(k)), DrainLimit) + 1,
                            Len(Queued(k)))
    BY DEF RetroRun
<1> DEFINE all == Queued(k)
           n == Shorter(Len(all), DrainLimit)
           played == SubSeq(all, 1, n)
           refused == Refused(audio, n, a)
           sounds == Copied(audio', n)
<1>2. /\ made' \in 0 .. MaxChunks /\ made' \in Nat
      /\ all \in Chunks
      /\ Len(all) = Len(queue) + k
      /\ LastOnes(all, made')
    BY <1>1, QueuedOrder DEF SoundInv, TypeOK
<1>3. Len(all) \in Nat /\ Len(queue) \in Nat /\ k \in Nat /\ made \in Nat
    BY <1>2, LenProperties DEF Chunks, TypeOK, NewChunks
<1> HIDE DEF all
<1>4. n \in 0 .. Len(all) /\ (n = 0 => Len(all) = 0)
    BY <1>3 DEF Shorter
<1> HIDE DEF n
<1>5. /\ played \in Chunks
      /\ Len(played) = n
      /\ \A i \in 1 .. n : played[i] = (made' - Len(all)) + i
      /\ queue' \in Chunks
      /\ Len(queue') = Len(all) - n
      /\ LastOnes(queue', made')
    BY <1>1, <1>2, <1>4, DrainedOrder DEF all, n
<1> HIDE DEF played
<1>6. last' = [frame |-> size, chunks |-> played]
    BY <1>1 DEF all, n, played
<1>7. /\ audio' = Reserved(audio, n, a)
      /\ heard' = IF sounds THEN LastOf(played) ELSE heard
      /\ dropped' = IF refused THEN LastOf(played) ELSE dropped
      /\ call'.played = IF sounds THEN played ELSE <<>>
    BY <1>5, <1>6 DEF RetroRun, Returned
<1>8. /\ audio' \in Areas /\ audio'.capacity = audio'.buffer
      /\ n > 0 /\ ~refused => sounds
      /\ sounds => ~refused
  <2>1. n \in Nat /\ audio \in Areas /\ audio.capacity = audio.buffer
    BY <1>4 DEF TypeOK
  <2> QED
    BY <1>7, <2>1, ReservedFits
<1>9. refused \/ sounds => n > 0
  <2>1. n \in Nat
    BY <1>4
  <2> QED
    BY <2>1 DEF Refused, Copied, TypeOK, Areas
<1> HIDE DEF refused, sounds
<1>10. n > 0 => LastOf(played) = made' - Len(queue')
  <2> HAVE n > 0
  <2>1. n \in 1 .. n
    BY <1>4
  <2> QED
    BY <1>2, <1>3, <1>4, <1>5, <2>1 DEF LastOf
<1>11. /\ heard \in 0 .. made /\ dropped \in 0 .. made
       /\ heard <= made - Len(queue) /\ dropped <= made - Len(queue)
       /\ IF heard > dropped THEN heard + Len(queue) = made
                             ELSE dropped + Len(queue) = made
    BY DEF TypeOK, SoundInv, Unplayed, NoSoundLost
<1>12. made' - Len(all) = made - Len(queue)
    BY <1>1, <1>2, <1>3
<1>13. Len(queue') \in Nat /\ Len(queue') <= made'
    BY <1>3, <1>4, <1>5 DEF LastOnes
<1>14. /\ heard' \in 0 .. made' /\ dropped' \in 0 .. made'
       /\ heard' <= made' - Len(queue') /\ dropped' <= made' - Len(queue')
       /\ IF heard' > dropped' THEN heard' + Len(queue') = made'
                               ELSE dropped' + Len(queue') = made'
  <2>1. CASE n = 0
    <3>1. ~refused /\ ~sounds
        BY <1>9, <2>1
    <3>2. Len(all) = 0 /\ Len(queue') = 0
        BY <1>4, <1>5, <2>1
    <3>3. k = 0 /\ Len(queue) = 0
      <4>1. Len(queue) + k = 0
        BY <1>2, <3>2
      <4> QED
        BY <1>3, <4>1
    <3>4. made' = made
        BY <1>1, <1>3, <3>3
    <3>5. heard' = heard /\ dropped' = dropped
        BY <1>7, <3>1
    <3> QED
        BY <1>3, <1>11, <3>2, <3>3, <3>4, <3>5
  <2>2. CASE n > 0
    <3>1. made' - Len(queue') > made - Len(queue)
        BY <1>2, <1>3, <1>4, <1>5, <1>12, <2>2
    <3>2. \/ sounds /\ ~refused
          \/ refused /\ ~sounds
        BY <1>8, <2>2
    <3>3. CASE sounds /\ ~refused
        BY <1>2, <1>3, <1>7, <1>10, <1>11, <1>13, <2>2, <3>1, <3>3
    <3>4. CASE refused /\ ~sounds
        BY <1>2, <1>3, <1>7, <1>10, <1>11, <1>13, <2>2, <3>1, <3>4
    <3> QED
        BY <3>2, <3>3, <3>4
  <2> QED
    BY <1>4, <2>1, <2>2
<1>15. SoundInv'
    BY <1>5, <1>14 DEF SoundInv, Unplayed, NoSoundLost
<1>16. CASE sounds
  <2>1. call'.played = played /\ Len(call'.played) = n
    BY <1>5, <1>7, <1>16
  <2>2. \A i \in 1 .. n : played[i] = (made - Len(queue)) + i
    BY <1>5, <1>12
  <2>3. \A i \in 1 .. n : played[i] > heard
    BY <1>3, <1>4, <1>11, <2>2
  <2>4. \A i, j \in 1 .. n : i < j => played[i] < played[j]
    BY <1>3, <1>4, <2>2
  <2> QED
    BY <1>2, <1>5, <1>6, <1>8, <1>14, <1>15, <2>1, <2>3, <2>4
<1>17. CASE ~sounds
  <2>1. call'.played = <<>>
    BY <1>7, <1>17
  <2> QED
    BY <1>2, <1>5, <1>6, <1>8, <1>14, <1>15, <2>1, EmptyChunks
<1> QED
    BY <1>16, <1>17

\* What a good retro_run does to the picture.
LEMMA RunPicture ==
    ASSUME TypeOK, ToldLast, Negotiates, NEW size \in Sizes, NEW v \in BOOLEAN,
           NEW a \in BOOLEAN, RetroRun(size, v, a)
    PROVE  /\ video' \in Areas /\ video'.capacity = video'.buffer
           /\ lastSize' \in Sizes
           /\ told' = lastSize'
           /\ seen' \in Sizes \union {NoSize}
           /\ call'.name = "run" /\ call'.ok = TRUE /\ call'.short \in BOOLEAN
           /\ call'.published \in BOOLEAN
           /\ call'.picture \in Sizes => call'.picture = told' /\ seen' = call'.picture
           /\ call'.picture \in Sizes \union {NoSize}
           /\ ~call'.short => call'.picture \in Sizes
<1> DEFINE drawn == Copied(video', Pixels(size))
           announced == drawn /\ Publishes(size)
<1>1. /\ video' = Reserved(video, Pixels(size), v)
      /\ lastSize' = IF announced THEN size ELSE lastSize
      /\ told' = IF announced THEN size ELSE told
      /\ seen' = IF drawn THEN size ELSE seen
      /\ call'.name = "run" /\ call'.ok = TRUE
      /\ call'.short = Refused(video, Pixels(size), v)
      /\ call'.published = announced
      /\ call'.picture = IF drawn THEN size ELSE NoSize
    BY DEF RetroRun, Returned
<1>2. loaded /\ told = lastSize /\ lastSize \in Sizes
    BY DEF RetroRun, TypeOK, ToldLast
<1>3. Pixels(size) \in Nat /\ Pixels(size) > 0
    BY PixelsPositive
<1>4. /\ video' \in Areas /\ video'.capacity = video'.buffer
      /\ ~Refused(video, Pixels(size), v) => drawn
    BY <1>1, <1>3, ReservedFits DEF TypeOK
<1>5. Refused(video, Pixels(size), v) \in BOOLEAN /\ announced \in BOOLEAN
    BY DEF Refused, Copied, Publishes
<1>6. drawn => lastSize' = size
    BY <1>1 DEF Publishes
<1>7. lastSize' \in Sizes /\ told' = lastSize'
    BY <1>1, <1>2
<1>8. seen \in Sizes \union {NoSize}
    BY DEF TypeOK
<1> HIDE DEF drawn, announced
<1> QED
    BY <1>1, <1>4, <1>5, <1>6, <1>7, <1>8, NoSizeIsNone

-----------------------------------------------------------------------------
(* The invariants. *)

LEMMA NothingTyped ==
    /\ NoBuffer \in Areas /\ NoBuffer.capacity = NoBuffer.buffer
    /\ NoResult \in [frame : Sizes \union {NoSize}, chunks : Chunks]
BY EmptyChunks DEF NoBuffer, NoResult, Areas

LEMMA IInvInit == Init => IInv
<1> SUFFICES ASSUME Init PROVE IInv
    OBVIOUS
<1> USE LibretroHostAssumption, EmptyChunks, NoSizeIsNone
<1>1. TypeOK
  <2>1. /\ call.ok \in BOOLEAN /\ call.short \in BOOLEAN
        /\ call.published \in BOOLEAN
        /\ call.picture \in Sizes \union {NoSize, Repeat}
        /\ call.played \in Chunks
    BY DEF Init
  <2>2. /\ frontEnd \in 0 .. MaxFrontEnds /\ made \in 0 .. MaxChunks
        /\ heard \in 0 .. made /\ dropped \in 0 .. made
    BY DEF Init
  <2> QED
    BY <2>1, <2>2, NothingTyped DEF Init, TypeOK
<1>2. PictureInv
    BY DEF Init, PictureInv, ToldLast, Negotiates, DrawnAsAnnounced, PicturePerRun
<1>3. SoundInv
    BY NothingQueued DEF Init, SoundInv, Unplayed, NoSoundLost
<1> QED
    BY <1>1, <1>2, <1>3 DEF IInv

LEMMA DroppedTyped ==
    ASSUME TypeOK, DropsQueue \/ MayDropQueue
    PROVE  queue' \in Chunks /\ dropped' \in 0 .. made
BY EmptyChunks DEF TypeOK, DropsQueue, MayDropQueue

LEMMA TypedStep == IInv /\ [Next]_vars => TypeOK'
<1> SUFFICES ASSUME IInv, [Next]_vars PROVE TypeOK'
    OBVIOUS
<1> USE LibretroHostAssumption, EmptyChunks, NothingTyped
    DEF IInv, TypeOK, Silent, Returned, statics, machine, shown
<1>1. CASE RetroSetEnvironment
    BY <1>1 DEF RetroSetEnvironment, Negotiated
<1>2. CASE RetroInit
    BY <1>2 DEF RetroInit
<1>3. CASE RetroDeinit
  <2>1. /\ call'.ok \in BOOLEAN /\ call'.short \in BOOLEAN
        /\ call'.published \in BOOLEAN
        /\ call'.picture \in Sizes \union {NoSize, Repeat}
        /\ call'.played \in Chunks
    BY <1>3 DEF RetroDeinit
  <2>2. queue' \in Chunks /\ dropped' \in 0 .. made
    BY <1>3, DroppedTyped DEF RetroDeinit
  <2> QED
    BY <1>3, <2>1, <2>2 DEF RetroDeinit, Freed
<1>4. CASE LoadRefused
    BY <1>4 DEF LoadRefused
<1>5. CASE LoadFails
    BY <1>5 DEF LoadFails, MayDropQueue
<1>6. CASE RetroLoadGame
    BY <1>6, NoSizeIsNone DEF RetroLoadGame, DropsQueue
<1>7. CASE RunFails
  <2>1. PICK k \in NewChunks : queue' = Queued(k) /\ made' = made + k
    BY <1>7 DEF RunFails
  <2>2. queue' \in Chunks /\ made' \in 0 .. MaxChunks
    BY <2>1, QueuedOrder DEF SoundInv
  <2>3. heard \in 0 .. made' /\ dropped \in 0 .. made'
    BY <2>1, <2>2 DEF NewChunks
  <2>4. /\ call'.ok \in BOOLEAN /\ call'.short \in BOOLEAN
        /\ call'.published \in BOOLEAN
        /\ call'.picture \in Sizes \union {NoSize, Repeat}
        /\ call'.played \in Chunks
    BY <1>7 DEF RunFails
  <2> QED
    BY <1>7, <2>2, <2>3, <2>4 DEF RunFails
<1>8. ASSUME NEW size \in Sizes, NEW v \in BOOLEAN, NEW a \in BOOLEAN,
             RetroRun(size, v, a)
      PROVE  TypeOK'
  <2>1. UNCHANGED <<frontEnd, accepts, ready, loaded, canDupe, logger>>
    BY <1>8 DEF RetroRun
  <2>2. /\ made' \in 0 .. MaxChunks
        /\ queue' \in Chunks
        /\ last' \in [frame : Sizes \union {NoSize}, chunks : Chunks]
        /\ heard' \in 0 .. made' /\ dropped' \in 0 .. made'
        /\ audio' \in Areas /\ audio'.capacity = audio'.buffer
        /\ call'.played \in Chunks
    BY <1>8, RunSound
  <2>3. /\ video' \in Areas /\ video'.capacity = video'.buffer
        /\ lastSize' \in Sizes
        /\ told' = lastSize'
        /\ seen' \in Sizes \union {NoSize}
        /\ call'.ok = TRUE /\ call'.short \in BOOLEAN
        /\ call'.published \in BOOLEAN
        /\ call'.picture \in Sizes \union {NoSize}
    BY <1>8, RunPicture DEF PictureInv
  <2> QED
    BY <2>1, <2>2, <2>3, NoSizeIsNone
<1>9. CASE RetroReset
  <2>1. /\ call'.ok \in BOOLEAN /\ call'.short \in BOOLEAN
        /\ call'.published \in BOOLEAN
        /\ call'.picture \in Sizes \union {NoSize, Repeat}
        /\ call'.played \in Chunks
    BY <1>9 DEF RetroReset
  <2>2. queue' \in Chunks /\ dropped' \in 0 .. made
    BY <1>9, DroppedTyped DEF RetroReset
  <2> QED
    BY <1>9, <2>1, <2>2 DEF RetroReset
<1>10. CASE RetroSerialize
    BY <1>10 DEF RetroSerialize
<1>11. CASE RetroUnserialize
  <2>1. /\ call'.ok \in BOOLEAN /\ call'.short \in BOOLEAN
        /\ call'.published \in BOOLEAN
        /\ call'.picture \in Sizes \union {NoSize, Repeat}
        /\ call'.played \in Chunks
    BY <1>11 DEF RetroUnserialize
  <2>2. queue' \in Chunks /\ dropped' \in 0 .. made
    BY <1>11, DroppedTyped DEF RetroUnserialize
  <2> QED
    BY <1>11, <2>1, <2>2 DEF RetroUnserialize
<1>12. CASE RetroUnloadGame
  <2>1. /\ call'.ok \in BOOLEAN /\ call'.short \in BOOLEAN
        /\ call'.published \in BOOLEAN
        /\ call'.picture \in Sizes \union {NoSize, Repeat}
        /\ call'.played \in Chunks
    BY <1>12 DEF RetroUnloadGame
  <2>2. queue' \in Chunks /\ dropped' \in 0 .. made
    BY <1>12, DroppedTyped DEF RetroUnloadGame
  <2> QED
    BY <1>12, <2>1, <2>2 DEF RetroUnloadGame
<1>13. CASE UNCHANGED vars
    BY <1>13 DEF vars
<1> QED
    BY <1>1, <1>2, <1>3, <1>4, <1>5, <1>6, <1>7, <1>8, <1>9, <1>10, <1>11,
       <1>12, <1>13 DEF Next

LEMMA PictureStep == IInv /\ [Next]_vars => PictureInv'
<1> SUFFICES ASSUME IInv, [Next]_vars PROVE PictureInv'
    OBVIOUS
<1> USE NoSizeIsNone
    DEF IInv, PictureInv, ToldLast, Negotiates, DrawnAsAnnounced, PicturePerRun,
        Silent, Returned, statics, machine, shown
<1>1. CASE RetroSetEnvironment
    BY <1>1 DEF RetroSetEnvironment, Negotiated, TypeOK
<1>2. CASE RetroInit
    BY <1>2 DEF RetroInit
<1>3. CASE RetroDeinit
    BY <1>3 DEF RetroDeinit
<1>4. CASE LoadRefused
    BY <1>4 DEF LoadRefused
<1>5. CASE LoadFails
    BY <1>5 DEF LoadFails
<1>6. CASE RetroLoadGame
    BY <1>6 DEF RetroLoadGame
<1>7. CASE RunFails
  <2>1. /\ call'.ok = FALSE
        /\ call'.picture = IF canDupe /\ lastSize # NoSize THEN Repeat ELSE NoSize
        /\ loaded
    BY <1>7 DEF RunFails
  <2>2. lastSize # NoSize /\ canDupe = accepts /\ told = lastSize
    BY <2>1 DEF TypeOK
  <2>3. UNCHANGED <<loaded, told, lastSize, canDupe, accepts>>
    BY <1>7 DEF RunFails
  <2> QED
    BY <2>1, <2>2, <2>3
<1>8. ASSUME NEW size \in Sizes, NEW v \in BOOLEAN, NEW a \in BOOLEAN,
             RetroRun(size, v, a)
      PROVE  PictureInv'
  <2>1. UNCHANGED <<accepts, loaded, canDupe>>
    BY <1>8 DEF RetroRun
  <2> QED
    BY <1>8, <2>1, RunPicture
<1>9. CASE RetroReset
    BY <1>9 DEF RetroReset
<1>10. CASE RetroSerialize
    BY <1>10 DEF RetroSerialize
<1>11. CASE RetroUnserialize
    BY <1>11 DEF RetroUnserialize
<1>12. CASE RetroUnloadGame
    BY <1>12 DEF RetroUnloadGame
<1>13. CASE UNCHANGED vars
    BY <1>13 DEF vars
<1> QED
    BY <1>1, <1>2, <1>3, <1>4, <1>5, <1>6, <1>7, <1>8, <1>9, <1>10, <1>11,
       <1>12, <1>13 DEF Next

\* A queue that is dropped is dropped whole.
LEMMA DropsInOrder ==
    ASSUME TypeOK, SoundInv, DropsQueue \/ MayDropQueue, UNCHANGED <<made, heard>>
    PROVE  SoundInv'
<1>1. CASE UNCHANGED <<queue, dropped>>
    BY <1>1 DEF SoundInv, Unplayed, NoSoundLost, LastOnes
<1>2. CASE queue' = <<>> /\ dropped' = made
    BY <1>2, EmptyChunks, NothingQueued
    DEF SoundInv, Unplayed, NoSoundLost, TypeOK
<1> QED
    BY <1>1, <1>2 DEF DropsQueue, MayDropQueue

LEMMA SoundStep == IInv /\ [Next]_vars => SoundInv'
<1> SUFFICES ASSUME IInv, [Next]_vars PROVE SoundInv'
    OBVIOUS
<1> USE DEF IInv, statics, machine, shown
<1>1. CASE UNCHANGED <<queue, made, heard, dropped>>
    BY <1>1 DEF SoundInv, Unplayed, NoSoundLost, LastOnes
<1>2. CASE RetroSetEnvironment \/ RetroInit \/ LoadRefused \/ RetroSerialize
    BY <1>1, <1>2 DEF RetroSetEnvironment, RetroInit, LoadRefused, RetroSerialize
<1>3. CASE RetroDeinit \/ RetroLoadGame
    BY <1>3, DropsInOrder DEF RetroDeinit, RetroLoadGame
<1>4. CASE LoadFails \/ RetroReset \/ RetroUnserialize \/ RetroUnloadGame
    BY <1>4, DropsInOrder DEF LoadFails, RetroReset, RetroUnserialize, RetroUnloadGame
<1>5. CASE RunFails
  <2>1. PICK k \in NewChunks : queue' = Queued(k) /\ made' = made + k
    BY <1>5 DEF RunFails
  <2>2. /\ made' \in 0 .. MaxChunks
        /\ Len(queue') = Len(queue) + k
        /\ LastOnes(queue', made')
    BY <2>1, QueuedOrder DEF SoundInv
  <2>3. Len(queue) \in Nat /\ k \in Nat
    BY LenProperties DEF TypeOK, Chunks, NewChunks
  <2>4. heard' = heard /\ dropped' = dropped
    BY <1>5 DEF RunFails
  <2>5. /\ made \in Nat /\ heard \in Nat /\ dropped \in Nat
        /\ heard <= made - Len(queue) /\ dropped <= made - Len(queue)
        /\ IF heard > dropped THEN heard + Len(queue) = made
                              ELSE dropped + Len(queue) = made
    BY DEF TypeOK, SoundInv, Unplayed, NoSoundLost
  <2> QED
    BY <2>1, <2>2, <2>3, <2>4, <2>5 DEF SoundInv, Unplayed, NoSoundLost
<1>6. ASSUME NEW size \in Sizes, NEW v \in BOOLEAN, NEW a \in BOOLEAN,
             RetroRun(size, v, a)
      PROVE  SoundInv'
    BY <1>6, RunSound
<1>7. CASE UNCHANGED vars
    BY <1>1, <1>7 DEF vars
<1> QED
    BY <1>2, <1>3, <1>4, <1>5, <1>6, <1>7 DEF Next

LEMMA IInvStep == IInv /\ [Next]_vars => IInv'
BY TypedStep, PictureStep, SoundStep DEF IInv

LEMMA IInvHolds == Spec => []IInv
<1>1. IInv /\ [Next]_vars => IInv'
    BY IInvStep
<1> QED
    BY <1>1, IInvInit, PTL DEF Spec

-----------------------------------------------------------------------------
(* The properties of any sequence of front ends. *)

\* The types, and with them the memory safety of the copies: whatever front
\* ends do and whatever the allocator answers, the capacity the library goes by
\* is the size of what it has allocated (reserve_video, reserve_audio,
\* retro_deinit).
THEOREM TypeCorrect == Spec => []TypeOK
<1>1. IInv => TypeOK
    BY DEF IInv
<1> QED
    BY <1>1, IInvHolds, PTL

\* No picture reaches a front end in a size it was not told (publish_geometry
\* before video_cb), over any games, front ends and failed allocations.
THEOREM PicturesAreAnnounced == Spec => []DrawnAsAnnounced
<1>1. IInv => DrawnAsAnnounced
    BY DEF IInv, PictureInv
<1> QED
    BY <1>1, IInvHolds, PTL

\* Every retro_run gives the picture it owes, and repeats one only to a front
\* end that can: what an earlier front end answered does not stick.
THEOREM EveryRunHasAPicture == Spec => []PicturePerRun
<1>1. IInv => PicturePerRun
    BY DEF IInv, PictureInv
<1> QED
    BY <1>1, IInvHolds, PTL

\* No sound falls between the machine's queue and the front end: what failed
\* runs leave behind is played by a later one.
THEOREM SoundIsKept == Spec => []NoSoundLost
<1>1. IInv => NoSoundLost
    BY DEF IInv, SoundInv
<1> QED
    BY <1>1, IInvHolds, PTL

\* No chunk is played twice or out of order, also when the drain limit left it
\* for a later run, a run failed, or a save state was loaded in between.
THEOREM SoundIsPlayedOnce == Spec => SoundOnce
<1> DEFINE InTurn ==
      /\ \A i \in 1 .. Len(call'.played) : call'.played[i] > heard
      /\ \A i, j \in 1 .. Len(call'.played) :
           i < j => call'.played[i] < call'.played[j]
<1>1. IInv /\ [Next]_vars => [InTurn]_vars
  <2> SUFFICES ASSUME IInv, Next PROVE InTurn
    OBVIOUS
  <2>1. CASE call'.played = <<>>
    BY <2>1, EmptyChunks
  <2>2. CASE \/ RetroSetEnvironment \/ RetroInit \/ RetroDeinit
             \/ LoadRefused \/ LoadFails \/ RetroLoadGame \/ RunFails
             \/ RetroReset \/ RetroSerialize \/ RetroUnserialize
             \/ RetroUnloadGame
    <3>1. call'.played = <<>>
      BY <2>2 DEF RetroSetEnvironment, RetroInit, RetroDeinit, LoadRefused,
                  LoadFails, RetroLoadGame, RunFails, RetroReset,
                  RetroSerialize, RetroUnserialize, RetroUnloadGame, Silent,
                  Returned
    <3> QED
      BY <2>1, <3>1
  <2>3. ASSUME NEW size \in Sizes, NEW v \in BOOLEAN, NEW a \in BOOLEAN,
               RetroRun(size, v, a)
        PROVE  InTurn
    BY <2>3, RunSound DEF IInv
  <2> QED
    BY <2>2, <2>3 DEF Next
<1> QED
    BY <1>1, IInvHolds, PTL DEF Spec, SoundOnce

-----------------------------------------------------------------------------
(* The smoke test. *)

\* A call of the script is a call a front end may make.
LEMMA TestIsNext == Test => Next
<1> SUFFICES ASSUME Test PROVE Next
    OBVIOUS
<1> USE DEF Next
<1>1. CASE Environment
    BY <1>1 DEF Environment
<1>2. CASE InitCall
    BY <1>2 DEF InitCall
<1>3. CASE LoadSynthetic \/ LoadBroken
    BY <1>3 DEF LoadSynthetic, LoadBroken
<1>4. CASE RunFrame
    BY <1>4 DEF RunFrame
<1>5. CASE Serialize \/ Unserialize
    BY <1>5 DEF Serialize, Unserialize
<1>6. CASE ResetCall \/ UnloadCall
    BY <1>6 DEF ResetCall, UnloadCall
<1>7. CASE Deinit
    BY <1>7 DEF Deinit
<1> QED
    BY <1>1, <1>2, <1>3, <1>4, <1>5, <1>6, <1>7 DEF Test

LEMMA SmokeSteps == [SmokeNext]_smokeVars => [Next]_vars
<1> SUFFICES ASSUME [SmokeNext]_smokeVars PROVE [Next]_vars
    OBVIOUS
<1>1. CASE Test
    BY <1>1, TestIsNext
<1>2. CASE Ended \/ UNCHANGED smokeVars
    BY <1>2 DEF Ended, smokeVars
<1>3. CASE AnyFrontEnd
    BY <1>3 DEF AnyFrontEnd
<1> QED
    BY <1>1, <1>2, <1>3 DEF SmokeNext

\* smoke.c makes no sequence of calls that the interface does not allow: it
\* behaves like a front end, so the theorems above hold of the library it tests.
THEOREM SmokeIsAFrontEnd == SmokeSpec => Spec
<1>1. SmokeInit => Init
    BY DEF SmokeInit
<1> QED
    BY <1>1, SmokeSteps, PTL DEF SmokeSpec, Spec

\* A picture comes from a call that succeeded, and is what was seen last.
PicturesSucceed == call.picture \in Sizes => call.ok

\* The frames the test has counted before and after its first run.
Counted ==
    /\ at \in 0 .. Len(Script)
    /\ at \in 1 .. 4 => frames = 0
    /\ at = 5 => frames = IF call.picture \in Sizes THEN 1 ELSE 0

LEMMA ScriptNames ==
    /\ Len(Script) = 13
    /\ Script[1] = "environment" /\ Script[2] = "init" /\ Script[3] = "load"
    /\ Script[4] = "run" /\ Script[5] = "run" /\ Script[13] = "end"
BY DEF Script

\* Every call but a run that succeeds is silent.
LEMMA OnlyRunsDraw ==
    ASSUME TypeOK, ToldLast, Negotiates, Next
    PROVE  /\ PicturesSucceed'
           /\ call'.picture \in Sizes =>
                \E size \in Sizes, v, a \in BOOLEAN : RetroRun(size, v, a)
<1>1. CASE \/ RetroSetEnvironment \/ RetroInit \/ RetroDeinit
           \/ LoadRefused \/ LoadFails \/ RetroLoadGame \/ RunFails
           \/ RetroReset \/ RetroSerialize \/ RetroUnserialize
           \/ RetroUnloadGame
  <2>1. call'.picture \in {NoSize, Repeat}
    BY <1>1 DEF RetroSetEnvironment, RetroInit, RetroDeinit, LoadRefused,
                LoadFails, RetroLoadGame, RunFails, RetroReset,
                RetroSerialize, RetroUnserialize, RetroUnloadGame, Silent,
                Returned
  <2> QED
    BY <2>1, NoSizeIsNone DEF PicturesSucceed
<1>2. ASSUME NEW size \in Sizes, NEW v \in BOOLEAN, NEW a \in BOOLEAN,
             RetroRun(size, v, a)
      PROVE  PicturesSucceed'
    BY <1>2, RunPicture DEF PicturesSucceed
<1> QED
    BY <1>1, <1>2 DEF Next

SmokeInv == IInv /\ PicturesSucceed /\ Counted

\* A call of the script moves on, counts, and is a run where the script has one.
LEMMA TestCalls ==
    ASSUME Test, Counted
    PROVE  /\ at \in 1 .. 12 /\ at' = at + 1
           /\ Count
           /\ \/ RunFrame /\ Script[at] = "run"
              \/ Script[at] # "run" /\ call'.picture = NoSize
<1> USE DEF Step
<1>1. at \in 1 .. 13
    BY ScriptNames DEF Test, Counted
<1>2. /\ at' = at + 1 /\ Count /\ Script[at] # "end"
      /\ \/ RunFrame /\ Script[at] = "run"
         \/ Script[at] # "run" /\ call'.picture = NoSize
  <2>1. CASE Environment
    BY <2>1 DEF Environment, RetroSetEnvironment, Silent, Returned
  <2>2. CASE InitCall
    BY <2>2 DEF InitCall, RetroInit, Silent, Returned
  <2>3. CASE LoadSynthetic
    BY <2>3 DEF LoadSynthetic, LoadFails, RetroLoadGame, Silent, Returned
  <2>4. CASE RunFrame
    BY <2>4 DEF RunFrame
  <2>5. CASE Serialize
    BY <2>5 DEF Serialize, RetroSerialize, Silent, Returned
  <2>6. CASE ResetCall
    BY <2>6 DEF ResetCall, RetroReset, Silent, Returned
  <2>7. CASE Unserialize
    BY <2>7 DEF Unserialize, RetroUnserialize, Silent, Returned
  <2>8. CASE UnloadCall
    BY <2>8 DEF UnloadCall, RetroUnloadGame, Silent, Returned
  <2>9. CASE LoadBroken
    BY <2>9 DEF LoadBroken, LoadFails, RetroLoadGame, Silent, Returned
  <2>10. CASE Deinit
    BY <2>10 DEF Deinit, RetroDeinit, Silent, Returned
  <2> QED
    BY <2>1, <2>2, <2>3, <2>4, <2>5, <2>6, <2>7, <2>8, <2>9, <2>10 DEF Test
<1>3. at # 13
    BY <1>2, ScriptNames
<1> QED
    BY <1>1, <1>2, <1>3

LEMMA SmokeInvInit == SmokeInit => SmokeInv
<1> SUFFICES ASSUME SmokeInit PROVE SmokeInv
    OBVIOUS
<1>1. IInv
    BY IInvInit DEF SmokeInit
<1>2. PicturesSucceed
    BY DEF SmokeInit, Init, PicturesSucceed
<1>3. Counted
    BY ScriptNames DEF SmokeInit, Counted
<1> QED
    BY <1>1, <1>2, <1>3 DEF SmokeInv

LEMMA SmokeInvStep == SmokeInv /\ [SmokeNext]_smokeVars => SmokeInv'
<1> SUFFICES ASSUME SmokeInv, [SmokeNext]_smokeVars PROVE SmokeInv'
    OBVIOUS
<1>1. IInv'
    BY SmokeSteps, IInvStep DEF SmokeInv
<1>2. PicturesSucceed'
  <2>1. CASE Next
    BY <2>1, OnlyRunsDraw DEF SmokeInv, IInv, PictureInv
  <2>2. CASE UNCHANGED vars
    BY <2>2 DEF SmokeInv, PicturesSucceed, vars
  <2> QED
    BY <2>1, <2>2, SmokeSteps
<1>3. Counted'
  <2>1. CASE Test
    <3>1. /\ at \in 1 .. 12 /\ at' = at + 1
          /\ frames' = frames + (IF call'.picture \in Sizes THEN 1 ELSE 0)
      BY <2>1, TestCalls DEF SmokeInv, Count
    <3>2. at' \in 1 .. 4 => call'.picture \notin Sizes /\ frames = 0
      <4> HAVE at' \in 1 .. 4
      <4>1. at \in 1 .. 3
        BY <3>1
      <4>2. Script[at] # "run"
        BY <4>1, ScriptNames
      <4> QED
        BY <2>1, <4>1, <4>2, TestCalls, NoSizeIsNone DEF SmokeInv, Counted
    <3>3. at' = 5 => frames = 0
      BY <3>1 DEF SmokeInv, Counted
    <3> QED
      BY <3>1, <3>2, <3>3, ScriptNames DEF Counted
  <2>2. CASE Ended \/ UNCHANGED smokeVars
    BY <2>2 DEF SmokeInv, Counted, Ended, smokeVars, smoke, vars
  <2>3. CASE AnyFrontEnd
    BY <2>3 DEF SmokeInv, Counted, AnyFrontEnd, smoke
  <2> QED
    BY <2>1, <2>2, <2>3 DEF SmokeNext
<1> QED
    BY <1>1, <1>2, <1>3 DEF SmokeInv

\* The count of pictures after the second run (smoke.c's video_frames) proves
\* that both runs succeeded and drew, the second one the content as expected:
\* no repeated picture and no leftover size lets a broken core pass.
THEOREM PassProvesPictures == SmokeSpec => PassMeansPictures
<1> DEFINE BothDrew ==
      at = 5 /\ exit' = Running
        => /\ call.ok /\ call'.ok
           /\ call.picture \in Sizes /\ call'.picture = Portrait
<1>1. SmokeInv /\ [SmokeNext]_smokeVars => [BothDrew]_smokeVars
  <2> SUFFICES ASSUME SmokeInv, SmokeNext, at = 5, exit' = Running
               PROVE  /\ call.ok /\ call'.ok
                      /\ call.picture \in Sizes /\ call'.picture = Portrait
    OBVIOUS
  <2>1. Test
    BY DEF SmokeNext, Ended, AnyFrontEnd, smokeVars, smoke
  <2>2. RunFrame /\ frames' = frames + (IF call'.picture \in Sizes THEN 1 ELSE 0)
    BY <2>1, TestCalls, ScriptNames DEF SmokeInv, Count
  <2>3. frames' = 2 /\ seen' = Portrait
    BY <2>2 DEF RunFrame, Step, Judge, Running
  <2>4. call.picture \in Sizes /\ call'.picture \in Sizes
    BY <2>2, <2>3 DEF SmokeInv, Counted
  <2>5. PICK size \in Sizes, v \in BOOLEAN, a \in BOOLEAN : RetroRun(size, v, a)
    BY <2>1, <2>4, TestIsNext, OnlyRunsDraw DEF SmokeInv, IInv, PictureInv
  <2>6. call'.ok = TRUE /\ call'.picture = Portrait
    BY <2>3, <2>4, <2>5, RunPicture DEF SmokeInv, IInv, PictureInv
  <2> QED
    BY <2>4, <2>6 DEF SmokeInv, PicturesSucceed
<1>2. SmokeInv /\ [SmokeNext]_smokeVars => SmokeInv'
    BY SmokeInvStep
<1> QED
    BY <1>1, <1>2, SmokeInvInit, PTL DEF SmokeSpec, PassMeansPictures
=============================================================================
