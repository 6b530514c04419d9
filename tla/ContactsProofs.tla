-------------------------- MODULE ContactsProofs --------------------------
(* Proofs about the address book, for any contacts, avatars, files, queue     *)
(* capacities and numbers of outside events.  The avatar cache never holds    *)
(* part of an image when a single account of the process uses the directory;  *)
(* the buddy list agrees with the store whenever the queues between them are  *)
(* empty; the user's own buddies and the names shown are kept; the accept     *)
(* action is offered for blocked contacts only.                               *)
EXTENDS Contacts, ListLemmas

(* The condition under which the claim of media.rs:138 holds.                 *)
OneAccount == \A a, b \in Accounts : a = b

(* A temporary file is no cache file and belongs to one image; a call that is *)
(* writing has the temporary file of its image open, and one that is about to *)
(* rename finds a whole file or none.                                         *)
TempsApart ==
    /\ \A i, j \in Images : temp[i] # NoFile => temp[i] # disk[j]
    /\ \A i, j \in Images : temp[i] # NoFile /\ temp[i] = temp[j] => i = j

Writing(a) == step[a] = "write" => handle[a] # NoFile /\ handle[a] = temp[image[a]]
Renaming(a) ==
    step[a] = "rename" /\ temp[image[a]] # NoFile => temp[image[a]] \in whole

AvatarInv ==
    /\ AvatarTypeOK
    /\ CachedIsWhole
    /\ TempsApart
    /\ \A a \in Accounts : Writing(a) /\ Renaming(a)

(* The empty cache satisfies the invariant.                                   *)
LEMMA InitCase == AvatarInit => AvatarInv
  BY AvatarAssumption DEF AvatarInit, AvatarInv, AvatarTypeOK, CachedIsWhole,
     TempsApart, Writing, Renaming

(* What a call does before it writes keeps the invariant.                     *)
LEMMA ReadingCase ==
    ASSUME AvatarInv, NEW a \in Accounts,
           \/ \E i \in Images : Prepare(a, i)
           \/ ReadDisk(a)
           \/ Downscale(a)
    PROVE AvatarInv'
  <1> USE AvatarAssumption DEF AvatarInv, AvatarTypeOK, Give
  <1>1. ASSUME NEW i \in Images, Prepare(a, i)
        PROVE AvatarInv'
    <2>0. memory[a][i] \in {"none", "part", "whole"}
      BY Zenon
    <2>1. AvatarTypeOK'
      <3>1. CASE memory[a][i] = "none"
        BY <1>1, <3>1, Zenon DEF Prepare
      <3>2. CASE memory[a][i] # "none"
        BY <1>1, <3>2, <2>0, ZenonT(30) DEF Prepare
      <3> QED
        BY <3>1, <3>2, Zenon
    <2>2. CachedIsWhole' /\ TempsApart'
      BY <1>1, Zenon DEF Prepare, CachedIsWhole, TempsApart
    <2>3. \A b \in Accounts : Writing(b)' /\ Renaming(b)'
      BY <1>1 DEF Prepare, Writing, Renaming
    <2> QED
      BY <2>1, <2>2, <2>3, Zenon
  <1>2. CASE ReadDisk(a)
    <2>1. Quality(disk[image[a]]) = "whole"
      BY <1>2, Zenon DEF ReadDisk, Quality, CachedIsWhole
    <2>2. AvatarTypeOK'
      BY <1>2, <2>1, Zenon DEF ReadDisk, Remember
    <2>3. CachedIsWhole' /\ TempsApart'
      BY <1>2, <2>1, Zenon DEF ReadDisk, Remember, CachedIsWhole, TempsApart
    <2>4. \A b \in Accounts : Writing(b)' /\ Renaming(b)'
      BY <1>2, Zenon DEF ReadDisk, Writing, Renaming
    <2> QED
      BY <2>2, <2>3, <2>4, Zenon
  <1>3. CASE Downscale(a)
    <2>1. AvatarTypeOK'
      BY <1>3, Zenon DEF Downscale
    <2>2. CachedIsWhole' /\ TempsApart'
      BY <1>3, Zenon DEF Downscale, CachedIsWhole, TempsApart
    <2>3. \A b \in Accounts : Writing(b)' /\ Renaming(b)'
      BY <1>3 DEF Downscale, Writing, Renaming
    <2> QED
      BY <2>1, <2>2, <2>3, Zenon
  <1> QED
    BY <1>1, <1>2, <1>3, Zenon

(* The temporary file is opened: it is the one left behind by an earlier      *)
(* failure or a new one, in no case one that a cache name leads to.           *)
LEMMA CreateCase ==
    ASSUME AvatarInv, OneAccount, NEW a \in Accounts, CreateTemp(a)
    PROVE AvatarInv'
  <1> USE AvatarAssumption DEF AvatarInv, AvatarTypeOK
  <1>1. PICK f \in Files :
          /\ Opens(temp[image[a]], f)
          /\ temp' = [temp EXCEPT ![image[a]] = f]
          /\ handle' = [handle EXCEPT ![a] = f]
          /\ whole' = whole \ {f}
    BY Zenon DEF CreateTemp
  <1>2. /\ step' = [step EXCEPT ![a] = "write"]
        /\ UNCHANGED <<image, given, memory, disk>>
    BY Zenon DEF CreateTemp
  <1>3. f # NoFile /\ image[a] \in Images
    BY Zenon
  <1>4. \A j \in Images : f # disk[j]
    BY <1>1, <1>3, Zenon DEF Opens, Unused, TempsApart
  <1>5. \A j \in Images : f = temp[j] => j = image[a]
    BY <1>1, <1>3, Zenon DEF Opens, Unused, TempsApart
  <1>6. AvatarTypeOK'
    BY <1>1, <1>2, Zenon
  <1>7. CachedIsWhole'
    BY <1>1, <1>2, <1>4, Zenon DEF CachedIsWhole
  <1>8. TempsApart'
    BY <1>1, <1>2, <1>3, <1>4, <1>5 DEF TempsApart
  <1>9. \A b \in Accounts : Writing(b)' /\ Renaming(b)'
    BY <1>1, <1>2, <1>3, Zenon DEF OneAccount, Writing, Renaming
  <1> QED
    BY <1>6, <1>7, <1>8, <1>9, Zenon

(* The file is complete before the call comes to the rename.                  *)
LEMMA WriteCase ==
    ASSUME AvatarInv, NEW a \in Accounts, WriteTemp(a) \/ WriteFails(a)
    PROVE AvatarInv'
  <1> USE AvatarAssumption DEF AvatarInv, AvatarTypeOK
  <1>1. CASE WriteTemp(a)
    <2>1. AvatarTypeOK'
      BY <1>1 DEF WriteTemp, Writing
    <2>2. CachedIsWhole' /\ TempsApart'
      BY <1>1, Zenon DEF WriteTemp, CachedIsWhole, TempsApart
    <2>3. \A b \in Accounts : Writing(b)' /\ Renaming(b)'
      BY <1>1, Zenon DEF WriteTemp, Writing, Renaming
    <2> QED
      BY <2>1, <2>2, <2>3, Zenon
  <1>2. CASE WriteFails(a)
    <2>1. AvatarTypeOK'
      BY <1>2, Zenon DEF WriteFails
    <2>2. CachedIsWhole' /\ TempsApart'
      BY <1>2, Zenon DEF WriteFails, CachedIsWhole, TempsApart
    <2>3. \A b \in Accounts : Writing(b)' /\ Renaming(b)'
      BY <1>2 DEF WriteFails, Writing, Renaming
    <2> QED
      BY <2>1, <2>2, <2>3, Zenon
  <1> QED
    BY <1>1, <1>2, Zenon

(* The rename moves a whole file, and the temporary name is free again.       *)
LEMMA RenameCase ==
    ASSUME AvatarInv, OneAccount, NEW a \in Accounts, RenameTemp(a)
    PROVE AvatarInv'
  <1> USE AvatarAssumption DEF AvatarInv, AvatarTypeOK, RenameTemp
  <1>1. AvatarTypeOK'
    BY Zenon
  <1>2. CachedIsWhole'
    BY Zenon DEF CachedIsWhole, Renaming
  <1>3. TempsApart'
    <2>1. CASE temp[image[a]] = NoFile
      BY <2>1, Zenon DEF TempsApart
    <2>2. CASE temp[image[a]] # NoFile
      <3>1. /\ disk' = [disk EXCEPT ![image[a]] = temp[image[a]]]
            /\ temp' = [temp EXCEPT ![image[a]] = NoFile]
        BY <2>2, Zenon
      <3>2. \A i \in Images : temp'[i] # NoFile
              => i # image[a] /\ temp'[i] = temp[i] /\ temp[i] # temp[image[a]]
        BY <3>1, <2>2, Zenon DEF TempsApart
      <3> QED
        BY <3>1, <3>2 DEF TempsApart
    <2> QED
      BY <2>1, <2>2, Zenon
  <1>4. \A b \in Accounts : Writing(b)' /\ Renaming(b)'
    BY DEF OneAccount, Writing, Renaming
  <1> QED
    BY <1>1, <1>2, <1>3, <1>4, Zenon

(* The end of a call and the end of the process keep the invariant.           *)
LEMMA EndingCase ==
    ASSUME AvatarInv,
           \/ \E a \in Accounts : InsertMemory(a) \/ Returned(a)
           \/ ProcessDies
    PROVE AvatarInv'
  <1> USE AvatarAssumption DEF AvatarInv, AvatarTypeOK
  <1>1. ASSUME NEW a \in Accounts, InsertMemory(a)
        PROVE AvatarInv'
    <2>1. AvatarTypeOK'
      BY <1>1, Zenon DEF InsertMemory, Remember, Give
    <2>2. CachedIsWhole' /\ TempsApart'
      BY <1>1, Zenon DEF InsertMemory, Remember, CachedIsWhole, TempsApart
    <2>3. \A b \in Accounts : Writing(b)' /\ Renaming(b)'
      BY <1>1, Zenon DEF InsertMemory, Give, Writing, Renaming
    <2> QED
      BY <2>1, <2>2, <2>3, Zenon
  <1>2. ASSUME NEW a \in Accounts, Returned(a)
        PROVE AvatarInv'
    BY <1>2 DEF Returned, CachedIsWhole, TempsApart, Writing, Renaming
  <1>3. CASE ProcessDies
    BY <1>3, Zenon DEF ProcessDies, CachedIsWhole, TempsApart, Writing, Renaming
  <1> QED
    BY <1>1, <1>2, <1>3, Zenon

(* Every step of the cache keeps the invariant.                               *)
LEMMA AvatarStep == OneAccount /\ AvatarInv /\ [AvatarNext]_avatarVars => AvatarInv'
  <1> SUFFICES ASSUME OneAccount, AvatarInv, [AvatarNext]_avatarVars
               PROVE AvatarInv'
    BY Zenon
  <1>1. CASE UNCHANGED avatarVars
    BY <1>1 DEF avatarVars, AvatarInv, AvatarTypeOK, CachedIsWhole, TempsApart,
       Writing, Renaming
  <1>2. ASSUME NEW a \in Accounts, NEW i \in Images, Prepare(a, i)
        PROVE AvatarInv'
    BY <1>2, ReadingCase, Zenon
  <1>3. ASSUME NEW a \in Accounts, Work(a)
        PROVE AvatarInv'
    BY <1>3, ReadingCase, CreateCase, WriteCase, RenameCase, EndingCase, Zenon DEF Work
  <1>4. ASSUME NEW a \in Accounts, Returned(a)
        PROVE AvatarInv'
    BY <1>4, EndingCase, Zenon
  <1>5. CASE ProcessDies
    BY <1>5, EndingCase, Zenon
  <1> QED
    BY <1>1, <1>2, <1>3, <1>4, <1>5, Zenon DEF AvatarNext

(* Atomic disk persistence (prepare_avatar): with one account in the process, *)
(* whatever writes fail and wherever the process dies, neither the directory  *)
(* nor the memory cache ever holds part of an image.                          *)
THEOREM OneAccountCachesWhole == OneAccount => (AvatarSpec => []CachedIsWhole)
  <1> SUFFICES ASSUME OneAccount
               PROVE AvatarSpec => []CachedIsWhole
    BY Zenon
  <1>1. AvatarInv => CachedIsWhole
    BY Zenon DEF AvatarInv
  <1>2. AvatarInv /\ [AvatarNext]_avatarVars => AvatarInv'
    BY AvatarStep, Zenon
  <1> QED
    BY InitCase, <1>1, <1>2, PTL DEF AvatarSpec

-----------------------------------------------------------------------------
(* The event queue, as far as snapshots go: the latest one is what follows    *)
(* its opening boundary, or everything once that boundary has been handled.   *)
HasBegin(s) == \E i \in DOMAIN s : s[i].kind = "begin"
InLatest(s, i) ==
    i \in DOMAIN s /\ \A j \in DOMAIN s : i <= j => s[j].kind # "begin"
ContactAt(s, i, p) == InLatest(s, i) /\ s[i].kind = "contact" /\ s[i].peer = p
HasContact(s, p) == \E i \in DOMAIN s : ContactAt(s, i, p)
EndAt(s, i) == InLatest(s, i) /\ s[i].kind = "end"
HasEnd(s) == \E i \in DOMAIN s : EndAt(s, i)
EndIsLast(s) ==
    \A i, j \in DOMAIN s :
      EndAt(s, i) /\ (EndAt(s, j) \/ \E p : ContactAt(s, j, p)) => j <= i

(* What handling the first event does to the latest snapshot of a queue.      *)
LEMMA Polled ==
    ASSUME NEW S, NEW s \in Seq(S), s # <<>>
    PROVE  LET e == Head(s)
               t == Tail(s)
           IN  /\ HasBegin(s) <=> e.kind = "begin" \/ HasBegin(t)
               /\ \A p : HasContact(s, p) <=>
                    \/ HasContact(t, p)
                    \/ ~HasBegin(s) /\ e.kind = "contact" /\ e.peer = p
               /\ HasEnd(s) <=> HasEnd(t) \/ (~HasBegin(s) /\ e.kind = "end")
               /\ EndIsLast(s) => EndIsLast(t)
               /\ EndIsLast(s) /\ ~HasBegin(s) /\ e.kind = "end" =>
                    ~HasEnd(t) /\ \A p : ~HasContact(t, p)
<1> DEFINE e == Head(s)
           t == Tail(s)
           n == Len(s)
<1>1. /\ n \in Nat /\ n > 0 /\ e = s[1] /\ DOMAIN s = 1 .. n /\ DOMAIN t = 1 .. n - 1
      /\ \A i \in 1 .. n - 1 : t[i] = s[i + 1]
  OBVIOUS
<1> HIDE DEF e, t, n
<1>2. /\ \A i \in 1 .. n - 1 : i + 1 \in 1 .. n
      /\ \A i \in 1 .. n : i = 1 \/ (i - 1 \in 1 .. n - 1 /\ s[i] = t[i - 1])
  BY <1>1
<1>3. \A i \in 1 .. n - 1 : InLatest(t, i) <=> InLatest(s, i + 1)
  <2> SUFFICES ASSUME NEW i \in 1 .. n - 1
               PROVE InLatest(t, i) <=> InLatest(s, i + 1)
    BY Zenon
  <2>1. ASSUME InLatest(t, i), NEW j \in 1 .. n, i + 1 <= j
        PROVE s[j].kind # "begin"
    <3>1. j - 1 \in 1 .. n - 1 /\ s[j] = t[j - 1] /\ i <= j - 1
      BY <1>1, <1>2, <2>1
    <3> QED
      BY <3>1, <2>1, <1>1, Zenon DEF InLatest
  <2>2. ASSUME InLatest(s, i + 1), NEW j \in 1 .. n - 1, i <= j
        PROVE t[j].kind # "begin"
    BY <2>2, <1>1, <1>2 DEF InLatest
  <2> QED
    BY <2>1, <2>2, <1>1, <1>2, Zenon DEF InLatest
<1>4. InLatest(s, 1) <=> ~HasBegin(s)
  BY <1>1 DEF InLatest, HasBegin
<1>5. HasBegin(s) <=> e.kind = "begin" \/ HasBegin(t)
  <2>1. ASSUME HasBegin(s)
        PROVE e.kind = "begin" \/ HasBegin(t)
    <3>1. PICK i \in 1 .. n : s[i].kind = "begin"
      BY <2>1, <1>1, Zenon DEF HasBegin
    <3> QED
      BY <3>1, <1>1, <1>2, ZenonT(30) DEF HasBegin
  <2>2. ASSUME HasBegin(t)
        PROVE HasBegin(s)
    <3>1. PICK i \in 1 .. n - 1 : t[i].kind = "begin"
      BY <2>2, <1>1, Zenon DEF HasBegin
    <3>2. i + 1 \in DOMAIN s /\ s[i + 1].kind = "begin"
      BY <3>1, <1>1, <1>2, Zenon
    <3> QED
      BY <3>2, Zenon DEF HasBegin
  <2>3. 1 \in DOMAIN s
    BY <1>1
  <2> QED
    BY <2>1, <2>2, <2>3, <1>1, Zenon DEF HasBegin
<1>6. \A i \in 1 .. n - 1 :
        /\ \A p : ContactAt(t, i, p) <=> ContactAt(s, i + 1, p)
        /\ EndAt(t, i) <=> EndAt(s, i + 1)
  BY <1>1, <1>3, Zenon DEF ContactAt, EndAt
<1>7. /\ \A p : ContactAt(s, 1, p) <=> ~HasBegin(s) /\ e.kind = "contact" /\ e.peer = p
      /\ EndAt(s, 1) <=> ~HasBegin(s) /\ e.kind = "end"
  BY <1>1, <1>4 DEF ContactAt, EndAt
<1>8. \A i \in 1 .. n : i = 1 \/ \E k \in 1 .. n - 1 : i = k + 1
  BY <1>1
<1>9. ASSUME NEW p
      PROVE HasContact(s, p) <=> HasContact(t, p) \/ ContactAt(s, 1, p)
  <2>1. ASSUME HasContact(s, p)
        PROVE HasContact(t, p) \/ ContactAt(s, 1, p)
    <3>1. PICK i \in 1 .. n : ContactAt(s, i, p)
      BY <2>1, <1>1, Zenon DEF HasContact
    <3>2. ASSUME NEW k \in 1 .. n - 1, i = k + 1
          PROVE HasContact(t, p)
      <4>1. ContactAt(t, k, p)
        BY <3>1, <3>2, <1>6, Zenon
      <4> QED
        BY <4>1, <1>1, Zenon DEF HasContact
    <3> QED
      BY <3>1, <3>2, <1>8, Zenon
  <2>2. ASSUME HasContact(t, p)
        PROVE HasContact(s, p)
    BY <2>2, <1>1, <1>2, <1>6, Zenon DEF HasContact
  <2>3. 1 \in DOMAIN s
    BY <1>1
  <2> QED
    BY <2>1, <2>2, <2>3, Zenon DEF HasContact
<1>10. HasEnd(s) <=> HasEnd(t) \/ EndAt(s, 1)
  <2>1. ASSUME HasEnd(s)
        PROVE HasEnd(t) \/ EndAt(s, 1)
    BY <2>1, <1>1, <1>6, <1>8, ZenonT(30) DEF HasEnd
  <2>2. ASSUME HasEnd(t)
        PROVE HasEnd(s)
    BY <2>2, <1>1, <1>2, <1>6, Zenon DEF HasEnd
  <2>3. 1 \in DOMAIN s
    BY <1>1
  <2> QED
    BY <2>1, <2>2, <2>3, Zenon DEF HasEnd
<1>11. EndIsLast(s) => EndIsLast(t)
  <2> SUFFICES ASSUME EndIsLast(s), NEW i \in 1 .. n - 1, NEW j \in 1 .. n - 1,
                      NEW p, EndAt(t, i), EndAt(t, j) \/ ContactAt(t, j, p)
               PROVE j <= i
    BY <1>1, Zenon DEF EndIsLast
  <2>1. EndAt(s, i + 1) /\ (EndAt(s, j + 1) \/ ContactAt(s, j + 1, p))
    BY <1>6, Zenon
  <2>2. j + 1 <= i + 1
    BY <2>1, <1>1, <1>2, Zenon DEF EndIsLast
  <2> QED
    BY <2>2, <1>1
<1>12. ASSUME EndIsLast(s), EndAt(s, 1), NEW p
       PROVE ~HasEnd(t) /\ ~HasContact(t, p)
  <2> SUFFICES ASSUME NEW j \in 1 .. n - 1, EndAt(t, j) \/ ContactAt(t, j, p)
               PROVE FALSE
    BY <1>1, Zenon DEF HasContact, HasEnd
  <2>1. EndAt(s, j + 1) \/ ContactAt(s, j + 1, p)
    BY <1>6, Zenon
  <2>2. 1 \in DOMAIN s /\ j + 1 \in DOMAIN s
    BY <1>1, <1>2
  <2>3. j + 1 <= 1
    BY <2>1, <2>2, <1>12, Zenon DEF EndIsLast
  <2> QED
    BY <2>3, <1>1
<1> QED
  BY <1>5, <1>7, <1>9, <1>10, <1>11, <1>12, Zenon DEF e, t

(* What queueing one event does to it.                                        *)
LEMMA Queued ==
    ASSUME NEW S, NEW s \in Seq(S), NEW e
    PROVE  LET t == Append(s, e)
           IN  /\ HasBegin(t) <=> HasBegin(s) \/ e.kind = "begin"
               /\ \A p : HasContact(t, p) <=>
                    /\ e.kind # "begin"
                    /\ HasContact(s, p) \/ (e.kind = "contact" /\ e.peer = p)
               /\ HasEnd(t) <=> e.kind # "begin" /\ (HasEnd(s) \/ e.kind = "end")
               /\ EndIsLast(s) /\ (e.kind \in {"contact", "end"} => ~HasEnd(s)) =>
                    EndIsLast(t)
<1> DEFINE t == Append(s, e)
           n == Len(s)
<1>1. /\ n \in Nat /\ DOMAIN s = 1 .. n /\ DOMAIN t = 1 .. n + 1 /\ t[n + 1] = e
      /\ \A i \in 1 .. n : t[i] = s[i]
  OBVIOUS
<1> HIDE DEF t, n
<1>2. /\ \A i \in 1 .. n : i \in 1 .. n + 1 /\ i <= n + 1 /\ i < n + 1
      /\ \A i \in 1 .. n + 1 : i = n + 1 \/ i \in 1 .. n
      /\ n + 1 \in 1 .. n + 1 /\ n + 1 <= n + 1
  BY <1>1
<1>3. \A i \in 1 .. n : InLatest(t, i) <=> InLatest(s, i) /\ e.kind # "begin"
  BY <1>1, <1>2, Zenon DEF InLatest
<1>4. InLatest(t, n + 1) <=> e.kind # "begin"
  BY <1>1 DEF InLatest
<1>5. HasBegin(t) <=> HasBegin(s) \/ e.kind = "begin"
  BY <1>1, <1>2, Zenon DEF HasBegin
<1>6. \A i \in 1 .. n :
        /\ \A p : ContactAt(t, i, p) <=> ContactAt(s, i, p) /\ e.kind # "begin"
        /\ EndAt(t, i) <=> EndAt(s, i) /\ e.kind # "begin"
  BY <1>1, <1>3, Zenon DEF ContactAt, EndAt
<1>7. /\ \A p : ContactAt(t, n + 1, p) <=> e.kind = "contact" /\ e.peer = p
      /\ EndAt(t, n + 1) <=> e.kind = "end"
  BY <1>1, <1>4, Zenon DEF ContactAt, EndAt
<1>8. \A p : HasContact(t, p) <=>
        /\ e.kind # "begin"
        /\ HasContact(s, p) \/ (e.kind = "contact" /\ e.peer = p)
  BY <1>1, <1>2, <1>6, <1>7, Zenon DEF HasContact
<1>9. HasEnd(t) <=> e.kind # "begin" /\ (HasEnd(s) \/ e.kind = "end")
  BY <1>1, <1>2, <1>6, <1>7, Zenon DEF HasEnd
<1>10. ASSUME EndIsLast(s), e.kind \in {"contact", "end"} => ~HasEnd(s),
              NEW i \in 1 .. n + 1, NEW j \in 1 .. n + 1, NEW p,
              EndAt(t, i), EndAt(t, j) \/ ContactAt(t, j, p)
       PROVE j <= i
  <2>1. CASE i = n + 1
    BY <2>1, <1>1, <1>2, <1>7, <1>10
  <2>2. CASE i \in 1 .. n /\ j = n + 1
    BY <2>2, <1>1, <1>6, <1>7, <1>10 DEF HasEnd
  <2>3. CASE i \in 1 .. n /\ j \in 1 .. n
    BY <2>3, <1>1, <1>6, <1>10, Zenon DEF EndIsLast
  <2> QED
    BY <1>2, <2>1, <2>2, <2>3, Zenon
<1>11. EndIsLast(s) /\ (e.kind \in {"contact", "end"} => ~HasEnd(s)) => EndIsLast(t)
  BY <1>1, <1>10, Zenon DEF EndIsLast
<1> QED
  BY <1>5, <1>8, <1>9, <1>11, Zenon DEF t

Quiet(q) == \A i \in DOMAIN q : q[i].kind \notin {"begin", "contact", "end"}

(* Events of other kinds change nothing of it.                                *)
LEMMA QuietQueued ==
    ASSUME NEW S, NEW s \in Seq(S), NEW q \in Seq(S), Quiet(q)
    PROVE  /\ HasBegin(s \o q) <=> HasBegin(s)
           /\ \A p : HasContact(s \o q, p) <=> HasContact(s, p)
           /\ HasEnd(s \o q) <=> HasEnd(s)
           /\ EndIsLast(s) => EndIsLast(s \o q)
<1> DEFINE t == s \o q
           n == Len(s)
           m == Len(q)
<1>1. /\ n \in Nat /\ m \in Nat /\ DOMAIN s = 1 .. n /\ DOMAIN q = 1 .. m
      /\ DOMAIN t = 1 .. n + m
      /\ \A i \in 1 .. n + m : t[i] = IF i <= n THEN s[i] ELSE q[i - n]
  OBVIOUS
<1> HIDE DEF t, n, m
<1>2. \A i \in 1 .. n : i \in 1 .. n + m /\ t[i] = s[i]
  BY <1>1
<1>3. \A i \in 1 .. n + m :
        i \in 1 .. n \/ t[i].kind \notin {"begin", "contact", "end"}
  <2> SUFFICES ASSUME NEW i \in 1 .. n + m, i \notin 1 .. n
               PROVE t[i].kind \notin {"begin", "contact", "end"}
    BY Zenon
  <2>1. i - n \in 1 .. m /\ t[i] = q[i - n]
    BY <1>1
  <2> QED
    BY <2>1, <1>1, Zenon DEF Quiet
<1>4. \A i \in 1 .. n : InLatest(t, i) <=> InLatest(s, i)
  BY <1>1, <1>2, <1>3, Zenon DEF InLatest
<1>5. /\ \A i \in 1 .. n : \A p : ContactAt(t, i, p) <=> ContactAt(s, i, p)
      /\ \A i \in 1 .. n : EndAt(t, i) <=> EndAt(s, i)
      /\ \A i \in 1 .. n + m : \A p : ContactAt(t, i, p) => i \in 1 .. n
      /\ \A i \in 1 .. n + m : EndAt(t, i) => i \in 1 .. n
  BY <1>2, <1>3, <1>4, Zenon DEF ContactAt, EndAt
<1>6. HasBegin(t) <=> HasBegin(s)
  BY <1>1, <1>2, <1>3, Zenon DEF HasBegin
<1>7. \A p : HasContact(t, p) <=> HasContact(s, p)
  BY <1>1, <1>2, <1>5, Zenon DEF HasContact
<1>8. HasEnd(t) <=> HasEnd(s)
  BY <1>1, <1>2, <1>5, Zenon DEF HasEnd
<1>9. EndIsLast(s) => EndIsLast(t)
  BY <1>1, <1>2, <1>5, Zenon DEF EndIsLast
<1> QED
  BY <1>6, <1>7, <1>8, <1>9, Zenon DEF t


-----------------------------------------------------------------------------
(* Types *)

Entries == [peer : Peers, name : {"unnamed", "named"}]
Commands == [kind : {"accept", "dismiss"}, peer : Peers]
Told ==
    {e \in [kind : {"begin", "contact", "avatar", "end", "identity", "accepted"},
            peer : Peers \union {"none"},
            value : {"none", "name", "plain", "verified", "empty", "part", "whole"}] :
       /\ e.kind \notin {"begin", "end"} => e.peer \in Peers
       /\ e.kind = "contact" => e.value \in {"name", "none"}}

AvatarTypes ==
    /\ AvatarTypeOK
    /\ \A a \in Accounts : step[a] = "write" => handle[a] # NoFile

StoreTypes ==
    /\ roster \in [Peers -> {"absent", "unnamed", "named"}]
    /\ stored \subseteq Peers
    /\ trusted \subseteq Peers
    /\ notice \in [Peers -> {"none", "plain", "verified"}]
    /\ budget \in [Happenings -> Nat]
WorkerTypes ==
    /\ worker \in {"snapshot", "notices", "active", "recovery"}
    /\ todo = NoSnapshot \/ todo \in Seq(Entries)
    /\ drawing \in Peers \union {"none"}
    /\ got \in Peers \union {"none"}
    /\ inbox \in Nat
    /\ names \subseteq Peers
    /\ request \in {"gated", "sending", "delay", "done"}
    /\ fetch = NoFetch \/ fetch \in Seq(Peers)
AdapterTypes ==
    /\ syncing \in BOOLEAN
    /\ marked \subseteq Peers
    /\ buddies \subseteq Buddies
    /\ alias \in [Peers -> {"none", "phone", "name"}]
    /\ told \subseteq Peers
    /\ pending \union advised \subseteq told
QueueTypes ==
    /\ commands \in Seq(Commands) /\ Len(commands) <= Capacity
    /\ events \in Seq(Told)
Types == AvatarTypes /\ StoreTypes /\ WorkerTypes /\ AdapterTypes /\ QueueTypes

(* The two values that stand for no list are no lists of contacts.            *)
LEMMA NoLists == NoSnapshot \notin Seq(Entries) /\ NoFetch \notin Seq(Peers)
<1>1. NoSnapshot[1].name = "none" /\ NoFetch[1] = "none"
  BY Zenon DEF NoSnapshot, NoFetch
<1>2. Len(NoSnapshot) = 1 /\ Len(NoFetch) = 1
  BY Zenon DEF NoSnapshot, NoFetch
<1>3. ASSUME NEW S, NEW s \in Seq(S), Len(s) = 1
      PROVE s[1] \in S
  BY <1>3
<1>4. NoSnapshot \notin Seq(Entries)
  BY <1>1, <1>2, <1>3, Zenon DEF Entries
<1> QED
  BY <1>1, <1>2, <1>3, <1>4, ContactsAssumption, Zenon

(* The snapshot lists the stored contacts, and nothing else.                  *)
LEMMA SnapshotLists ==
    ASSUME StoreTypes
    PROVE  LET entries == {[peer |-> p, name |-> roster[p]] : p \in Present}
           IN  /\ SetToSeq(entries) \in Seq(Entries)
               /\ Range(SetToSeq(entries)) = entries
<1> DEFINE entries == {[peer |-> p, name |-> roster[p]] : p \in Present}
<1>1. Present \subseteq Peers /\ IsFiniteSet(Peers)
  BY ContactsAssumption, Zenon DEF Present
<1>2. IsFiniteSet(Present)
  BY <1>1, FS_Subset, Zenon
<1>3. IsFiniteSet(entries)
  <2>1. \A p \in Present : [peer |-> p, name |-> roster[p]] \in entries
    BY Zenon
  <2> DEFINE f == [p \in Present |-> [peer |-> p, name |-> roster[p]]]
  <2>2. f \in Surjection(Present, entries)
    BY <2>1, Zenon DEF Surjection
  <2> QED
    BY <2>2, <1>2, FS_Surjection, Zenon
<1>4. entries \subseteq Entries
  BY DEF Present, Entries, StoreTypes
<1>5. SetToSeq(entries) \in Seq(entries) /\ Range(SetToSeq(entries)) = entries
  BY <1>3, ListedEntries, Zenon
<1>6. SetToSeq(entries) \in Seq(Entries)
  <2>1. \A S, T, s : S \subseteq T /\ s \in Seq(S) => s \in Seq(T)
    OBVIOUS
  <2> QED
    BY <2>1, <1>4, <1>5, Zenon
<1> QED
  BY <1>5, <1>6, Zenon

(* Every notice of the store is emitted, and nothing else.                    *)
LEMMA NoticesList ==
    ASSUME NEW n \in [Peers -> {"none", "plain", "verified"}]
    PROVE  LET news == {Event("identity", p, n[p]) : p \in {q \in Peers : n[q] # "none"}}
           IN  Notices(n) \in Seq(Told) /\ Range(Notices(n)) = news
<1> DEFINE Q == {q \in Peers : n[q] # "none"}
           E == {Event("identity", p, n[p]) : p \in Q}
<1>1. IsFiniteSet(Peers) /\ Q \subseteq Peers
  BY ContactsAssumption, Zenon
<1>2. IsFiniteSet(Q)
  BY <1>1, FS_Subset, Zenon
<1>3. IsFiniteSet(E)
  <2>1. \A p \in Q : Event("identity", p, n[p]) \in E
    BY Zenon
  <2> DEFINE f == [p \in Q |-> Event("identity", p, n[p])]
  <2>2. f \in Surjection(Q, E)
    BY <2>1, Zenon DEF Surjection
  <2> QED
    BY <2>2, <1>2, FS_Surjection, Zenon
<1>4. E \subseteq Told
  BY DEF Event, Told
<1>5. Notices(n) = SetToSeq(E)
  BY Zenon DEF Notices
<1>6. SetToSeq(E) \in Seq(E) /\ Range(SetToSeq(E)) = E
  BY <1>3, ListedEntries, Zenon
<1>7. SetToSeq(E) \in Seq(Told)
  <2>1. \A S, T, s : S \subseteq T /\ s \in Seq(S) => s \in Seq(T)
    OBVIOUS
  <2> QED
    BY <2>1, <1>4, <1>6, Zenon
<1> QED
  BY <1>5, <1>6, <1>7, Zenon


(* A contact taken from the snapshot is one of the store's.                   *)
LEMMA TakesEntry ==
    ASSUME Types, todo \notin {NoSnapshot, <<>>}
    PROVE  /\ todo \in Seq(Entries) /\ todo # <<>> /\ Head(todo) \in Entries
           /\ Tail(todo) \in Seq(Entries)
<1>1. todo \in Seq(Entries) /\ todo # <<>>
  BY Zenon DEF Types, WorkerTypes
<1> QED
  BY <1>1, TailEntries, Zenon

(* A command taken from the channel concerns a contact.                       *)
LEMMA TakesCommand ==
    ASSUME Types, commands # <<>>
    PROVE  /\ Head(commands) \in Commands /\ Tail(commands) \in Seq(Commands)
           /\ Len(Tail(commands)) <= Capacity
<1>1. commands \in Seq(Commands) /\ Len(commands) <= Capacity
  BY Zenon DEF Types, QueueTypes
<1>2. Head(commands) \in Commands /\ Tail(commands) \in Seq(Commands)
  BY <1>1, TailEntries, Zenon
<1> QED
  BY <1>1, <1>2, ContactsAssumption

(* An event taken from the queue is of one of the kinds.                      *)
LEMMA TakesEvent ==
    ASSUME Types, events # <<>>
    PROVE  Head(events) \in Told /\ Tail(events) \in Seq(Told)
<1>1. events \in Seq(Told)
  BY Zenon DEF Types, QueueTypes
<1> QED
  BY <1>1, TailEntries, Zenon

(* A call of the avatar cache keeps its variables typed, whoever else calls.  *)
LEMMA AvatarTyped == AvatarTypes /\ [AvatarNext]_avatarVars => AvatarTypes'
<1> SUFFICES ASSUME AvatarTypes, [AvatarNext]_avatarVars
             PROVE AvatarTypes'
  BY Zenon
<1> USE AvatarAssumption DEF AvatarTypes, AvatarTypeOK, Give, Remember
<1>1. ASSUME NEW a \in Accounts, NEW i \in Images, Prepare(a, i)
      PROVE AvatarTypes'
  <2>1. memory[a][i] \in {"none", "part", "whole"}
    OBVIOUS
  <2>2. CASE memory[a][i] = "none"
    BY <1>1, <2>2, Zenon DEF Prepare
  <2>3. CASE memory[a][i] # "none"
    BY <1>1, <2>1, <2>3, ZenonT(30) DEF Prepare
  <2> QED
    BY <2>2, <2>3, Zenon
<1>2. ASSUME NEW a \in Accounts, ReadDisk(a)
      PROVE AvatarTypes'
  <2>1. Quality(disk[image[a]]) \in {"part", "whole"}
    BY Zenon DEF Quality
  <2> QED
    BY <1>2, <2>1, Zenon DEF ReadDisk
<1>3. ASSUME NEW a \in Accounts, Downscale(a)
      PROVE AvatarTypes'
  BY <1>3, ZenonT(30) DEF Downscale
<1>4. ASSUME NEW a \in Accounts, CreateTemp(a)
      PROVE AvatarTypes'
  BY <1>4 DEF CreateTemp
<1>5. ASSUME NEW a \in Accounts, WriteFails(a)
      PROVE AvatarTypes'
  BY <1>5, Zenon DEF WriteFails
<1>6. ASSUME NEW a \in Accounts, WriteTemp(a)
      PROVE AvatarTypes'
  BY <1>6, Zenon DEF WriteTemp
<1>7. ASSUME NEW a \in Accounts, RenameTemp(a)
      PROVE AvatarTypes'
  BY <1>7, Zenon DEF RenameTemp
<1>8. ASSUME NEW a \in Accounts, InsertMemory(a)
      PROVE AvatarTypes'
  BY <1>8, Zenon DEF InsertMemory
<1>9. ASSUME NEW a \in Accounts, Returned(a)
      PROVE AvatarTypes'
  BY <1>9, Zenon DEF Returned
<1>10. CASE ProcessDies \/ UNCHANGED avatarVars
  BY <1>10 DEF ProcessDies, avatarVars
<1> QED
  BY <1>1, <1>2, <1>3, <1>4, <1>5, <1>6, <1>7, <1>8, <1>9, <1>10 DEF AvatarNext, Work


(* A step of the address book is a step of the avatar cache or leaves it      *)
(* alone: only the snapshot, the downloads and the end of the process call.   *)
LEMMA AvatarPart == Types /\ [Next]_vars => [AvatarNext]_avatarVars
<1> SUFFICES ASSUME Types, [Next]_vars, ~UNCHANGED avatarVars
             PROVE AvatarNext
  BY Zenon
<1>1. Self \in Accounts /\ \A p \in Peers : Raw[p] \in Images
  BY ContactsAssumption
<1>2. CASE UNCHANGED vars
  BY <1>2, Zenon DEF vars
<1>3. CASE EmitContact
  <2>1. Head(todo).peer \in Peers
    BY <1>3, TakesEntry, Zenon DEF EmitContact, Entries
  <2> QED
    BY <1>1, <1>3, <2>1, Zenon DEF EmitContact, AvatarNext
<1>4. CASE FetchPrepares
  BY <1>1, <1>4, Zenon DEF FetchPrepares, AvatarNext, Types, WorkerTypes
<1>5. CASE PrepareStep \/ EmitAvatar
  BY <1>1, <1>5, Zenon DEF PrepareStep, EmitAvatar, AvatarNext
<1>6. CASE NextSession
  BY <1>6, Zenon DEF NextSession, AvatarNext
<1>7. CASE BeginSnapshot \/ SnapshotFails \/ EndSnapshot
  BY <1>7, Zenon DEF BeginSnapshot, SnapshotFails, EndSnapshot
<1>8. CASE BecomeActive \/ EmitNotices \/ Commanded
  BY <1>8, ZenonT(30) DEF BecomeActive, EmitNotices, Commanded, HandleAccept, HandleDismiss
<1>9. CASE QueueEmpty \/ Reconnect \/ Requesting \/ FetchNext \/ PollEvent
  BY <1>9, Zenon DEF QueueEmpty, Reconnect, Requesting, RequestSucceeds, RequestFails,
     RequestAgain, FetchNext, PollEvent
<1>10. CASE \/ StoreContacts \/ LoseStream
            \/ \E p \in Peers : IdentityChanges(p) \/ Verify(p) \/ UserEdits(p)
            \/ \E p \in Peers : UserAccepts(p)
  BY <1>10, Zenon DEF StoreContacts, LoseStream, IdentityChanges, Verify, UserEdits,
     UserAccepts
<1> QED
  BY <1>2, <1>3, <1>4, <1>5, <1>6, <1>7, <1>8, <1>9, <1>10, Zenon
     DEF Next, Outside, Snapshot, Drawing, Fetching

(* The store and the bounds stay typed.                                       *)
LEMMA StoreTyped == Types /\ [Next]_vars => StoreTypes'
<1> SUFFICES ASSUME Types, [Next]_vars
             PROVE StoreTypes'
  BY Zenon
<1> USE DEF StoreTypes, storeVars
<1>0. StoreTypes
  BY Zenon DEF Types
<1>a. ASSUME NEW what \in Happenings, Spend(what)
      PROVE budget' \in [Happenings -> Nat]
  BY <1>0, <1>a DEF Spend
<1>b. {"sync", "change", "verify", "avatar", "loss", "fail", "edit", "restart"}
        \subseteq Happenings
  BY Zenon DEF Happenings
<1>c. UNCHANGED <<storeVars, budget>> => StoreTypes'
  BY <1>0, Zenon
<1>1. CASE UNCHANGED vars
  BY <1>1, <1>c, Zenon DEF vars
<1>2. CASE StoreContacts
  BY <1>0, <1>2, <1>a, <1>b, Zenon DEF StoreContacts
<1>3. ASSUME NEW p \in Peers, IdentityChanges(p) \/ Verify(p)
      PROVE StoreTypes'
  BY <1>0, <1>3, <1>a, <1>b, Zenon DEF IdentityChanges, Verify
<1>4. ASSUME UNCHANGED storeVars, NEW what \in Happenings, Spend(what)
      PROVE StoreTypes'
  BY <1>0, <1>4, <1>a, Zenon
<1>5. CASE SnapshotFails \/ LoseStream \/ RequestFails
  BY <1>5, <1>4, <1>b, Zenon DEF SnapshotFails, LoseStream, RequestFails
<1>6. ASSUME NEW p \in Peers, UserEdits(p)
      PROVE StoreTypes'
  BY <1>6, <1>4, <1>b, Zenon DEF UserEdits
<1>7. CASE NextSession
  BY <1>7, <1>4, <1>b, Zenon DEF NextSession
<1>8. CASE EmitContact
  BY <1>8, <1>4, <1>b, <1>c, Zenon DEF EmitContact
<1>9. CASE FetchNext
  <2>1. fetch \in Seq(Peers) /\ fetch # <<>>
    BY <1>9, Zenon DEF FetchNext, Types, WorkerTypes
  <2>2. Head(fetch) \in Peers
    BY <2>1
  <2> QED
    BY <1>0, <1>9, <1>a, <1>b, <2>2, Zenon DEF FetchNext
<1>10. CASE HandleAccept \/ HandleDismiss
  <2>1. Head(commands).peer \in Peers
    BY <1>10, TakesCommand, ZenonT(30) DEF HandleAccept, HandleDismiss, Commands
  <2>2. UNCHANGED <<roster, stored, budget>>
    BY <1>10, Zenon DEF HandleAccept, HandleDismiss
  <2>3. CASE HandleAccept
    BY <1>0, <2>1, <2>2, <2>3, Zenon DEF HandleAccept
  <2>4. CASE HandleDismiss
    BY <1>0, <2>1, <2>2, <2>4, Zenon DEF HandleDismiss, Dismissed
  <2> QED
    BY <1>10, <2>3, <2>4, Zenon
<1>11. CASE BeginSnapshot \/ EndSnapshot \/ Drawing \/ BecomeActive \/ EmitNotices
  BY <1>11, <1>c, Zenon DEF BeginSnapshot, EndSnapshot, Drawing, PrepareStep, EmitAvatar,
     BecomeActive, EmitNotices
<1>12. CASE \/ QueueEmpty \/ Reconnect \/ RequestSucceeds \/ RequestAgain
            \/ FetchPrepares \/ PollEvent \/ \E p \in Peers : UserAccepts(p)
  BY <1>12, <1>c DEF QueueEmpty, Reconnect, RequestSucceeds, RequestAgain,
     FetchPrepares, PollEvent, UserAccepts
<1> QED
  BY <1>1, <1>2, <1>3, <1>5, <1>6, <1>7, <1>8, <1>9, <1>10, <1>11, <1>12
     DEF Next, Outside, Snapshot, Commanded, Requesting, Fetching


(* The worker and its tasks stay typed.                                       *)
LEMMA WorkerTyped == Types /\ [Next]_vars => WorkerTypes'
<1> SUFFICES ASSUME Types, [Next]_vars
             PROVE WorkerTypes'
  BY Zenon
<1> USE DEF WorkerTypes, workerVars
<1>0. WorkerTypes /\ StoreTypes
  BY Zenon DEF Types
<1>c. UNCHANGED workerVars => WorkerTypes'
  BY <1>0, Zenon
<1>1. CASE UNCHANGED vars
  BY <1>1, <1>c, Zenon DEF vars
<1>2. CASE StoreContacts
  BY <1>0, <1>2 DEF StoreContacts
<1>4. CASE BeginSnapshot
  <2>1. inbox' \in Nat
    BY <1>0, <1>4 DEF BeginSnapshot, ReadsContacts, TakesReport
  <2>2. todo' \in Seq(Entries)
    BY <1>0, <1>4, SnapshotLists, Zenon DEF BeginSnapshot, Present
  <2> QED
    BY <1>0, <1>4, <2>1, <2>2, Zenon DEF BeginSnapshot
<1>5. CASE SnapshotFails
  <2>1. inbox' \in Nat
    BY <1>0, <1>5 DEF SnapshotFails, ReadsContacts, TakesReport
  <2> QED
    BY <1>0, <1>5, <2>1, Zenon DEF SnapshotFails
<1>6. CASE EmitContact
  <2>1. Head(todo).peer \in Peers /\ Tail(todo) \in Seq(Entries)
    BY <1>6, TakesEntry, Zenon DEF EmitContact, Entries
  <2>2. /\ drawing' \in {drawing, Head(todo).peer} /\ todo' = Tail(todo)
        /\ names' \subseteq names \union {Head(todo).peer}
        /\ UNCHANGED <<worker, inbox, request, fetch, got>>
    BY <1>6, Zenon DEF EmitContact
  <2> QED
    BY <1>0, <2>1, <2>2, Zenon
<1>7. CASE EndSnapshot
  BY <1>0, <1>7, Zenon DEF EndSnapshot
<1>8. CASE PrepareStep \/ EmitAvatar
  BY <1>0, <1>8, <1>c, Zenon DEF PrepareStep, EmitAvatar
<1>9. CASE BecomeActive \/ Reconnect \/ Requesting
  BY <1>0, <1>9 DEF BecomeActive, Reconnect, Requesting, RequestSucceeds,
     RequestFails, RequestAgain
<1>10. CASE QueueEmpty
  <2>1. IsFiniteSet(Present) /\ Present \subseteq Peers
    BY ContactsAssumption, FS_Subset, Zenon DEF Present
  <2>2. fetch' = SetToSeq(Present) /\ SetToSeq(Present) \in Seq(Present)
    BY <1>10, <2>1, ListedEntries, Zenon DEF QueueEmpty, Present
  <2>3. \A S, T, s : S \subseteq T /\ s \in Seq(S) => s \in Seq(T)
    OBVIOUS
  <2>4. fetch' \in Seq(Peers)
    BY <2>1, <2>2, <2>3, Zenon
  <2> QED
    BY <1>0, <1>10, <2>4, Zenon DEF QueueEmpty
<1>11. CASE LoseStream \/ NextSession
  BY <1>0, <1>11 DEF LoseStream, NextSession
<1>12. CASE FetchNext
  <2>1. fetch \in Seq(Peers) /\ fetch # <<>>
    BY <1>0, <1>12, Zenon DEF FetchNext
  <2>2. Head(fetch) \in Peers /\ Tail(fetch) \in Seq(Peers)
    BY <2>1, TailEntries, Zenon
  <2> QED
    BY <1>0, <1>12, <2>2, Zenon DEF FetchNext
<1>13. CASE FetchPrepares
  BY <1>0, <1>13, Zenon DEF FetchPrepares
<1>14. CASE EmitNotices \/ Commanded \/ PollEvent
  BY <1>14, <1>c, Zenon DEF EmitNotices, Commanded, HandleAccept, HandleDismiss, PollEvent
<1>15. CASE \/ \E p \in Peers : IdentityChanges(p) \/ Verify(p) \/ UserEdits(p)
            \/ \E p \in Peers : UserAccepts(p)
  BY <1>15, <1>c, Zenon DEF IdentityChanges, Verify, UserEdits, UserAccepts
<1> QED
  BY <1>1, <1>2, <1>4, <1>5, <1>6, <1>7, <1>8, <1>9, <1>10, <1>11, <1>12, <1>13, ZenonT(30),
     <1>14, <1>15 DEF Next, Outside, Snapshot, Drawing, Fetching

-----------------------------------------------------------------------------
(* The buddy list *)

(* What adopting and moving a buddy does to a list of buddies: one buddy of   *)
(* the contact goes or is replaced, and the contact is still listed.          *)
LEMMA Moved ==
    ASSUME NEW list \in SUBSET Buddies, NEW b \in list, NEW c \in Buddies,
           c.peer = b.peer
    PROVE  /\ Move(list, b, c) \subseteq Buddies
           /\ \A d \in list : d # b => d \in Move(list, b, c)
           /\ \A d \in Move(list, b, c) : d \in list \/ d = c
           /\ \E d \in Move(list, b, c) : d.peer = b.peer
<1>1. CASE b.group # c.group /\ \E d \in list : d.peer = c.peer /\ d.group = c.group
  BY <1>1, Zenon DEF Move
<1>2. CASE ~(b.group # c.group /\ \E d \in list : d.peer = c.peer /\ d.group = c.group)
  BY <1>2, Zenon DEF Move
<1> QED
  BY <1>1, <1>2, Zenon

(* signal_blist_sync_add_contact: the contact is listed afterwards, a buddy   *)
(* of another contact is left alone, and so is every unmanaged buddy outside  *)
(* the legacy group.                                                          *)
LEMMA Added ==
    ASSUME AdapterTypes, NEW p \in Peers, AddContact(p)
    PROVE  /\ buddies' \subseteq Buddies
           /\ \E b \in buddies' : b.peer = p
           /\ \A b \in Buddies : b.peer # p => (b \in buddies' <=> b \in buddies)
           /\ \A b \in buddies : ~b.managed /\ b.group # "legacy" => b \in buddies'
<1>0. buddies \subseteq Buddies
  BY Zenon DEF AdapterTypes
<1>1. CASE buddies' = buddies \union {[peer |-> p, group |-> "default", managed |-> TRUE]}
  <2> DEFINE new == [peer |-> p, group |-> "default", managed |-> TRUE]
  <2>1. new \in Buddies /\ new.peer = p
    BY Zenon DEF Buddies, Groups
  <2>2. buddies' = buddies \union {new}
    BY <1>1
  <2> HIDE DEF new
  <2> QED
    BY <1>0, <2>1, <2>2, Zenon
<1>2. ASSUME NEW b \in FindBuddy(buddies, p), buddies' = Move(buddies, b, Adopt(b))
      PROVE  /\ buddies' \subseteq Buddies
             /\ \E d \in buddies' : d.peer = p
             /\ \A d \in Buddies : d.peer # p => (d \in buddies' <=> d \in buddies)
             /\ \A d \in buddies : ~d.managed /\ d.group # "legacy" => d \in buddies'
  <2>1. b \in buddies /\ b.peer = p /\ b \in Buddies
    BY <1>0, Zenon DEF FindBuddy
  <2>2. Adopt(b) \in Buddies /\ Adopt(b).peer = p
    BY <2>1, Zenon DEF Adopt, Buddies, Groups
  <2>3. b.group # "legacy" => Adopt(b) = b
    BY Zenon DEF Adopt
  <2>4. /\ Move(buddies, b, Adopt(b)) \subseteq Buddies
        /\ \A d \in buddies : d # b => d \in Move(buddies, b, Adopt(b))
        /\ \A d \in Move(buddies, b, Adopt(b)) : d \in buddies \/ d = Adopt(b)
        /\ \E d \in Move(buddies, b, Adopt(b)) : d.peer = b.peer
    BY <1>0, <2>1, <2>2, Moved, Zenon
  <2>5. b.group # "legacy" => b \in Move(buddies, b, Adopt(b))
    BY <2>1, <2>3, Zenon DEF Move
  <2> QED
    BY <1>2, <2>1, <2>2, <2>4, <2>5
<1> QED
  BY <1>1, <1>2, Zenon DEF AddContact


(* The user's own changes leave a list of buddies, and touch one contact.     *)
LEMMA Edited ==
    ASSUME AdapterTypes, NEW p \in Peers, UserEdits(p)
    PROVE  /\ buddies' \subseteq Buddies
           /\ \A b \in Buddies : b.peer # p => (b \in buddies' <=> b \in buddies)
<1>0. buddies \subseteq Buddies /\ Listed(p) \subseteq buddies
  BY Zenon DEF AdapterTypes, Listed
<1>1. ASSUME NEW g \in Groups,
             buddies' = buddies \union {[peer |-> p, group |-> g, managed |-> FALSE]}
      PROVE  /\ buddies' \subseteq Buddies
             /\ \A b \in Buddies : b.peer # p => (b \in buddies' <=> b \in buddies)
  <2> DEFINE new == [peer |-> p, group |-> g, managed |-> FALSE]
  <2>1. new \in Buddies /\ new.peer = p
    BY Zenon DEF Buddies
  <2>2. buddies' = buddies \union {new}
    BY <1>1, Zenon
  <2> HIDE DEF new
  <2> QED
    BY <1>0, <2>1, <2>2, Zenon
<1>2. ASSUME NEW b \in Listed(p), NEW g \in Groups,
             buddies' = Move(buddies, b, [b EXCEPT !.group = g])
      PROVE  /\ buddies' \subseteq Buddies
             /\ \A d \in Buddies : d.peer # p => (d \in buddies' <=> d \in buddies)
  <2> DEFINE c == [b EXCEPT !.group = g]
  <2>1. b \in buddies /\ b.peer = p /\ b \in Buddies
    BY <1>0, Zenon DEF Listed
  <2>2. c \in Buddies /\ c.peer = p
    BY <2>1, Zenon DEF Buddies
  <2>3. buddies' = Move(buddies, b, c)
    BY <1>2, Zenon
  <2> HIDE DEF c
  <2>4. /\ Move(buddies, b, c) \subseteq Buddies
        /\ \A d \in buddies : d # b => d \in Move(buddies, b, c)
        /\ \A d \in Move(buddies, b, c) : d \in buddies \/ d = c
    BY <1>0, <2>1, <2>2, Moved, Zenon
  <2> QED
    BY <2>1, <2>2, <2>3, <2>4, Zenon
<1>3. ASSUME NEW b \in Listed(p), buddies' = buddies \ {b}
      PROVE  /\ buddies' \subseteq Buddies
             /\ \A d \in Buddies : d.peer # p => (d \in buddies' <=> d \in buddies)
  BY <1>0, <1>3, Zenon DEF Listed
<1> QED
  BY <1>1, <1>2, <1>3, Zenon DEF UserEdits

(* The adapter's state stays typed.                                           *)
LEMMA AdapterTyped == Types /\ [Next]_vars => AdapterTypes'
<1> SUFFICES ASSUME Types, [Next]_vars
             PROVE AdapterTypes'
  BY Zenon
<1>0. AdapterTypes
  BY Zenon DEF Types
<1>c. UNCHANGED <<listVars, identityVars>> => AdapterTypes'
  BY <1>0, Zenon DEF AdapterTypes, listVars, identityVars
<1>1. CASE PollEvent
  <2> DEFINE e == Head(events)
  <2>1. /\ e.kind \notin {"begin", "end"} => e.peer \in Peers
    BY <1>1, TakesEvent, Zenon DEF PollEvent, Told
  <2>2. CASE HandleBegin(e) \/ HandleAvatar(e)
    BY <1>0, <2>2, Zenon DEF AdapterTypes, HandleBegin, HandleAvatar, identityVars
  <2>3. CASE HandleContact(e)
    <3>1. e.peer \in Peers /\ AddContact(e.peer)
      BY <2>1, <2>3, Zenon DEF HandleContact
    <3>2. buddies' \subseteq Buddies
      BY <1>0, <3>1, Added, Zenon
    <3> QED
      BY <1>0, <2>3, <3>1, <3>2 DEF AdapterTypes, HandleContact, Marks, identityVars
  <2>4. CASE HandleEnd(e)
    BY <1>0, <2>4, Zenon DEF AdapterTypes, HandleEnd, identityVars
  <2>5. CASE HandleIdentity(e)
    <3>1. e.peer \in Peers
      BY <2>1, <2>5, Zenon DEF HandleIdentity
    <3>2. UNCHANGED listVars
      BY <2>5, Zenon DEF HandleIdentity
    <3>3. told' \subseteq Peers /\ pending' \union advised' \subseteq told'
      BY <1>0, <2>5, <3>1, Zenon DEF HandleIdentity, AdapterTypes, identityVars
    <3> QED
      BY <1>0, <3>2, <3>3, Zenon DEF AdapterTypes, listVars
  <2>6. CASE HandleAccepted(e)
    BY <1>0, <2>6, Zenon DEF AdapterTypes, HandleAccepted, listVars
  <2> QED
    BY <1>1, <2>2, <2>3, <2>4, <2>5, <2>6, Zenon DEF PollEvent
<1>2. ASSUME NEW p \in Peers, UserEdits(p)
      PROVE AdapterTypes'
  <2>1. buddies' \subseteq Buddies
    BY <1>0, <1>2, Edited, Zenon
  <2> QED
    BY <1>0, <1>2, <2>1, Zenon DEF AdapterTypes, UserEdits, identityVars
<1>3. CASE NextSession
  BY <1>0, <1>3, Zenon DEF AdapterTypes, NextSession
<1>4. CASE UNCHANGED vars
  BY <1>4, <1>c, Zenon DEF vars
<1>5. CASE Snapshot \/ Drawing
  BY <1>5, <1>c, Zenon DEF Snapshot, BeginSnapshot, SnapshotFails, EmitContact, EndSnapshot,
     Drawing, PrepareStep, EmitAvatar
<1>6. CASE BecomeActive \/ EmitNotices \/ Commanded
  BY <1>6, <1>c, ZenonT(30) DEF BecomeActive, EmitNotices, Commanded, HandleAccept, HandleDismiss
<1>7. CASE QueueEmpty \/ Reconnect \/ Requesting \/ Fetching
  BY <1>7, <1>c, Zenon DEF QueueEmpty, Reconnect, Requesting, RequestSucceeds, RequestFails,
     RequestAgain, Fetching, FetchNext, FetchPrepares
<1>8. CASE \/ StoreContacts \/ LoseStream
           \/ \E p \in Peers : IdentityChanges(p) \/ Verify(p)
           \/ \E p \in Peers : UserAccepts(p)
  BY <1>8, <1>c, Zenon DEF StoreContacts, LoseStream, IdentityChanges, Verify, UserAccepts
<1> QED
  BY <1>1, <1>2, <1>3, <1>4, <1>5, <1>6, <1>7, <1>8, Zenon DEF Next, Outside


-----------------------------------------------------------------------------
(* The event queue *)

(* The notices of the store are events of a quiet kind.                       *)
LEMMA NoticesQuiet ==
    ASSUME NEW n \in [Peers -> {"none", "plain", "verified"}]
    PROVE  Notices(n) \in Seq(Told) /\ Quiet(Notices(n))
<1>1. Notices(n) \in Seq(Told)
  BY NoticesList, Zenon
<1>2. ASSUME NEW i \in DOMAIN Notices(n)
      PROVE Notices(n)[i].kind = "identity"
  <2>1. Notices(n)[i] \in Range(Notices(n))
    BY Member, Zenon
  <2> QED
    BY <2>1, NoticesList DEF Event
<1> QED
  BY <1>1, <1>2, Zenon DEF Quiet

(* A quiet event, and notices after it, are a quiet addition to a queue.      *)
LEMMA QuietAppended ==
    ASSUME NEW s \in Seq(Told), NEW N \in Seq(Told), Quiet(N),
           NEW e \in Told, e.kind \notin {"begin", "contact", "end"}
    PROVE  /\ \E q \in Seq(Told) : Quiet(q) /\ Append(s, e) = s \o q
           /\ \E q \in Seq(Told) : Quiet(q) /\ Append(s, e) \o N = s \o q
<1>1. <<e>> \in Seq(Told) /\ Quiet(<<e>>) /\ Append(s, e) = s \o <<e>>
  BY DEF Quiet
<1> DEFINE q == <<e>> \o N
<1>2. q \in Seq(Told) /\ Append(s, e) \o N = s \o q
  BY <1>1
<1>3. Quiet(q)
  <2>1. /\ Len(N) \in Nat /\ DOMAIN N = 1 .. Len(N) /\ DOMAIN q = 1 .. Len(N) + 1
        /\ q[1] = e /\ \A i \in 2 .. Len(N) + 1 : q[i] = N[i - 1] /\ i - 1 \in 1 .. Len(N)
    OBVIOUS
  <2>2. \A i \in 1 .. Len(N) + 1 : i = 1 \/ i \in 2 .. Len(N) + 1
    BY <2>1
  <2> HIDE DEF q
  <2> QED
    BY <2>1, <2>2, Zenon DEF Quiet
<1> QED
  BY <1>1, <1>2, <1>3, Zenon

(* What the steps do to the event queue.                                      *)
LEMMA EventSteps ==
    ASSUME Types, [Next]_vars
    PROVE  \/ UNCHANGED events \/ NextSession \/ PollEvent
           \/ BeginSnapshot \/ EmitContact \/ EndSnapshot
           \/ \E q \in Seq(Told) : Quiet(q) /\ events' = events \o q
<1>0. /\ events \in Seq(Told) /\ notice \in [Peers -> {"none", "plain", "verified"}]
      /\ notice' \in [Peers -> {"none", "plain", "verified"}]
  BY StoreTyped, Zenon DEF Types, QueueTypes, StoreTypes
<1>1. CASE EmitAvatar
  <2> DEFINE e == Event("avatar", drawing, given[Self])
  <2>1. Self \in Accounts
    BY ContactsAssumption, Zenon
  <2>2. given[Self] \in {"none", "empty", "part", "whole"} /\ drawing \in Peers
    BY <1>1, <2>1, Zenon DEF Types, AvatarTypes, AvatarTypeOK, WorkerTypes, EmitAvatar
  <2>3. e \in Told /\ e.kind \notin {"begin", "contact", "end"}
    BY <2>2, Zenon DEF Event, Told
  <2>4. events' = Append(events, e)
    BY <1>1, Zenon DEF EmitAvatar
  <2> HIDE DEF e
  <2> QED
    BY <1>0, <2>3, <2>4, NoticesQuiet, QuietAppended, Zenon
<1>2. CASE BecomeActive \/ EmitNotices
  <2>1. events' = events \o Notices(notice)
    BY <1>2, Zenon DEF BecomeActive, EmitNotices
  <2>2. Notices(notice) \in Seq(Told) /\ Quiet(Notices(notice))
    BY <1>0, NoticesQuiet, Zenon
  <2> QED
    BY <2>1, <2>2, Zenon
<1>3. CASE HandleAccept \/ HandleDismiss
  <2> DEFINE p == Head(commands).peer
             a == Event("accepted", p, "none")
             d == Event("identity", p, "plain")
  <2>1. p \in Peers
    BY <1>3, TakesCommand, ZenonT(30) DEF HandleAccept, HandleDismiss, Commands
  <2>2. /\ a \in Told /\ a.kind \notin {"begin", "contact", "end"}
        /\ d \in Told /\ d.kind \notin {"begin", "contact", "end"}
    BY <2>1, Zenon DEF Event, Told
  <2>3. \/ events' = events \o Notices(notice)
        \/ events' = Append(events, a) \o Notices(notice')
        \/ events' = Append(events, d) \o Notices(notice')
    BY <1>3, Zenon DEF HandleAccept, HandleDismiss
  <2> HIDE DEF a, d
  <2>4. /\ Notices(notice) \in Seq(Told) /\ Quiet(Notices(notice))
        /\ Notices(notice') \in Seq(Told) /\ Quiet(Notices(notice'))
    BY <1>0, NoticesQuiet, Zenon
  <2>5. CASE events' = events \o Notices(notice)
    BY <2>4, <2>5, Zenon
  <2>6. CASE events' = Append(events, a) \o Notices(notice')
    <3>1. \E q \in Seq(Told) : Quiet(q) /\ Append(events, a) \o Notices(notice') = events \o q
      BY <1>0, <2>2, <2>4, QuietAppended, Zenon
    <3> QED
      BY <2>6, <3>1, Zenon
  <2>7. CASE events' = Append(events, d) \o Notices(notice')
    <3>1. \E q \in Seq(Told) : Quiet(q) /\ Append(events, d) \o Notices(notice') = events \o q
      BY <1>0, <2>2, <2>4, QuietAppended, Zenon
    <3> QED
      BY <2>7, <3>1, Zenon
  <2> QED
    BY <2>3, <2>5, <2>6, <2>7, Zenon
<1>4. CASE UNCHANGED vars \/ SnapshotFails \/ PrepareStep
  BY <1>4, Zenon DEF vars, SnapshotFails, PrepareStep
<1>5. CASE QueueEmpty \/ Reconnect \/ Requesting \/ Fetching
  BY <1>5, Zenon DEF QueueEmpty, Reconnect, Requesting, RequestSucceeds, RequestFails,
     RequestAgain, Fetching, FetchNext, FetchPrepares
<1>6. CASE \/ StoreContacts \/ LoseStream
           \/ \E p \in Peers : IdentityChanges(p) \/ Verify(p) \/ UserEdits(p)
           \/ \E p \in Peers : UserAccepts(p)
  BY <1>6, Zenon DEF StoreContacts, LoseStream, IdentityChanges, Verify, UserAccepts, UserEdits
<1> QED
  BY <1>1, <1>2, <1>3, <1>4, <1>5, <1>6, Zenon DEF Next, Outside, Snapshot, Drawing, Commanded

(* Both queues stay typed.                                                    *)
LEMMA QueuesTyped == Types /\ [Next]_vars => QueueTypes'
<1> SUFFICES ASSUME Types, [Next]_vars
             PROVE QueueTypes'
  BY Zenon
<1>0. /\ commands \in Seq(Commands) /\ Len(commands) <= Capacity /\ events \in Seq(Told)
      /\ Capacity \in Nat
  BY ContactsAssumption, Zenon DEF Types, QueueTypes
<1>1. events' \in Seq(Told)
  <2>1. CASE UNCHANGED events \/ NextSession
    <3>1. events' = events \/ events' = <<>>
      BY <2>1, Zenon DEF NextSession
    <3>2. <<>> \in Seq(Told)
      OBVIOUS
    <3> QED
      BY <1>0, <3>1, <3>2, Zenon
  <2>2. CASE PollEvent
    BY <2>2, TakesEvent, Zenon DEF PollEvent
  <2>3. CASE BeginSnapshot \/ EndSnapshot
    <3>1. Boundary("begin") \in Told /\ Boundary("end") \in Told
      BY Zenon DEF Boundary, Event, Told
    <3>2. \/ events' = Append(events, Boundary("begin"))
          \/ events' = Append(events, Boundary("end"))
      BY <2>3, Zenon DEF BeginSnapshot, EndSnapshot
    <3> QED
      BY <1>0, <3>1, <3>2
  <2>4. CASE EmitContact
    <3>1. Head(todo).peer \in Peers
      BY <2>4, TakesEntry, Zenon DEF EmitContact, Entries
    <3>2. \A n : Event("contact", Head(todo).peer, Title(Head(todo).peer, n)) \in Told
      BY <3>1, Zenon DEF Event, Title, Told
    <3> QED
      BY <1>0, <2>4, <3>2 DEF EmitContact
  <2>5. ASSUME NEW q \in Seq(Told), events' = events \o q
        PROVE events' \in Seq(Told)
    BY <1>0, <2>5
  <2> QED
    BY <2>1, <2>2, <2>3, <2>4, <2>5, EventSteps, Zenon
<1>2. commands' \in Seq(Commands) /\ Len(commands') <= Capacity
  <2>a. ASSUME NEW kind \in {"accept", "dismiss"}, NEW p \in Peers, Queue(kind, p)
        PROVE commands' \in Seq(Commands) /\ Len(commands') <= Capacity
    <3> DEFINE c == [kind |-> kind, peer |-> p]
    <3>1. c \in Commands
      BY Zenon DEF Commands
    <3>2. commands' = IF Len(commands) < Capacity THEN Append(commands, c) ELSE commands
      BY <2>a, Zenon DEF Queue
    <3> HIDE DEF c
    <3> QED
      BY <1>0, <3>1, <3>2
  <2>1. CASE HandleAccept \/ HandleDismiss
    BY <2>1, TakesCommand DEF HandleAccept, HandleDismiss
  <2>2. ASSUME NEW p \in Peers, UserAccepts(p)
        PROVE commands' \in Seq(Commands) /\ Len(commands') <= Capacity
    BY <2>2, <2>a, Zenon DEF UserAccepts
  <2>3. CASE PollEvent
    <3> DEFINE e == Head(events)
    <3>1. e.kind \notin {"begin", "end"} => e.peer \in Peers
      BY <2>3, TakesEvent, Zenon DEF PollEvent, Told
    <3>2. UNCHANGED commands \/ (HandleIdentity(e) /\ Queue("dismiss", e.peer))
      BY <2>3, Zenon DEF PollEvent, HandleBegin, HandleContact, HandleAvatar, HandleEnd,
         HandleIdentity, HandleAccepted
    <3>3. HandleIdentity(e) => e.peer \in Peers
      BY <3>1, Zenon DEF HandleIdentity
    <3> QED
      BY <1>0, <3>2, <3>3, <2>a, Zenon
  <2>4. CASE NextSession
    BY <1>0, <2>4 DEF NextSession
  <2>5. CASE \/ UNCHANGED vars \/ Snapshot \/ Drawing \/ BecomeActive \/ EmitNotices
             \/ QueueEmpty \/ Reconnect \/ Requesting \/ Fetching
    <3>1. UNCHANGED commands
      BY <2>5, Zenon DEF vars, Snapshot, BeginSnapshot, SnapshotFails, EmitContact, EndSnapshot,
         Drawing, PrepareStep, EmitAvatar, BecomeActive, EmitNotices, QueueEmpty,
         Reconnect, Requesting, RequestSucceeds, RequestFails, RequestAgain, Fetching,
         FetchNext, FetchPrepares
    <3> QED
      BY <1>0, <3>1, Zenon
  <2>6. CASE \/ StoreContacts \/ LoseStream
             \/ \E p \in Peers : IdentityChanges(p) \/ Verify(p) \/ UserEdits(p)
    <3>1. UNCHANGED commands
      BY <2>6, Zenon DEF StoreContacts, LoseStream, IdentityChanges, Verify, UserEdits
    <3> QED
      BY <1>0, <3>1, Zenon
  <2> QED
    BY <2>1, <2>2, <2>3, <2>4, <2>5, <2>6, Zenon DEF Next, Outside, Commanded
<1> QED
  BY <1>1, <1>2, Zenon DEF QueueTypes

(* The types hold initially.                                                  *)
LEMMA TypesInitially == Init => Types
<1> SUFFICES ASSUME Init
             PROVE Types
  BY Zenon
<1>1. AvatarTypes
  BY InitCase, Zenon DEF Init, AvatarInv, AvatarTypes, AvatarInit
<1>2. StoreTypes
  BY ContactsAssumption, Zenon DEF Init, StoreTypes
<1>3. WorkerTypes /\ AdapterTypes
  BY ZenonT(30) DEF Init, WorkerTypes, AdapterTypes
<1>4. QueueTypes
  <2>1. <<>> \in Seq(Commands) /\ <<>> \in Seq(Told) /\ Len(<<>>) <= Capacity
    BY ContactsAssumption
  <2> QED
    BY <2>1, Zenon DEF Init, QueueTypes
<1> QED
  BY <1>1, <1>2, <1>3, <1>4, Zenon DEF Types

(* Every step keeps the types.                                                *)
LEMMA TypesStep == Types /\ [Next]_vars => Types'
  BY AvatarPart, AvatarTyped, StoreTyped, WorkerTyped, AdapterTyped, QueuesTyped, Zenon
     DEF Types


(* Every variable of the address book stays of its type, the command channel  *)
(* within its capacity and a pending change among those told.                 *)
THEOREM ContactsTypeOK == Spec => []TypeOK
<1>1. Types => TypeOK
  BY Zenon DEF Types, AvatarTypes, StoreTypes, WorkerTypes, AdapterTypes, QueueTypes, TypeOK
<1> QED
  BY <1>1, TypesInitially, TypesStep, PTL DEF Spec

(* Atomic disk persistence again, now with the callers of prepare_avatar: the *)
(* snapshots, the downloads and the sessions that end within a call.          *)
THEOREM AddressBookCachesWhole == OneAccount => (Spec => []CachedIsWhole)
<1> SUFFICES ASSUME OneAccount
             PROVE Spec => []CachedIsWhole
  BY Zenon
<1>1. Init => Types /\ AvatarInv
  BY TypesInitially, InitCase, Zenon DEF Init
<1>2. Types /\ AvatarInv /\ [Next]_vars => (Types /\ AvatarInv)'
  BY TypesStep, AvatarPart, AvatarStep, Zenon
<1>3. AvatarInv => CachedIsWhole
  BY Zenon DEF AvatarInv
<1> QED
  BY <1>1, <1>2, <1>3, PTL DEF Spec

-----------------------------------------------------------------------------
(* What the user sees stays *)

(* The steps that change the buddy list, and those that change the names.     *)
LEMMA ListSteps ==
    ASSUME [Next]_vars
    PROVE  /\ \/ UNCHANGED listVars \/ PollEvent \/ NextSession
              \/ \E p \in Peers : UserEdits(p)
           /\ UNCHANGED names \/ EmitContact \/ NextSession
<1> USE DEF listVars, workerVars
<1>1. CASE UNCHANGED vars
  BY <1>1, Zenon DEF vars
<1>2. CASE Snapshot \/ Drawing
  BY <1>2, Zenon DEF Snapshot, BeginSnapshot, SnapshotFails, EmitContact, EndSnapshot,
     Drawing, PrepareStep, EmitAvatar
<1>3. CASE BecomeActive \/ EmitNotices \/ Commanded
  BY <1>3, Zenon DEF BecomeActive, EmitNotices, Commanded, HandleAccept, HandleDismiss
<1>4. CASE QueueEmpty \/ Reconnect \/ Requesting \/ Fetching
  BY <1>4, ZenonT(30) DEF QueueEmpty, Reconnect, Requesting, RequestSucceeds, RequestFails,
     RequestAgain, Fetching, FetchNext, FetchPrepares
<1>5. CASE PollEvent
  BY <1>5, Zenon DEF PollEvent
<1>6. ASSUME NEW p \in Peers, UserEdits(p)
      PROVE UNCHANGED names
  BY <1>6, Zenon DEF UserEdits
<1>7. CASE \/ StoreContacts \/ LoseStream
           \/ \E p \in Peers : IdentityChanges(p) \/ Verify(p)
           \/ \E p \in Peers : UserAccepts(p)
  BY <1>7, ZenonT(30) DEF StoreContacts, LoseStream, IdentityChanges, Verify, UserAccepts
<1> QED
  BY <1>1, <1>2, <1>3, <1>4, <1>5, <1>6, <1>7, Zenon DEF Next, Outside

(* A step that is not the user's keeps what the user made.                    *)
LEMMA UserMadeKept ==
    ASSUME Types, [Next]_vars, budget'["edit"] = budget["edit"],
           NEW b \in buddies, ~b.managed, b.group # "legacy"
    PROVE  b \in buddies'
<1>1. CASE UNCHANGED listVars \/ NextSession
  BY <1>1, Zenon DEF listVars, NextSession
<1>2. CASE PollEvent
  <2> DEFINE e == Head(events)
  <2>1. CASE HandleContact(e)
    <3>1. e.peer \in Peers /\ AddContact(e.peer)
      BY <1>2, <2>1, TakesEvent, Zenon DEF PollEvent, Told, HandleContact
    <3>2. AdapterTypes
      BY Zenon DEF Types
    <3> QED
      BY <3>1, <3>2, Added, Zenon
  <2>2. CASE HandleEnd(e)
    BY <2>2, Zenon DEF HandleEnd
  <2>3. CASE ~HandleContact(e) /\ ~HandleEnd(e)
    BY <1>2, <2>3, Zenon DEF PollEvent, HandleBegin, HandleAvatar, HandleIdentity,
       HandleAccepted, listVars
  <2> QED
    BY <2>1, <2>2, <2>3, Zenon
<1>3. ASSUME NEW p \in Peers, UserEdits(p)
      PROVE FALSE
  <2>1. Spend("edit") /\ "edit" \in Happenings /\ budget \in [Happenings -> Nat]
    BY <1>3, Zenon DEF UserEdits, Happenings, Types, StoreTypes
  <2>2. budget'["edit"] = budget["edit"] - 1 /\ budget["edit"] \in Nat
    BY <2>1, Zenon DEF Spend
  <2> QED
    BY <2>2
<1> QED
  BY <1>1, <1>2, <1>3, ListSteps, Zenon

(* A name that a session has shown stays shown in it.                         *)
LEMMA NameKept ==
    ASSUME Types, [Next]_vars, budget'["restart"] = budget["restart"],
           NEW p \in Peers, NameShown(p)
    PROVE  NameShown(p)'
<1> DEFINE none == Event("contact", p, "none")
<1>0. /\ p \in names /\ alias[p] = "name" /\ events \in Seq(Told)
      /\ \A i \in DOMAIN events : events[i] # none
  BY Zenon DEF NameShown, Types, QueueTypes
<1>1. ~NextSession
  <2> SUFFICES ASSUME NextSession
               PROVE FALSE
    BY Zenon
  <2>1. Spend("restart") /\ "restart" \in Happenings /\ budget \in [Happenings -> Nat]
    BY Zenon DEF NextSession, Happenings, Types, StoreTypes
  <2>2. budget'["restart"] = budget["restart"] - 1 /\ budget["restart"] \in Nat
    BY <2>1, Zenon DEF Spend
  <2> QED
    BY <2>2
<1>2. p \in names'
  BY <1>0, <1>1, ListSteps, ZenonT(30) DEF EmitContact
<1>3. alias'[p] = "name"
  <2>1. CASE PollEvent
    <3> DEFINE e == Head(events)
    <3>1. e \in Told /\ e # none
      <4>1. e = events[1] /\ 1 \in DOMAIN events
        BY <1>0, <2>1 DEF PollEvent
      <4> QED
        BY <1>0, <2>1, <4>1, TakesEvent, Zenon DEF PollEvent
    <3>2. CASE HandleContact(e) /\ e.peer = p
      <4>1. e.value = "name"
        BY <3>1, <3>2, Zenon DEF Told, HandleContact, Event
      <4> QED
        BY <3>2, <4>1, Zenon DEF HandleContact, Types, AdapterTypes
    <3>3. CASE HandleContact(e) /\ e.peer # p
      BY <1>0, <3>3, ZenonT(30) DEF HandleContact, Types, AdapterTypes
    <3>4. CASE ~HandleContact(e)
      <4>1. UNCHANGED alias
        BY <2>1, <3>4, Zenon DEF PollEvent, HandleBegin, HandleAvatar, HandleEnd,
           HandleIdentity, HandleAccepted, listVars
      <4> QED
        BY <1>0, <4>1, Zenon
    <3> QED
      BY <3>2, <3>3, <3>4, Zenon
  <2>2. CASE ~PollEvent
    <3>1. UNCHANGED alias
      BY <1>1, <2>2, ListSteps, Zenon DEF listVars, UserEdits
    <3> QED
      BY <1>0, <3>1, Zenon
  <2> QED
    BY <2>1, <2>2, Zenon
<1>4. \A i \in DOMAIN events' : events'[i] # none
  <2>a. ASSUME NEW e, e # none, events' = Append(events, e)
        PROVE \A i \in DOMAIN events' : events'[i] # none
    <3> HIDE DEF none
    <3> QED
      BY <1>0, <2>a
  <2>1. CASE UNCHANGED events
    BY <1>0, <2>1, Zenon
  <2>2. CASE PollEvent
    <3>1. events # <<>> /\ events' = Tail(events)
      BY <2>2, Zenon DEF PollEvent
    <3> HIDE DEF none
    <3> QED
      BY <1>0, <3>1
  <2>3. CASE BeginSnapshot \/ EndSnapshot
    <3>1. Boundary("begin") # none /\ Boundary("end") # none
      BY ZenonT(30) DEF Boundary, Event
    <3> QED
      BY <2>3, <2>a, <3>1, ZenonT(30) DEF BeginSnapshot, EndSnapshot
  <2>4. CASE EmitContact
    <3> DEFINE h == Head(todo)
               e == Event("contact", h.peer, Title(h.peer, h.name))
    <3>1. e # none
      BY <1>0, Zenon DEF Event, Title
    <3>2. events' = Append(events, e)
      BY <2>4, Zenon DEF EmitContact
    <3> QED
      BY <2>a, <3>1, <3>2, ZenonT(30)
  <2>5. ASSUME NEW q \in Seq(Told), Quiet(q), events' = events \o q
        PROVE \A i \in DOMAIN events' : events'[i] # none
    <3>1. \A i \in DOMAIN q : q[i] # none
      BY <2>5 DEF Quiet, Event
    <3> HIDE DEF none
    <3> SUFFICES ASSUME NEW i \in DOMAIN events'
                 PROVE events'[i] # none
      BY Zenon
    <3>2. \/ i \in DOMAIN events /\ events'[i] = events[i]
          \/ i - Len(events) \in DOMAIN q /\ events'[i] = q[i - Len(events)]
      BY <1>0, <2>5
    <3> QED
      BY <1>0, <3>1, <3>2, Zenon
  <2> QED
    BY <1>1, <2>1, <2>2, <2>3, <2>4, <2>5, EventSteps, ZenonT(30)
<1> QED
  BY <1>2, <1>3, <1>4, Zenon DEF NameShown

(* "User-made buddies without the managed marker are never swept", and a name *)
(* once shown is not taken back before the session ends, for any contacts and *)
(* however the outside events fall.                                           *)
THEOREM UserBuddiesPreserved == Spec => UserBuddiesKept
<1> DEFINE A == /\ budget'["edit"] = budget["edit"] =>
                     \A b \in buddies :
                       ~b.managed /\ b.group # "legacy" => b \in buddies'
                /\ budget'["restart"] = budget["restart"] =>
                     \A p \in Peers : NameShown(p) => NameShown(p)'
<1>1. Types /\ [Next]_vars => A
  BY UserMadeKept, NameKept, Zenon
<1>2. UserBuddiesKept <=> [][A]_vars
  BY Zenon DEF UserBuddiesKept
<1> HIDE DEF A
<1> QED
  BY <1>1, <1>2, TypesInitially, TypesStep, PTL DEF Spec


-----------------------------------------------------------------------------
(* Identity changes *)

Accepted(p) == Event("accepted", p, "none")
Blocked(p) == Event("identity", p, "verified")

(* Only verified contacts are blocked; what the adapter offers, and what it   *)
(* is going to be told of, is blocked in the store, or its acceptance comes   *)
(* later in the queue.                                                        *)
BlockedAreTrusted == \A p \in Peers : notice[p] = "verified" => p \in trusted
BlockedOrSettled ==
    \A i \in DOMAIN events, p \in Peers :
      events[i] = Blocked(p) =>
        \/ notice[p] = "verified"
        \/ \E j \in DOMAIN events : i < j /\ events[j] = Accepted(p)
OfferInv == BlockedAreTrusted /\ BlockedOrSettled /\ OfferIsLive

(* What may be queued when the notices become n.                              *)
TellsOf(q, n) ==
    /\ \A i \in DOMAIN q : \A p \in Peers : q[i] = Blocked(p) => n[p] = "verified"
    /\ \A p \in Peers : notice[p] = "verified" =>
         n[p] = "verified" \/ \E i \in DOMAIN q : q[i] = Accepted(p)

(* The notices emitted are the current ones.                                  *)
LEMMA NoticesTell ==
    ASSUME NEW n \in [Peers -> {"none", "plain", "verified"}]
    PROVE  \A i \in DOMAIN Notices(n) : \A p \in Peers :
             Notices(n)[i] = Blocked(p) => n[p] = "verified"
<1> SUFFICES ASSUME NEW i \in DOMAIN Notices(n), NEW p \in Peers,
                    Notices(n)[i] = Blocked(p)
             PROVE n[p] = "verified"
  BY Zenon
<1>1. Blocked(p) \in Range(Notices(n))
  BY Member, Zenon
<1>2. PICK r \in Peers : Blocked(p) = Event("identity", r, n[r])
  BY <1>1, NoticesList, Zenon
<1>3. r = p /\ n[r] = "verified"
  BY <1>2, Zenon DEF Blocked, Event
<1> QED
  BY <1>3, Zenon

(* Every step but polling and restarting queues events that tell of the       *)
(* notices it leaves.                                                         *)
LEMMA OfferSteps ==
    ASSUME SparesBlocking, Types, BlockedAreTrusted, [Next]_vars,
           ~PollEvent, ~NextSession
    PROVE  /\ UNCHANGED pending
           /\ BlockedAreTrusted'
           /\ \E q \in Seq(Told) : events' = events \o q /\ TellsOf(q, notice')
<1>0. /\ events \in Seq(Told) /\ notice \in [Peers -> {"none", "plain", "verified"}]
      /\ notice' \in [Peers -> {"none", "plain", "verified"}]
  BY StoreTyped, Zenon DEF Types, QueueTypes, StoreTypes
<1>a. ASSUME UNCHANGED notice, UNCHANGED trusted
      PROVE BlockedAreTrusted'
  BY <1>a, Zenon DEF BlockedAreTrusted
<1>b. ASSUME \A p \in Peers : notice[p] = "verified" => notice'[p] = "verified",
             UNCHANGED events
      PROVE \E q \in Seq(Told) : events' = events \o q /\ TellsOf(q, notice')
  <2>1. <<>> \in Seq(Told) /\ events \o <<>> = events /\ DOMAIN <<>> = {}
    BY <1>0
  <2>2. TellsOf(<<>>, notice')
    BY <1>b, <2>1, Zenon DEF TellsOf
  <2> QED
    BY <1>b, <2>1, <2>2, Zenon
<1>c. ASSUME UNCHANGED notice, NEW e \in Told, e.kind # "identity",
             events' = Append(events, e)
      PROVE \E q \in Seq(Told) : events' = events \o q /\ TellsOf(q, notice')
  <2>1. <<e>> \in Seq(Told) /\ Append(events, e) = events \o <<e>>
    BY <1>0
  <2>2. \A i \in DOMAIN <<e>> : <<e>>[i] = e
    OBVIOUS
  <2>3. TellsOf(<<e>>, notice')
    BY <1>c, <2>2 DEF TellsOf, Blocked, Event
  <2> QED
    BY <1>c, <2>1, <2>3, Zenon
<1>d. ASSUME UNCHANGED notice, events' = events \o Notices(notice)
      PROVE \E q \in Seq(Told) : events' = events \o q /\ TellsOf(q, notice')
  <2>1. Notices(notice) \in Seq(Told)
    BY <1>0, NoticesQuiet, Zenon
  <2>2. TellsOf(Notices(notice), notice')
    BY <1>0, <1>d, NoticesTell, Zenon DEF TellsOf
  <2> QED
    BY <1>d, <2>1, <2>2, Zenon
<1>e. ASSUME NEW e \in Told, \A p \in Peers : e # Blocked(p),
             \A p \in Peers : notice[p] = "verified" =>
                notice'[p] = "verified" \/ e = Accepted(p),
             events' = Append(events, e) \o Notices(notice')
      PROVE \E q \in Seq(Told) : events' = events \o q /\ TellsOf(q, notice')
  <2> DEFINE N == Notices(notice')
             q == <<e>> \o N
  <2>1. N \in Seq(Told) /\ \A i \in DOMAIN N : \A p \in Peers :
          N[i] = Blocked(p) => notice'[p] = "verified"
    BY <1>0, NoticesQuiet, NoticesTell, Zenon
  <2>2. events' = Append(events, e) \o N
    BY <1>e, Zenon
  <2> HIDE DEF N
  <2>3. q \in Seq(Told) /\ events' = events \o q
    BY <1>0, <1>e, <2>1, <2>2
  <2>4. /\ Len(N) \in Nat /\ DOMAIN N = 1 .. Len(N) /\ DOMAIN q = 1 .. Len(N) + 1
        /\ q[1] = e /\ \A i \in 2 .. Len(N) + 1 : q[i] = N[i - 1] /\ i - 1 \in 1 .. Len(N)
    BY <2>1
  <2>5. /\ \A i \in 1 .. Len(N) + 1 : i = 1 \/ i \in 2 .. Len(N) + 1
        /\ 1 \in DOMAIN q
    BY <2>4
  <2> HIDE DEF q
  <2>6. TellsOf(q, notice')
    <3>1. ASSUME NEW i \in DOMAIN q, NEW p \in Peers, q[i] = Blocked(p)
          PROVE notice'[p] = "verified"
      <4>1. i \in 2 .. Len(N) + 1
        BY <1>e, <2>4, <2>5, <3>1, Zenon
      <4> QED
        BY <2>1, <2>4, <3>1, <4>1, Zenon
    <3>2. ASSUME NEW p \in Peers, notice[p] = "verified", notice'[p] # "verified"
          PROVE \E i \in DOMAIN q : q[i] = Accepted(p)
      BY <1>e, <2>4, <2>5, <3>2, Zenon
    <3> QED
      BY <3>1, <3>2, Zenon DEF TellsOf
  <2> QED
    BY <2>3, <2>6, Zenon
<1>1. CASE UNCHANGED vars \/ SnapshotFails \/ PrepareStep
  BY <1>1, <1>a, <1>b, Zenon DEF vars, SnapshotFails, PrepareStep, storeVars, identityVars
<1>2. CASE BeginSnapshot \/ EndSnapshot
  <2>1. /\ Boundary("begin") \in Told /\ Boundary("begin").kind # "identity"
        /\ Boundary("end") \in Told /\ Boundary("end").kind # "identity"
    BY Zenon DEF Boundary, Event, Told
  <2> QED
    BY <1>2, <1>a, <1>c, <2>1, ZenonT(30) DEF BeginSnapshot, EndSnapshot, storeVars, identityVars
<1>3. CASE EmitContact
  <2> DEFINE h == Head(todo)
             e == Event("contact", h.peer, Title(h.peer, h.name))
  <2>1. h.peer \in Peers
    BY <1>3, TakesEntry, Zenon DEF EmitContact, Entries
  <2>2. e \in Told /\ e.kind # "identity"
    BY <2>1, Zenon DEF Event, Title, Told
  <2>3. /\ events' = Append(events, e)
        /\ UNCHANGED <<notice, trusted, pending>>
    BY <1>3, Zenon DEF EmitContact, storeVars, identityVars
  <2> QED
    BY <1>a, <1>c, <2>2, <2>3, ZenonT(30)
<1>4. CASE EmitAvatar
  <2> DEFINE e == Event("avatar", drawing, given[Self])
  <2>1. Self \in Accounts
    BY ContactsAssumption, Zenon
  <2>2. given[Self] \in {"none", "empty", "part", "whole"} /\ drawing \in Peers
    BY <1>4, <2>1, Zenon DEF Types, AvatarTypes, AvatarTypeOK, WorkerTypes, EmitAvatar
  <2>3. e \in Told /\ e.kind # "identity"
    BY <2>2, Zenon DEF Event, Told
  <2>4. /\ events' = Append(events, e)
        /\ UNCHANGED <<notice, trusted, pending>>
    BY <1>4, Zenon DEF EmitAvatar, storeVars, identityVars
  <2> QED
    BY <1>a, <1>c, <2>3, <2>4, Zenon
<1>5. CASE BecomeActive \/ EmitNotices
  BY <1>5, <1>a, <1>d, Zenon DEF BecomeActive, EmitNotices, storeVars, identityVars
<1>6. CASE HandleAccept
  <2> DEFINE p == Head(commands).peer
  <2>0. p \in Peers /\ UNCHANGED pending
    BY <1>6, TakesCommand, Zenon DEF HandleAccept, Commands, identityVars
  <2>a. \/ /\ notice[p] = "verified"
           /\ notice' = [notice EXCEPT ![p] = "none"] /\ trusted' = trusted \ {p}
           /\ events' = Append(events, Accepted(p)) \o Notices(notice')
        \/ events' = events \o Notices(notice) /\ UNCHANGED <<notice, trusted>>
    BY <1>6, Zenon DEF HandleAccept, Accepted
  <2>1. CASE /\ notice[p] = "verified"
             /\ notice' = [notice EXCEPT ![p] = "none"] /\ trusted' = trusted \ {p}
             /\ events' = Append(events, Accepted(p)) \o Notices(notice')
    <3>2. Accepted(p) \in Told /\ \A r : Accepted(p) # Blocked(r)
      BY <2>0, Zenon DEF Accepted, Blocked, Event, Told
    <3>3. \A r \in Peers : notice[r] = "verified" =>
            notice'[r] = "verified" \/ Accepted(p) = Accepted(r)
      BY <1>0, <2>1, Zenon
    <3>4. BlockedAreTrusted'
      BY <1>0, <2>0, <2>1, Zenon DEF BlockedAreTrusted
    <3> QED
      BY <1>e, <2>0, <2>1, <3>2, <3>3, <3>4, Zenon
  <2>2. CASE events' = events \o Notices(notice) /\ UNCHANGED <<notice, trusted>>
    BY <2>0, <2>2, <1>a, <1>d, Zenon
  <2> QED
    BY <2>a, <2>1, <2>2, Zenon
<1>7. CASE HandleDismiss
  <2> DEFINE p == Head(commands).peer
             d == Event("identity", p, "plain")
  <2>0. p \in Peers /\ UNCHANGED <<pending, trusted>>
    BY <1>7, TakesCommand, Zenon DEF HandleDismiss, Commands, identityVars
  <2>a. \/ /\ notice' = [notice EXCEPT ![p] = IF @ = "plain" THEN "none" ELSE @]
           /\ events' = Append(events, d) \o Notices(notice')
        \/ events' = events \o Notices(notice) /\ UNCHANGED notice
    BY <1>7, Zenon DEF HandleDismiss, Dismissed
  <2>b. CASE events' = events \o Notices(notice) /\ UNCHANGED notice
    BY <2>0, <2>b, <1>a, <1>d, Zenon
  <2>1. CASE /\ notice' = [notice EXCEPT ![p] = IF @ = "plain" THEN "none" ELSE @]
             /\ events' = Append(events, d) \o Notices(notice')
    <3>2. d \in Told /\ \A r : d # Blocked(r)
      BY <2>0 DEF Blocked, Event, Told
    <3>3. \A r \in Peers : notice[r] = "verified" <=> notice'[r] = "verified"
      BY <1>0, <2>1, Zenon
    <3>4. BlockedAreTrusted'
      BY <2>0, <3>3, Zenon DEF BlockedAreTrusted
    <3> HIDE DEF d
    <3> QED
      BY <1>e, <2>0, <2>1, <3>2, <3>3, <3>4, Zenon
  <2> QED
    BY <2>a, <2>b, <2>1, Zenon
<1>8. CASE QueueEmpty \/ Reconnect \/ Requesting \/ Fetching
  BY <1>8, <1>a, <1>b, ZenonT(30) DEF QueueEmpty, Reconnect, Requesting, RequestSucceeds,
     RequestFails, RequestAgain, Fetching, FetchNext, FetchPrepares, storeVars,
     identityVars
<1>9. ASSUME NEW p \in Peers, IdentityChanges(p)
      PROVE  /\ UNCHANGED <<pending, events>> /\ BlockedAreTrusted'
             /\ \A r \in Peers : notice[r] = "verified" => notice'[r] = "verified"
  <2>1. /\ notice' = [notice EXCEPT ![p] = IF p \in trusted THEN "verified" ELSE "plain"]
        /\ UNCHANGED <<pending, events, trusted>>
    BY <1>9, Zenon DEF IdentityChanges, identityVars
  <2> QED
    BY <1>0, <2>1, Zenon DEF BlockedAreTrusted
<1>10. ASSUME NEW p \in Peers, Verify(p)
       PROVE  UNCHANGED <<pending, events, notice>> /\ BlockedAreTrusted'
  BY <1>10, Zenon DEF Verify, identityVars, BlockedAreTrusted
<1>11. CASE \/ StoreContacts \/ LoseStream
            \/ \E p \in Peers : UserEdits(p)
            \/ \E p \in Peers : UserAccepts(p)
  BY <1>11, <1>a, <1>b, Zenon DEF StoreContacts, LoseStream, UserAccepts, UserEdits, storeVars,
     identityVars
<1> QED
  BY <1>1, <1>2, <1>3, <1>4, <1>5, <1>6, <1>7, <1>8, <1>9, <1>10, <1>11, <1>b, Zenon
     DEF Next, Outside, Snapshot, Drawing, Commanded


(* A step that queues events keeps every promise of the queue.                *)
LEMMA QueueKeepsOffers ==
    ASSUME SparesBlocking, Types, OfferInv, [Next]_vars, ~PollEvent, ~NextSession
    PROVE  OfferInv'
<1>0. /\ UNCHANGED pending /\ BlockedAreTrusted' /\ events \in Seq(Told)
      /\ pending \subseteq Peers
  BY OfferSteps, Zenon DEF OfferInv, Types, QueueTypes, AdapterTypes
<1>1. PICK q \in Seq(Told) : events' = events \o q /\ TellsOf(q, notice')
  BY OfferSteps, Zenon DEF OfferInv
<1> DEFINE n == Len(events)
<1>2. /\ n \in Nat /\ DOMAIN events = 1 .. n /\ DOMAIN events \subseteq DOMAIN events'
      /\ \A i \in DOMAIN events : events'[i] = events[i]
      /\ \A i \in DOMAIN events' : i \in DOMAIN events \/
           (i - n \in DOMAIN q /\ events'[i] = q[i - n])
      /\ \A i \in DOMAIN q : n + i \in DOMAIN events' /\ events'[n + i] = q[i] /\ n + i > n
  BY <1>0, <1>1
<1> HIDE DEF n
<1>3. ASSUME NEW p \in Peers, notice[p] = "verified"
      PROVE  \/ notice'[p] = "verified"
             \/ \E j \in DOMAIN events' : j > n /\ events'[j] = Accepted(p)
  <2>1. notice'[p] = "verified" \/ \E i \in DOMAIN q : q[i] = Accepted(p)
    BY <1>1, <1>3, Zenon DEF TellsOf
  <2>2. ASSUME NEW i \in DOMAIN q, q[i] = Accepted(p)
        PROVE \E j \in DOMAIN events' : j > n /\ events'[j] = Accepted(p)
    <3>1. n + i \in DOMAIN events' /\ events'[n + i] = Accepted(p) /\ n + i > n
      BY <1>2, <2>2, Zenon
    <3> QED
      BY <3>1, Zenon
  <2> QED
    BY <2>1, <2>2, ZenonT(30)
<1>4. BlockedOrSettled'
  <2> SUFFICES ASSUME NEW i \in DOMAIN events', NEW p \in Peers, events'[i] = Blocked(p),
                      notice'[p] # "verified"
               PROVE \E j \in DOMAIN events' : i < j /\ events'[j] = Accepted(p)
    BY Zenon DEF BlockedOrSettled
  <2>1. i \in DOMAIN events
    BY <1>1, <1>2 DEF TellsOf
  <2>2. i <= n /\ i \in Nat
    BY <1>2, <2>1
  <2>3. CASE notice[p] = "verified"
    <3>1. PICK j \in DOMAIN events' : j > n /\ events'[j] = Accepted(p)
      BY <1>3, <2>3, Zenon
    <3>2. i < j
      BY <1>0, <1>1, <1>2, <2>2, <3>1
    <3> QED
      BY <3>1, <3>2, Zenon
  <2>4. CASE notice[p] # "verified"
    BY <1>2, <2>1, <2>4 DEF OfferInv, BlockedOrSettled
  <2> QED
    BY <2>3, <2>4, Zenon
<1>5. OfferIsLive'
  <2> SUFFICES ASSUME NEW p \in pending, notice'[p] # "verified"
               PROVE \E i \in DOMAIN events' : events'[i] = Event("accepted", p, "none")
    BY <1>0, Zenon DEF OfferIsLive
  <2>1. CASE notice[p] = "verified"
    BY <1>0, <1>3, <2>1, Zenon DEF Accepted
  <2>2. CASE notice[p] # "verified"
    BY <1>2, <2>2 DEF OfferInv, OfferIsLive
  <2> QED
    BY <2>1, <2>2, Zenon
<1> QED
  BY <1>0, <1>4, <1>5, Zenon DEF OfferInv

(* Polling acts on the first event: what it tells is still so, or settled     *)
(* behind it.                                                                 *)
LEMMA PollKeepsOffers ==
    ASSUME Types, OfferInv, PollEvent
    PROVE  OfferInv'
<1> DEFINE e == Head(events)
           n == Len(events)
<1>0. /\ events \in Seq(Told) /\ events # <<>> /\ events' = Tail(events)
      /\ UNCHANGED <<notice, trusted>>
  BY Zenon DEF Types, QueueTypes, PollEvent, storeVars
<1>1. /\ n \in Nat /\ n > 0 /\ DOMAIN events = 1 .. n /\ e = events[1]
      /\ DOMAIN events' = 1 .. n - 1 /\ \A i \in 1 .. n - 1 : events'[i] = events[i + 1]
  BY <1>0
<1>2. /\ \A i \in DOMAIN events' : i + 1 \in DOMAIN events /\ events'[i] = events[i + 1]
      /\ \A i \in DOMAIN events : i > 1 => i - 1 \in DOMAIN events' /\ events'[i - 1] = events[i]
      /\ 1 \in DOMAIN events
  BY <1>1
<1> HIDE DEF n
<1>3. BlockedAreTrusted'
  BY <1>0, Zenon DEF OfferInv, BlockedAreTrusted
<1>4. BlockedOrSettled'
  <2> SUFFICES ASSUME NEW i \in DOMAIN events', NEW p \in Peers, events'[i] = Blocked(p),
                      notice[p] # "verified"
               PROVE \E j \in DOMAIN events' : i < j /\ events'[j] = Accepted(p)
    BY <1>0, Zenon DEF BlockedOrSettled
  <2>1. PICK j \in DOMAIN events : i + 1 < j /\ events[j] = Accepted(p)
    BY <1>2 DEF OfferInv, BlockedOrSettled
  <2>2. j > 1 /\ i < j - 1
    BY <1>1, <2>1
  <2> QED
    BY <1>2, <2>1, <2>2, Zenon
<1>5. ASSUME NEW p \in pending', notice[p] # "verified"
      PROVE \E i \in DOMAIN events' : events'[i] = Accepted(p)
  <2>1. CASE p \in pending
    <3>1. PICK i \in DOMAIN events : events[i] = Accepted(p)
      BY <1>5, <2>1, Zenon DEF OfferInv, OfferIsLive, Accepted
    <3>2. CASE i = 1
      <4>1. e.kind = "accepted" /\ e.peer = p
        BY <1>1, <3>1, <3>2 DEF Accepted, Event
      <4>2. HandleAccepted(e)
        BY <4>1, ZenonT(30) DEF PollEvent, HandleBegin, HandleContact, HandleAvatar, HandleEnd,
           HandleIdentity
      <4> QED
        BY <1>5, <4>1, <4>2, Zenon DEF HandleAccepted
    <3>3. CASE i # 1
      <4>1. i > 1
        BY <1>1, <3>3
      <4> QED
        BY <1>2, <3>1, <4>1, Zenon
    <3> QED
      BY <3>2, <3>3, Zenon
  <2>2. CASE p \notin pending
    <3>1. HandleIdentity(e) /\ e.value = "verified" /\ e.peer = p
      BY <1>5, <2>2, ZenonT(30) DEF PollEvent, HandleBegin, HandleContact, HandleAvatar, HandleEnd,
         HandleIdentity, HandleAccepted, identityVars
    <3>2. e \in Told /\ e.kind = "identity"
      BY <1>0, <3>1, TakesEvent, ZenonT(30) DEF HandleIdentity
    <3>3. p \in Peers /\ events[1] = Blocked(p)
      BY <1>1, <3>1, <3>2, ZenonT(30) DEF Told, Blocked, Event
    <3>4. PICK j \in DOMAIN events : 1 < j /\ events[j] = Accepted(p)
      BY <1>2, <1>5, <3>3, ZenonT(30) DEF OfferInv, BlockedOrSettled
    <3>5. j > 1
      BY <1>1, <3>4, Zenon
    <3> QED
      BY <1>2, <3>4, <3>5, Zenon
  <2> QED
    BY <2>1, <2>2, Zenon
<1>6. OfferIsLive'
  BY <1>0, <1>5, Zenon DEF OfferIsLive, Accepted
<1> QED
  BY <1>3, <1>4, <1>6, Zenon DEF OfferInv

(* The accept action is never left over: while the adapter has a change of a  *)
(* contact pending, the store blocks that contact or the acceptance is queued *)
(* for the adapter, provided that a dismissal spares blocking notices.        *)
THEOREM OffersStayLive == SparesBlocking => (Spec => []OfferIsLive)
<1> SUFFICES ASSUME SparesBlocking
             PROVE Spec => []OfferIsLive
  BY Zenon
<1>1. Init => Types /\ OfferInv
  <2>1. Init => OfferInv
    BY DEF Init, OfferInv, BlockedAreTrusted, BlockedOrSettled, OfferIsLive
  <2> QED
    BY <2>1, TypesInitially, Zenon
<1>2. Types /\ OfferInv /\ [Next]_vars => (Types /\ OfferInv)'
  <2> SUFFICES ASSUME Types, OfferInv, [Next]_vars
               PROVE OfferInv'
    BY TypesStep, Zenon
  <2>1. CASE NextSession
    <3>1. events' = <<>> /\ pending' = {} /\ UNCHANGED <<notice, trusted>>
      BY <2>1, Zenon DEF NextSession, storeVars
    <3>2. DOMAIN events' = {}
      BY <3>1
    <3> QED
      BY <3>1, <3>2, Zenon DEF OfferInv, BlockedAreTrusted, BlockedOrSettled, OfferIsLive
  <2> QED
    BY <2>1, QueueKeepsOffers, PollKeepsOffers, Zenon
<1>3. OfferInv => OfferIsLive
  BY Zenon DEF OfferInv
<1> QED
  BY <1>1, <1>2, <1>3, PTL DEF Spec


-----------------------------------------------------------------------------
(* Agreement of the buddy list with the store *)

(* The contacts of the latest snapshot: emitted and not handled, not yet      *)
(* emitted, or handled; and whether its end has yet to be handled.            *)
TodoHas(p) == todo # NoSnapshot /\ \E k \in DOMAIN todo : todo[k].peer = p
Snapped(p) ==
    HasContact(events, p) \/ TodoHas(p) \/ (~HasBegin(events) /\ p \in marked)
Open == HasBegin(events) \/ syncing

(* A snapshot is emitted and handled in order, and one at a time.             *)
SnapshotInv ==
    /\ EndIsLast(events)
    /\ HasEnd(events) => todo = NoSnapshot
    /\ Open <=> todo # NoSnapshot \/ HasEnd(events)
    /\ ~Open => \A p : ~HasContact(events, p)
    /\ todo # NoSnapshot => worker \in {"snapshot", "active"}

(* The latest snapshot was read whole, after the last change of the store     *)
(* that was reported.                                                         *)
Fresh ==
    /\ ~missed /\ inbox = 0
    /\ worker \in {"notices", "active"} \/ (worker = "snapshot" /\ todo # NoSnapshot)

Agrees(p) ==
    /\ p \in Present => Listed(p) # {}
    /\ p \notin Present => \A b \in Listed(p) : ~b.managed

(* A fresh snapshot lists the contacts of the store, what it has marked has a *)
(* buddy, and when it has been handled the buddy list agrees.                 *)
AgreeInv ==
    Fresh =>
      /\ Open => \A p \in Peers : Snapped(p) <=> p \in Present
      /\ syncing /\ ~HasBegin(events) => \A p \in marked \ edited : Listed(p) # {}
      /\ ~Open => \A p \in Peers \ edited : Agrees(p)
BookInv == SnapshotInv /\ AgreeInv

(* A list of contacts says who is left after the first one is taken.          *)
LEMMA TodoTail ==
    ASSUME NEW s \in Seq(Entries), s # <<>>
    PROVE  \A p : (\E k \in DOMAIN s : s[k].peer = p) <=>
                    Head(s).peer = p \/ \E k \in DOMAIN Tail(s) : Tail(s)[k].peer = p
<1> DEFINE t == Tail(s)
           n == Len(s)
<1>1. /\ n \in Nat /\ n > 0 /\ DOMAIN s = 1 .. n /\ Head(s) = s[1]
      /\ DOMAIN t = 1 .. n - 1 /\ \A i \in 1 .. n - 1 : t[i] = s[i + 1]
  OBVIOUS
<1>2. /\ \A i \in DOMAIN t : i + 1 \in DOMAIN s /\ t[i] = s[i + 1]
      /\ \A i \in DOMAIN s : i = 1 \/ (i - 1 \in DOMAIN t /\ t[i - 1] = s[i])
      /\ 1 \in DOMAIN s
  BY <1>1
<1> HIDE DEF t, n
<1> SUFFICES ASSUME NEW p
             PROVE (\E k \in DOMAIN s : s[k].peer = p) <=>
                     Head(s).peer = p \/ \E k \in DOMAIN t : t[k].peer = p
  BY Zenon DEF t
<1>3. ASSUME NEW k \in DOMAIN s, s[k].peer = p, Head(s).peer # p
      PROVE \E i \in DOMAIN t : t[i].peer = p
  <2>1. k - 1 \in DOMAIN t /\ t[k - 1].peer = p
    BY <1>1, <1>2, <1>3, Zenon
  <2> QED
    BY <2>1, Zenon
<1>4. ASSUME NEW k \in DOMAIN t, t[k].peer = p
      PROVE \E i \in DOMAIN s : s[i].peer = p
  <2>1. k + 1 \in DOMAIN s /\ s[k + 1].peer = p
    BY <1>2, <1>4, Zenon
  <2> QED
    BY <2>1, Zenon
<1>5. Head(s).peer = p => \E k \in DOMAIN s : s[k].peer = p
  BY <1>1, <1>2, Zenon
<1> QED
  BY <1>3, <1>4, <1>5, Zenon

(* A snapshot is opened: it is the latest, and lists what the store has.      *)
LEMMA BeginAgrees ==
    ASSUME Types, BookInv, BeginSnapshot
    PROVE  BookInv'
<1> DEFINE entries == {[peer |-> p, name |-> roster[p]] : p \in Present}
           e == Boundary("begin")
<1>0. /\ events \in Seq(Told) /\ e.kind = "begin" /\ EndIsLast(events)
  BY Zenon DEF Types, QueueTypes, Boundary, Event, BookInv, SnapshotInv
<1>1. /\ todo' = SetToSeq(entries) /\ todo' \in Seq(Entries)
      /\ Range(todo') = entries
  BY SnapshotLists, ZenonT(30) DEF BeginSnapshot, Types, Present
<1>2. todo' # NoSnapshot
  BY <1>1, NoLists, Zenon
<1>3. UNCHANGED <<roster, syncing, marked, worker>> /\ worker \in {"snapshot", "active"}
  BY ZenonT(30) DEF BeginSnapshot, storeVars, listVars, ReadsContacts
<1>4. events' = Append(events, e)
  BY Zenon DEF BeginSnapshot
<1> HIDE DEF e
<1>5. /\ HasBegin(events') /\ ~HasEnd(events') /\ EndIsLast(events')
      /\ \A p : ~HasContact(events', p)
  BY <1>0, <1>4, Queued, Zenon
<1>6. ASSUME NEW p \in Peers
      PROVE TodoHas(p)' <=> p \in Present
  <2>1. ASSUME NEW k \in DOMAIN todo', todo'[k].peer = p
        PROVE p \in Present
    <3>1. todo'[k] \in entries
      BY <1>1, Member, Zenon
    <3> QED
      BY <2>1, <3>1
  <2>2. ASSUME p \in Present
        PROVE \E k \in DOMAIN todo' : todo'[k].peer = p
    <3>1. [peer |-> p, name |-> roster[p]] \in Range(todo')
      BY <1>1, <2>2, ZenonT(30)
    <3>2. PICK k \in DOMAIN todo' : todo'[k] = [peer |-> p, name |-> roster[p]]
      BY <3>1, Member, Zenon
    <3> QED
      BY <3>2
  <2> QED
    BY <1>2, <2>1, <2>2, Zenon DEF TodoHas
<1>7. SnapshotInv'
  BY <1>2, <1>3, <1>5, Zenon DEF SnapshotInv, Open
<1>8. AgreeInv'
  <2>1. Present' = Present
    BY <1>3, Zenon DEF Present
  <2> QED
    BY <1>5, <1>6, <2>1, Zenon DEF AgreeInv, Open, Snapped
<1> QED
  BY <1>7, <1>8, Zenon DEF BookInv

(* The next contact of the snapshot moves from the list to the queue.         *)
LEMMA ContactAgrees ==
    ASSUME Types, BookInv, EmitContact
    PROVE  BookInv'
<1> DEFINE h == Head(todo)
           e == Event("contact", h.peer, Title(h.peer, h.name))
<1>0. /\ events \in Seq(Told) /\ e.kind = "contact" /\ e.peer = h.peer
      /\ events' = Append(events, e)
  BY ZenonT(30) DEF Types, QueueTypes, Event, EmitContact
<1>1. /\ todo # NoSnapshot /\ todo \in Seq(Entries) /\ todo # <<>>
      /\ todo' = Tail(todo) /\ todo' \in Seq(Entries)
  BY TakesEntry, Zenon DEF EmitContact
<1>2. todo' # NoSnapshot
  BY <1>1, NoLists, Zenon
<1>3. /\ UNCHANGED <<roster, syncing, marked, buddies, worker, inbox, edited>>
      /\ missed => missed'
  BY DEF EmitContact, storeVars, listVars
<1> HIDE DEF e
<1>4. ~HasEnd(events) /\ EndIsLast(events) /\ Open /\ worker \in {"snapshot", "active"}
  BY <1>1, Zenon DEF BookInv, SnapshotInv
<1>5. /\ HasBegin(events') <=> HasBegin(events)
      /\ \A p : HasContact(events', p) <=> HasContact(events, p) \/ h.peer = p
      /\ ~HasEnd(events') /\ EndIsLast(events')
  BY <1>0, <1>4, Queued, ZenonT(30)
<1>6. \A p : HasContact(events', p) \/ TodoHas(p)' <=> HasContact(events, p) \/ TodoHas(p)
  <2>1. \A p : (\E k \in DOMAIN todo : todo[k].peer = p) <=>
                 h.peer = p \/ \E k \in DOMAIN todo' : todo'[k].peer = p
    <3>1. todo \in Seq(Entries) /\ todo # <<>> /\ Tail(todo) = todo'
      BY <1>1, Zenon
    <3>2. \A p : (\E k \in DOMAIN todo : todo[k].peer = p) <=>
                   h.peer = p \/ \E k \in DOMAIN Tail(todo) : Tail(todo)[k].peer = p
      BY <3>1, TodoTail, Zenon
    <3> QED
      BY <3>1, <3>2, Zenon
  <2>2. \A p : TodoHas(p) <=> h.peer = p \/ TodoHas(p)'
    BY <1>1, <1>2, <2>1, Zenon DEF TodoHas
  <2> QED
    BY <1>5, <2>2, Zenon
<1>7. Open' /\ (Fresh' => Fresh) /\ Present' = Present
      /\ \A p : Listed(p)' = Listed(p)
  BY <1>1, <1>3, <1>4, <1>5, Zenon DEF Open, Fresh, Present, Listed
<1>8. SnapshotInv'
  BY <1>2, <1>3, <1>4, <1>5, <1>7 DEF SnapshotInv
<1>9. \A p : Snapped(p)' <=> Snapped(p)
  BY <1>3, <1>5, <1>6, Zenon DEF Snapped
<1>10. AgreeInv'
  BY <1>3, <1>4, <1>5, <1>7, <1>9, Zenon DEF BookInv, AgreeInv
<1> QED
  BY <1>8, <1>10, Zenon DEF BookInv

(* The snapshot is closed when every contact of it is in the queue or handled.*)
LEMMA EndAgrees ==
    ASSUME Types, BookInv, EndSnapshot
    PROVE  BookInv'
<1> DEFINE e == Boundary("end")
<1>0. /\ events \in Seq(Told) /\ e.kind = "end" /\ events' = Append(events, e)
      /\ EndIsLast(events)
  BY Zenon DEF Types, QueueTypes, Boundary, Event, EndSnapshot, BookInv, SnapshotInv
<1>1. todo = <<>> /\ todo # NoSnapshot /\ todo' = NoSnapshot
  <2>1. todo = <<>> /\ <<>> \in Seq(Entries) /\ todo' = NoSnapshot
    BY DEF EndSnapshot
  <2> QED
    BY <2>1, NoLists, Zenon
<1>2. /\ UNCHANGED <<roster, syncing, marked, buddies, inbox, missed, edited>>
      /\ worker' = IF worker = "snapshot" THEN "notices" ELSE worker
  BY Zenon DEF EndSnapshot, storeVars, listVars, history
<1> HIDE DEF e
<1>3. Open /\ worker \in {"snapshot", "active"} /\ ~HasEnd(events)
  BY <1>1, Zenon DEF BookInv, SnapshotInv
<1>4. /\ HasBegin(events') <=> HasBegin(events)
      /\ \A p : HasContact(events', p) <=> HasContact(events, p)
      /\ HasEnd(events') /\ EndIsLast(events')
  BY <1>0, <1>3, Queued, Zenon
<1>5. Open' /\ (Fresh' => Fresh) /\ Present' = Present /\ \A p : Listed(p)' = Listed(p)
  BY <1>1, <1>2, <1>3, <1>4, Zenon DEF Open, Fresh, Present, Listed
<1>6. SnapshotInv'
  BY <1>1, <1>4, <1>5, Zenon DEF SnapshotInv
<1>7. \A p : Snapped(p)' <=> Snapped(p)
  <2>1. \A p : ~TodoHas(p) /\ ~TodoHas(p)'
    BY <1>1 DEF TodoHas
  <2> QED
    BY <1>2, <1>4, <2>1, Zenon DEF Snapped
<1>8. AgreeInv'
  BY <1>2, <1>3, <1>4, <1>5, <1>7, Zenon DEF BookInv, AgreeInv
<1> QED
  BY <1>6, <1>8, Zenon DEF BookInv


(* Polling hands the first event of the queue to its handler.                 *)
LEMMA PollAgrees ==
    ASSUME Types, BookInv, PollEvent
    PROVE  BookInv'
<1> DEFINE e == Head(events)
<1>0. /\ events \in Seq(Told) /\ events # <<>> /\ events' = Tail(events) /\ e \in Told
      /\ UNCHANGED <<roster, todo, worker, inbox, missed, edited>>
  BY TakesEvent, Zenon DEF Types, QueueTypes, PollEvent, storeVars, workerVars, history
<1>1. /\ HasBegin(events) <=> e.kind = "begin" \/ HasBegin(events')
      /\ \A p : HasContact(events, p) <=>
           \/ HasContact(events', p)
           \/ ~HasBegin(events) /\ e.kind = "contact" /\ e.peer = p
      /\ HasEnd(events) <=> HasEnd(events') \/ (~HasBegin(events) /\ e.kind = "end")
      /\ EndIsLast(events')
      /\ ~HasBegin(events) /\ e.kind = "end" =>
           ~HasEnd(events') /\ \A p : ~HasContact(events', p)
  BY <1>0, Polled, ZenonT(30) DEF BookInv, SnapshotInv
<1> HIDE DEF e
<1>2. /\ Present' = Present /\ (Fresh' <=> Fresh) /\ \A p : TodoHas(p)' <=> TodoHas(p)
  BY <1>0, Zenon DEF Present, Fresh, TodoHas
<1>3. SnapshotInv /\ AgreeInv /\ AdapterTypes
  BY Zenon DEF BookInv, Types
<1>4. CASE e.kind \notin {"begin", "contact", "end"}
  <2>1. UNCHANGED <<syncing, marked, buddies>>
    BY <1>4, ZenonT(30) DEF PollEvent, HandleBegin, HandleContact, HandleAvatar, HandleEnd,
       HandleIdentity, HandleAccepted, listVars, e
  <2>2. /\ HasBegin(events') <=> HasBegin(events)
        /\ \A p : HasContact(events', p) <=> HasContact(events, p)
        /\ HasEnd(events') <=> HasEnd(events)
    BY <1>1, <1>4, Zenon
  <2>3. (Open' <=> Open) /\ \A p : (Snapped(p)' <=> Snapped(p)) /\ Listed(p)' = Listed(p)
    BY <1>2, <2>1, <2>2, Zenon DEF Open, Snapped, Listed
  <2>4. SnapshotInv'
    BY <1>0, <1>1, <1>3, <2>2, <2>3 DEF SnapshotInv
  <2>5. AgreeInv'
    BY <1>0, <1>2, <1>3, <2>1, <2>2, <2>3, Zenon DEF AgreeInv, Agrees
  <2> QED
    BY <2>4, <2>5, Zenon DEF BookInv
<1>5. CASE e.kind = "begin"
  <2>1. syncing' = TRUE /\ marked' = {}
    BY <1>5, ZenonT(30) DEF PollEvent, HandleBegin, HandleContact, HandleAvatar, HandleEnd,
       HandleIdentity, HandleAccepted, e
  <2>2. /\ HasBegin(events)
        /\ \A p : HasContact(events', p) <=> HasContact(events, p)
        /\ HasEnd(events') <=> HasEnd(events)
    BY <1>1, <1>5, Zenon
  <2>3. Open /\ Open' /\ \A p : Snapped(p)' <=> Snapped(p)
    BY <1>2, <2>1, <2>2, Zenon DEF Open, Snapped
  <2>4. SnapshotInv'
    BY <1>0, <1>1, <1>3, <2>2, <2>3, Zenon DEF SnapshotInv
  <2>5. AgreeInv'
    BY <1>2, <1>3, <2>1, <2>3, Zenon DEF AgreeInv
  <2> QED
    BY <2>4, <2>5, Zenon DEF BookInv
<1>6. CASE e.kind = "contact"
  <2>1. HandleContact(e)
    BY <1>6, ZenonT(30) DEF PollEvent, HandleBegin, HandleAvatar, HandleEnd, HandleIdentity,
       HandleAccepted, e
  <2>2. e.peer \in Peers /\ AddContact(e.peer) /\ UNCHANGED syncing
    BY <1>0, <2>1, Zenon DEF Told, HandleContact
  <2>3. marked' = IF syncing THEN marked \union {e.peer} ELSE marked
    BY <2>1, Zenon DEF HandleContact, Marks
  <2>4. /\ HasBegin(events') <=> HasBegin(events)
        /\ HasEnd(events') <=> HasEnd(events)
    BY <1>1, <1>6, Zenon
  <2>5. Open /\ Open' /\ (~HasBegin(events) => syncing)
    <3>1. ASSUME ~HasBegin(events), ~syncing
          PROVE FALSE
      <4>1. HasContact(events, e.peer) /\ ~Open
        BY <1>1, <1>6, <3>1, Zenon DEF Open
      <4> QED
        BY <1>3, <4>1, Zenon DEF SnapshotInv
    <3> QED
      BY <2>2, <2>4, <3>1, Zenon DEF Open
  <2>6. \A p : Snapped(p)' <=> Snapped(p)
    BY <1>1, <1>2, <1>6, <2>3, <2>4, <2>5 DEF Snapped
  <2>7. SnapshotInv'
    BY <1>0, <1>1, <1>3, <2>4, <2>5, Zenon DEF SnapshotInv
  <2>8. ASSUME Fresh, syncing, ~HasBegin(events), NEW p \in marked' \ edited
        PROVE Listed(p)' # {}
    <3>1. /\ buddies' \subseteq Buddies /\ buddies \subseteq Buddies
          /\ \E b \in buddies' : b.peer = e.peer
          /\ \A b \in Buddies : b.peer # e.peer => (b \in buddies' <=> b \in buddies)
      BY <1>3, <2>2, Added, ZenonT(30) DEF AdapterTypes
    <3>2. CASE p = e.peer
      BY <3>1, <3>2, Zenon DEF Listed
    <3>3. CASE p # e.peer
      <4>1. p \in marked \ edited
        BY <2>3, <2>8, <3>3, Zenon
      <4>2. Listed(p) # {}
        BY <1>3, <2>8, <4>1, Zenon DEF AgreeInv
      <4> QED
        BY <3>1, <3>3, <4>2, Zenon DEF Listed
    <3> QED
      BY <3>2, <3>3, Zenon
  <2>9. AgreeInv'
    BY <1>0, <1>2, <1>3, <2>2, <2>4, <2>5, <2>6, <2>8 DEF AgreeInv
  <2> QED
    BY <2>7, <2>9, Zenon DEF BookInv
<1>7. CASE e.kind = "end"
  <2>1. /\ buddies' = IF syncing THEN {b \in buddies : b.managed => b.peer \in marked}
                                 ELSE buddies
        /\ syncing' = FALSE /\ marked' = {}
    BY <1>7, ZenonT(30) DEF PollEvent, HandleBegin, HandleContact, HandleAvatar, HandleEnd,
       HandleIdentity, HandleAccepted, e
  <2>2. /\ HasBegin(events') <=> HasBegin(events)
        /\ \A p : HasContact(events', p) <=> HasContact(events, p)
    BY <1>1, <1>7, Zenon
  <2>3. CASE HasBegin(events)
    <3>1. Open /\ Open' /\ (HasEnd(events') <=> HasEnd(events))
      BY <1>1, <2>2, <2>3, Zenon DEF Open
    <3>2. \A p : Snapped(p)' <=> Snapped(p)
      BY <1>2, <2>2, <2>3, Zenon DEF Snapped
    <3>3. SnapshotInv'
      BY <1>0, <1>1, <1>3, <3>1 DEF SnapshotInv
    <3>4. AgreeInv'
      BY <1>2, <1>3, <2>1, <3>1, <3>2, Zenon DEF AgreeInv
    <3> QED
      BY <3>3, <3>4, Zenon DEF BookInv
  <2>4. CASE ~HasBegin(events)
    <3>1. HasEnd(events) /\ todo = NoSnapshot /\ Open /\ syncing /\ ~Open'
      BY <1>1, <1>3, <1>7, <2>1, <2>2, <2>4, Zenon DEF SnapshotInv, Open
    <3>2. \A p : ~HasContact(events', p) /\ ~HasContact(events, p)
      BY <1>1, <1>7, <2>2, <2>4, Zenon
    <3>3. ~HasEnd(events')
      BY <1>1, <1>7, <2>4
    <3>4. SnapshotInv'
      BY <1>0, <1>1, <3>1, <3>2, <3>3, Zenon DEF SnapshotInv
    <3>5. ASSUME Fresh, NEW p \in Peers \ edited
          PROVE Agrees(p)'
      <4>1. p \in Present <=> p \in marked
        BY <1>3, <2>4, <3>1, <3>2, <3>5, Zenon DEF AgreeInv, Snapped, TodoHas
      <4>2. buddies' = {b \in buddies : b.managed => b.peer \in marked}
        BY <2>1, <3>1, Zenon
      <4>3. p \in marked => Listed(p) # {}
        BY <1>3, <2>4, <3>1, <3>5, Zenon DEF AgreeInv
      <4> QED
        BY <1>2, <4>1, <4>2, <4>3, Zenon DEF Agrees, Listed
    <3>6. AgreeInv'
      BY <1>0, <1>2, <2>1, <3>1, <3>5 DEF AgreeInv
    <3> QED
      BY <3>4, <3>6, Zenon DEF BookInv
  <2> QED
    BY <2>3, <2>4, Zenon
<1> QED
  BY <1>4, <1>5, <1>6, <1>7


(* Every other step leaves the snapshot alone.  A change of the store, a lost *)
(* stream and a failed read make it stale; the user changes one contact.      *)
LEMMA OtherSteps ==
    ASSUME Types, SnapshotInv, [Next]_vars, ~NextSession, ~PollEvent,
           ~BeginSnapshot, ~EmitContact, ~EndSnapshot
    PROVE  /\ UNCHANGED <<todo, syncing, marked>>
           /\ todo # NoSnapshot => worker' \in {"snapshot", "active"}
           /\ Fresh' => Fresh /\ UNCHANGED roster
           /\ UNCHANGED <<buddies, edited>> \/ \E p \in Peers : UserEdits(p)
<1> USE DEF workerVars, storeVars, listVars, history
<1>0. (todo # NoSnapshot => worker \in {"snapshot", "active"}) /\ inbox \in Nat
  BY Zenon DEF SnapshotInv, Types, WorkerTypes
<1>1. CASE UNCHANGED vars \/ PrepareStep \/ EmitAvatar
  BY <1>0, <1>1 DEF vars, PrepareStep, EmitAvatar, Fresh
<1>2. CASE SnapshotFails
  <2>1. todo = NoSnapshot
    BY <1>2, Zenon DEF SnapshotFails, ReadsContacts
  <2> QED
    BY <1>2, <2>1, Zenon DEF SnapshotFails, Fresh
<1>3. CASE BecomeActive
  BY <1>0, <1>3, Zenon DEF BecomeActive, Fresh
<1>4. CASE EmitNotices \/ Commanded
  BY <1>0, <1>4 DEF EmitNotices, Commanded, HandleAccept, HandleDismiss, Fresh
<1>5. CASE QueueEmpty \/ Requesting \/ Fetching
  BY <1>0, <1>5 DEF QueueEmpty, Requesting, RequestSucceeds, RequestFails,
     RequestAgain, Fetching, FetchNext, FetchPrepares, Fresh
<1>6. CASE Reconnect \/ LoseStream
  BY <1>0, <1>6, Zenon DEF Reconnect, LoseStream, Idle, Fresh
<1>7. CASE StoreContacts
  BY <1>0, <1>7 DEF StoreContacts, Fresh
<1>8. ASSUME NEW p \in Peers, IdentityChanges(p) \/ Verify(p) \/ UserAccepts(p)
      PROVE UNCHANGED <<workerVars, roster, listVars, history>>
  BY <1>8, Zenon DEF IdentityChanges, Verify, UserAccepts
<1>9. ASSUME NEW p \in Peers, UserEdits(p)
      PROVE UNCHANGED <<workerVars, roster, syncing, marked, missed>>
  BY <1>9, Zenon DEF UserEdits
<1> QED
  BY <1>0, <1>1, <1>2, <1>3, <1>4, <1>5, <1>6, <1>7, <1>8, <1>9, ZenonT(30)
     DEF Next, Outside, Snapshot, Drawing, Fresh

(* So it keeps the agreement, but for the contact the user changed.           *)
LEMMA OthersAgree ==
    ASSUME Types, BookInv, [Next]_vars, ~NextSession, ~PollEvent,
           ~BeginSnapshot, ~EmitContact, ~EndSnapshot
    PROVE  BookInv'
<1>0. SnapshotInv /\ AgreeInv /\ events \in Seq(Told)
  BY Zenon DEF BookInv, Types, QueueTypes
<1>1. /\ HasBegin(events') <=> HasBegin(events)
      /\ \A p : HasContact(events', p) <=> HasContact(events, p)
      /\ HasEnd(events') <=> HasEnd(events)
      /\ EndIsLast(events')
  <2>1. CASE UNCHANGED events
    BY <1>0, <2>1, Zenon DEF SnapshotInv
  <2>2. ASSUME NEW q \in Seq(Told), Quiet(q), events' = events \o q
        PROVE  /\ HasBegin(events') <=> HasBegin(events)
               /\ \A p : HasContact(events', p) <=> HasContact(events, p)
               /\ HasEnd(events') <=> HasEnd(events)
               /\ EndIsLast(events')
    BY <1>0, <2>2, QuietQueued, Zenon DEF SnapshotInv
  <2> QED
    BY <2>1, <2>2, EventSteps, Zenon
<1>2. /\ UNCHANGED <<todo, syncing, marked>>
      /\ todo # NoSnapshot => worker' \in {"snapshot", "active"}
      /\ Fresh' => Fresh /\ UNCHANGED roster
      /\ UNCHANGED <<buddies, edited>> \/ \E p \in Peers : UserEdits(p)
  BY <1>0, OtherSteps, Zenon
<1>3. (Open' <=> Open) /\ \A p : Snapped(p)' <=> Snapped(p)
  BY <1>1, <1>2, Zenon DEF Open, Snapped, TodoHas
<1>4. SnapshotInv'
  BY <1>0, <1>1, <1>2, <1>3, Zenon DEF SnapshotInv
<1>5. \A p \in Peers : p \notin edited' => p \notin edited /\ Listed(p)' = Listed(p)
  <2>1. CASE UNCHANGED <<buddies, edited>>
    BY <2>1, Zenon DEF Listed
  <2>2. ASSUME NEW r \in Peers, UserEdits(r)
        PROVE \A p \in Peers : p \notin edited' => p \notin edited /\ Listed(p)' = Listed(p)
    <3>1. edited' = edited \union {r}
      BY <2>2, Zenon DEF UserEdits
    <3>2. /\ buddies \subseteq Buddies /\ buddies' \subseteq Buddies
          /\ \A b \in Buddies : b.peer # r => (b \in buddies' <=> b \in buddies)
      BY <2>2, Edited, Zenon DEF Types, AdapterTypes
    <3> QED
      BY <3>1, <3>2, Zenon DEF Listed
  <2> QED
    BY <1>2, <2>1, <2>2, Zenon
<1>6. AgreeInv'
  <2> SUFFICES ASSUME Fresh'
               PROVE  /\ Open' => \A p \in Peers : Snapped(p)' <=> p \in Present'
                      /\ syncing' /\ ~HasBegin(events') =>
                           \A p \in marked' \ edited' : Listed(p)' # {}
                      /\ ~Open' => \A p \in Peers \ edited' : Agrees(p)'
    BY Zenon DEF AgreeInv
  <2>1. Fresh /\ Present' = Present /\ marked' = marked /\ marked \subseteq Peers
    BY <1>2, Zenon DEF Present, Types, AdapterTypes
  <2>2. Open' => \A p \in Peers : Snapped(p)' <=> p \in Present'
    BY <1>0, <1>3, <2>1, Zenon DEF AgreeInv
  <2>3. syncing' /\ ~HasBegin(events') => \A p \in marked' \ edited' : Listed(p)' # {}
    BY <1>0, <1>1, <1>2, <1>5, <2>1, Zenon DEF AgreeInv
  <2>4. ~Open' => \A p \in Peers \ edited' : Agrees(p)'
    BY <1>0, <1>3, <1>5, <2>1, Zenon DEF AgreeInv, Agrees
  <2> QED
    BY <2>2, <2>3, <2>4, Zenon
<1> QED
  BY <1>4, <1>6, Zenon DEF BookInv

(* Every step keeps the agreement.                                            *)
LEMMA BookStep == Types /\ BookInv /\ [Next]_vars => BookInv'
<1> SUFFICES ASSUME Types, BookInv, [Next]_vars
             PROVE BookInv'
  BY Zenon
<1>1. CASE NextSession
  <2>1. /\ events' = <<>> /\ todo' = NoSnapshot /\ syncing' = FALSE
        /\ worker' = "snapshot"
    BY <1>1, Zenon DEF NextSession
  <2>2. DOMAIN events' = {}
    BY <2>1
  <2>3. /\ ~HasBegin(events') /\ ~HasEnd(events') /\ EndIsLast(events')
        /\ \A p : ~HasContact(events', p)
    BY <2>2, Zenon DEF HasBegin, HasEnd, EndIsLast, HasContact
  <2> QED
    BY <2>1, <2>3, ZenonT(30) DEF BookInv, SnapshotInv, AgreeInv, Open, Fresh
<1> QED
  BY <1>1, BeginAgrees, ContactAgrees, EndAgrees, PollAgrees, OthersAgree, Zenon

(* The buddy list agrees with the stored contacts whenever the queues between *)
(* them are empty, for any contacts, any capacities and any number of lists,  *)
(* lost streams, sessions cut short and edits of the user: the snapshots of   *)
(* emit_contact_snapshot and the sweep of signal_end_contact_sync compose.    *)
THEOREM BuddyListAgrees == Spec => []BuddiesAgree
<1>1. Init => Types /\ BookInv
  <2> SUFFICES ASSUME Init
               PROVE BookInv
    BY TypesInitially, Zenon
  <2>1. /\ events = <<>> /\ todo = NoSnapshot /\ syncing = FALSE /\ worker = "snapshot"
    BY Zenon DEF Init
  <2>2. DOMAIN events = {}
    BY <2>1
  <2>3. /\ ~HasBegin(events) /\ ~HasEnd(events) /\ EndIsLast(events)
        /\ \A p : ~HasContact(events, p)
    BY <2>2, Zenon DEF HasBegin, HasEnd, EndIsLast, HasContact
  <2> QED
    BY <2>1, <2>3, Zenon DEF BookInv, SnapshotInv, AgreeInv, Open, Fresh
<1>2. Types /\ BookInv /\ [Next]_vars => (Types /\ BookInv)'
  BY TypesStep, BookStep, Zenon
<1>3. BookInv => BuddiesAgree
  <2> SUFFICES ASSUME BookInv, AtRest, ~missed
               PROVE \A p \in Peers \ edited : Agrees(p)
    BY Zenon DEF BuddiesAgree, Agrees
  <2>1. worker = "active" /\ todo = NoSnapshot /\ inbox = 0 /\ events = <<>>
    BY Zenon DEF AtRest, Idle
  <2>2. ~HasEnd(events)
    BY <2>1 DEF HasEnd
  <2>3. ~Open /\ Fresh
    BY <2>1, <2>2, Zenon DEF BookInv, SnapshotInv, Fresh
  <2> QED
    BY <2>3, Zenon DEF BookInv, AgreeInv
<1> QED
  BY <1>1, <1>2, <1>3, PTL DEF Spec

=============================================================================
