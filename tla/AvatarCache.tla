---------------------------- MODULE AvatarCache ----------------------------
(* AvatarCache::prepare_avatar: a memory cache per account over a directory   *)
(* of files that every account of the process uses.  A prepared image is      *)
(* written to a temporary file, named after the image and the process, and    *)
(* renamed to its place.  The accounts' worker threads interleave between     *)
(* these steps, and the process may die between any two of them.              *)
(*                                                                            *)
(* An image stands for its raw bytes and their hash.  What matters of the     *)
(* bytes cached for it is whether they are the whole prepared image; names    *)
(* are kept apart from files, because writers that share a name share what is *)
(* behind it.                                                                 *)
CONSTANTS
    Accounts,       \* accounts of the process that share the cache directory
    Images,         \* raw avatars
    Undecodable,    \* those that downscale_avatar fails on
    Files,          \* files of the cache directory, whatever their names
    NoFile          \* no file

ASSUME AvatarAssumption ==
    /\ Images # {}
    /\ Undecodable \subseteq Images
    /\ NoFile \notin Files

VARIABLES
    step,       \* where each account's call of prepare_avatar is
    image,      \* image of that call
    handle,     \* file the call has open
    given,      \* what the last call returned: "none", "empty", "part", "whole"
    memory,     \* memory cache: image to "none", "part" or "whole"
    temp,       \* file behind the temporary name of each image
    disk,       \* file behind the cache name of each image
    whole       \* files that hold a whole image

avatarVars == <<step, image, handle, given, memory, temp, disk, whole>>

AvatarInit ==
    /\ step = [a \in Accounts |-> "idle"]
    /\ image = [a \in Accounts |-> CHOOSE i \in Images : TRUE]
    /\ handle = [a \in Accounts |-> NoFile]
    /\ given = [a \in Accounts |-> "none"]
    /\ memory = [a \in Accounts |-> [i \in Images |-> "none"]]
    /\ temp = [i \in Images |-> NoFile]
    /\ disk = [i \in Images |-> NoFile]
    /\ whole = {}

Quality(f) == IF f \in whole THEN "whole" ELSE "part"

Give(a, result) ==
    /\ step' = [step EXCEPT ![a] = "done"]
    /\ given' = [given EXCEPT ![a] = result]

Remember(a, result) ==
    memory' = [memory EXCEPT ![a][image[a]] = result]

(* An avatar that is not empty is looked up in memory first. *)
Prepare(a, i) ==
    /\ step[a] = "idle"
    /\ image' = [image EXCEPT ![a] = i]
    /\ IF memory[a][i] # "none"
         THEN Give(a, memory[a][i])
         ELSE step' = [step EXCEPT ![a] = "lookup"] /\ UNCHANGED given
    /\ UNCHANGED <<handle, memory, temp, disk, whole>>

ReadDisk(a) ==
    /\ step[a] = "lookup"
    /\ disk[image[a]] # NoFile
    /\ Remember(a, Quality(disk[image[a]]))
    /\ Give(a, Quality(disk[image[a]]))
    /\ UNCHANGED <<image, handle, temp, disk, whole>>

(* Nothing usable on disk, or no cache directory: downscale or discard. *)
Downscale(a) ==
    /\ step[a] = "lookup"
    /\ disk[image[a]] = NoFile
    /\ \/ /\ image[a] \in Undecodable
          /\ Give(a, "empty")
       \/ /\ image[a] \notin Undecodable
          /\ step' = [step EXCEPT ![a] = "create"]
          /\ UNCHANGED given
    /\ UNCHANGED <<image, handle, memory, temp, disk, whole>>

Unused(f) ==
    \A i \in Images, a \in Accounts : f \notin {temp[i], disk[i], handle[a]}

(* File::create: the file behind the name, truncated, or a new one. *)
Opens(name, f) == f = name \/ (name = NoFile /\ Unused(f))

(* Mutant: the image is written to its final name. *)
CreateInPlace(a) ==
    /\ step[a] = "create"
    /\ \E f \in Files :
         /\ Opens(disk[image[a]], f)
         /\ disk' = [disk EXCEPT ![image[a]] = f]
         /\ handle' = [handle EXCEPT ![a] = f]
         /\ whole' = whole \ {f}
    /\ step' = [step EXCEPT ![a] = "write"]
    /\ UNCHANGED <<image, given, memory, temp>>

(* fs::write opens the temporary file and truncates it. *)
CreateTemp(a) ==
    /\ step[a] = "create"
    /\ \E f \in Files :
         /\ Opens(temp[image[a]], f)
         /\ temp' = [temp EXCEPT ![image[a]] = f]
         /\ handle' = [handle EXCEPT ![a] = f]
         /\ whole' = whole \ {f}
    /\ step' = [step EXCEPT ![a] = "write"]
    /\ UNCHANGED <<image, given, memory, disk>>

(* The cache file cannot be created or written: the call goes on without it. *)
WriteFails(a) ==
    /\ step[a] \in {"create", "write"}
    /\ step' = [step EXCEPT ![a] = "insert"]
    /\ handle' = [handle EXCEPT ![a] = NoFile]
    /\ UNCHANGED <<image, given, memory, temp, disk, whole>>

WriteTemp(a) ==
    /\ step[a] = "write"
    /\ whole' = whole \union {handle[a]}
    /\ handle' = [handle EXCEPT ![a] = NoFile]
    /\ step' = [step EXCEPT ![a] = "rename"]
    /\ UNCHANGED <<image, given, memory, temp, disk>>

(* The result of rename is ignored. *)
RenameTemp(a) ==
    /\ step[a] = "rename"
    /\ IF temp[image[a]] # NoFile
         THEN /\ disk' = [disk EXCEPT ![image[a]] = temp[image[a]]]
              /\ temp' = [temp EXCEPT ![image[a]] = NoFile]
         ELSE UNCHANGED <<disk, temp>>
    /\ step' = [step EXCEPT ![a] = "insert"]
    /\ UNCHANGED <<image, handle, given, memory, whole>>

InsertMemory(a) ==
    /\ step[a] = "insert"
    /\ Remember(a, "whole")
    /\ Give(a, "whole")
    /\ UNCHANGED <<image, handle, temp, disk, whole>>

Returned(a) ==
    /\ step[a] = "done"
    /\ step' = [step EXCEPT ![a] = "idle"]
    /\ given' = [given EXCEPT ![a] = "none"]
    /\ UNCHANGED <<image, handle, memory, temp, disk, whole>>

(* The next process has another number, so it never meets the temporary      *)
(* files of this one.                                                         *)
ProcessDies ==
    /\ step' = [a \in Accounts |-> "idle"]
    /\ handle' = [a \in Accounts |-> NoFile]
    /\ given' = [a \in Accounts |-> "none"]
    /\ memory' = [a \in Accounts |-> [i \in Images |-> "none"]]
    /\ temp' = [i \in Images |-> NoFile]
    /\ UNCHANGED <<image, disk, whole>>

Work(a) ==
    \/ ReadDisk(a)
    \/ Downscale(a)
    \/ CreateTemp(a)
    \/ WriteFails(a)
    \/ WriteTemp(a)
    \/ RenameTemp(a)
    \/ InsertMemory(a)

(* The cache on its own, called at any time for any avatar. *)
AvatarNext ==
    \/ \E a \in Accounts :
         \/ \E i \in Images : Prepare(a, i)
         \/ Work(a)
         \/ Returned(a)
    \/ ProcessDies

AvatarSpec == AvatarInit /\ [][AvatarNext]_avatarVars

AvatarTypeOK ==
    /\ step \in [Accounts -> {"idle", "lookup", "create", "write", "rename",
                              "insert", "done"}]
    /\ image \in [Accounts -> Images]
    /\ handle \in [Accounts -> Files \union {NoFile}]
    /\ given \in [Accounts -> {"none", "empty", "part", "whole"}]
    /\ memory \in [Accounts -> [Images -> {"none", "part", "whole"}]]
    /\ temp \in [Images -> Files \union {NoFile}]
    /\ disk \in [Images -> Files \union {NoFile}]
    /\ whole \subseteq Files

(* Atomic disk persistence (media.rs:138): whenever the process dies, what    *)
(* the cache holds for an image, in memory or under its name on disk, is the  *)
(* whole prepared image.  With one account in the process this holds; two     *)
(* accounts share the temporary name.                                         *)
CachedIsWhole ==
    /\ \A i \in Images : disk[i] # NoFile => disk[i] \in whole
    /\ \A a \in Accounts, i \in Images : memory[a][i] # "part"
============================================================================
