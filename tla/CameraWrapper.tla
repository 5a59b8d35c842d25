----------------------------- MODULE CameraWrapper -----------------------------
(***************************************************************************)
(* The wrapper around the vendor's camera module (camera/CameraWrapper.cpp):*)
(* open and close of its devices, the parameter strings and the callbacks,  *)
(* which all cameras share.                                                *)
(*                                                                         *)
(* The camera service opens a camera once at a time, as the comment above   *)
(* camera_device_open assumes, and calls a device only while it is open.    *)
(* The vendor module is there; copies of strings succeed.                  *)
(***************************************************************************)
EXTENDS Naturals, FiniteSets

CONSTANTS Cameras,  \* the vendor's cameras
          Blocks,   \* addresses of parameter strings
          NoBlock   \* the NULL pointer

VARIABLES device,     \* wrapper: "closed", "open", or "released" (camera_released)
          vendor,     \* vendor's device: "closed", "idle", "running", "released"
          callbacks,  \* cameras whose vendor device was given callbacks
          user,       \* the camera whose user gUserCameraDevice is
          params,     \* fixed_set_params: NoBlock, or for each camera a block or NoBlock
          passing,    \* the block on its way to the vendor's set_parameters
          held,       \* the string given to the user by get_parameters
          live,       \* blocks that are allocated
          astray,     \* a callback of a camera has reached another's user (history)
          misused,    \* a block was freed or used that is not allocated (history)
          seen        \* circumstances (history)
cameraVars == <<device, vendor, callbacks, user, params, passing, held, live, astray, misused, seen>>
memory == <<params, passing, held, live, misused>>

CameraInit ==
  /\ device = [c \in Cameras |-> "closed"] /\ vendor = [c \in Cameras |-> "closed"]
  /\ callbacks = {} /\ user = NoBlock /\ astray = FALSE
  /\ params = NoBlock /\ live = {} /\ misused = FALSE
  /\ passing = [c \in Cameras |-> NoBlock] /\ held = [c \in Cameras |-> NoBlock]
  /\ seen = {}

Results == {"no array", "no device", "vendor fails", "no ops", "done"}
Noted(c, r) == seen \union (IF \E d \in Cameras : device[d] # "closed" THEN {"together"} ELSE {})
                    \union (IF r = "no ops" THEN {"leaked"} ELSE {})

\* Faulty variant: the array is made by the first open only.
OpenOnce(c, r) ==
  /\ device[c] = "closed"
  /\ r \in {"no ops", "done"} => vendor[c] = "closed"
  /\ params' = IF params # NoBlock THEN params ELSE IF r = "no array" THEN NoBlock ELSE [d \in Cameras |-> NoBlock]
  /\ vendor' = IF r \in {"no ops", "done"} THEN [vendor EXCEPT ![c] = "idle"] ELSE vendor
  /\ device' = IF r = "done" THEN [device EXCEPT ![c] = "open"] ELSE device
  /\ seen' = Noted(c, r)
  /\ UNCHANGED <<callbacks, user, passing, held, live, astray, misused>>

\* Every open makes a new array; a failure frees the wrapper's device, but
\* does not close the vendor's.
Open(c, r) ==
  /\ device[c] = "closed"
  /\ r \in {"no ops", "done"} => vendor[c] = "closed"
  /\ params' = IF r = "no array" THEN NoBlock ELSE [d \in Cameras |-> NoBlock]
  /\ vendor' = IF r \in {"no ops", "done"} THEN [vendor EXCEPT ![c] = "idle"] ELSE vendor
  /\ device' = IF r = "done" THEN [device EXCEPT ![c] = "open"] ELSE device
  /\ seen' = Noted(c, r)
  /\ UNCHANGED <<callbacks, user, passing, held, live, astray, misused>>

Called(c) == device[c] # "closed" /\ passing[c] = NoBlock

\* The strings of all cameras are freed, and stay in the array.
Close(c) ==
  /\ Called(c)
  /\ LET freed == IF params = NoBlock THEN {} ELSE {params[d] : d \in Cameras} \ {NoBlock} IN
     /\ live' = live \ freed
     /\ misused' = (misused \/ params = NoBlock \/ ~(freed \subseteq live))
  /\ vendor' = [vendor EXCEPT ![c] = "closed"] /\ device' = [device EXCEPT ![c] = "closed"]
  /\ callbacks' = callbacks \ {c}
  /\ UNCHANGED <<user, params, passing, held, astray, seen>>

Release(c) ==
  /\ Called(c)
  /\ vendor' = [vendor EXCEPT ![c] = "released"] /\ device' = [device EXCEPT ![c] = "released"]
  /\ UNCHANGED <<callbacks, user, memory, astray, seen>>

SetCallbacks(c) ==
  /\ Called(c)
  /\ user' = c /\ callbacks' = callbacks \union {c}
  /\ UNCHANGED <<device, vendor, memory, astray, seen>>

\* camera_fixup_setparams, and then the vendor's set_parameters.
SetParameters(c) ==
  /\ Called(c)
  /\ \E b \in Blocks :
       LET old == IF params = NoBlock THEN NoBlock ELSE params[c]
           kept == live \ {old}
       IN /\ b \notin kept
          /\ live' = kept \union {b} /\ passing' = [passing EXCEPT ![c] = b]
          /\ misused' = (misused \/ params = NoBlock \/ (old # NoBlock /\ old \notin live))
          /\ params' = IF params = NoBlock THEN NoBlock ELSE [params EXCEPT ![c] = b]
  /\ UNCHANGED <<device, vendor, callbacks, user, held, astray, seen>>
PassParameters(c) ==
  /\ passing[c] # NoBlock
  /\ misused' = (misused \/ passing[c] \notin live)
  /\ passing' = [passing EXCEPT ![c] = NoBlock]
  /\ UNCHANGED <<device, vendor, callbacks, user, params, held, live, astray, seen>>

\* The vendor's string is copied and put back; the user puts back the copy.
GetParameters(c) ==
  /\ Called(c) /\ held[c] = NoBlock
  /\ \E b \in Blocks \ live : live' = live \union {b} /\ held' = [held EXCEPT ![c] = b]
  /\ UNCHANGED <<device, vendor, callbacks, user, params, passing, astray, misused, seen>>
PutParameters(c) ==
  /\ held[c] # NoBlock
  /\ live' = live \ {held[c]} /\ misused' = (misused \/ held[c] \notin live)
  /\ held' = [held EXCEPT ![c] = NoBlock]
  /\ UNCHANGED <<device, vendor, callbacks, user, params, passing, astray, seen>>

\* The calls that go to the vendor's device as they are: some start what
\* calls back, some stop it.
Forward(c, state) ==
  /\ Called(c) /\ vendor[c] \in {"idle", "running"} \ {state}
  /\ vendor' = [vendor EXCEPT ![c] = state]
  /\ UNCHANGED <<device, callbacks, user, memory, astray, seen>>

\* camera_notify_cb, camera_data_cb, camera_data_cb_timestamp, camera_get_memory
Callback(c) ==
  /\ vendor[c] = "running" /\ c \in callbacks
  /\ astray' = (astray \/ user # c)
  /\ UNCHANGED <<device, vendor, callbacks, user, memory, seen>>

\* Nothing is said of what follows a misused block.
CameraNext == ~misused /\ \E c \in Cameras :
  \/ \E r \in Results : Open(c, r)
  \/ Close(c) \/ Release(c) \/ SetCallbacks(c) \/ SetParameters(c) \/ PassParameters(c)
  \/ GetParameters(c) \/ PutParameters(c) \/ Callback(c)
  \/ \E state \in {"idle", "running"} : Forward(c, state)
CameraSpec == CameraInit /\ [][CameraNext]_cameraVars
------------------------------------------------------------------------------
(* The wrapper serves a camera as if it were alone, over any sequence of     *)
(* opens that fail half-way and closes: no string is freed twice or used      *)
(* after it, callbacks reach the camera's own user, and the vendor's device   *)
(* is open exactly while the wrapper's is. Two cameras at a time ("together") *)
(* share the array and the callbacks, and an open that runs out of memory for *)
(* its operations leaves the vendor's device open ("leaked").                *)
CameraIsServed ==
  /\ "together" \notin seen => ~misused /\ ~astray
  /\ "leaked" \notin seen => \A c \in Cameras : (vendor[c] = "closed") = (device[c] = "closed")
===============================================================================
