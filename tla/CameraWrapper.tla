---------------------------- MODULE CameraWrapper ----------------------------
(***************************************************************************)
(* The wrapper of the vendor's camera module (CameraWrapper.cpp): opening  *)
(* and closing devices with every way in which an open can fail, the calls *)
(* passed on to the vendor, and the texts of parameters, which the wrapper *)
(* keeps for the vendor in fixed_set_params, one array for all cameras.    *)
(* What the two fixups change in a text is in CameraParameters.            *)
(***************************************************************************)
EXTENDS Naturals, FiniteSets

CONSTANTS NumCameras, \* get_number_of_cameras of the vendor
          MaxTexts    \* texts of parameters made

ASSUME WrapperAssumption == NumCameras \in Nat \ {0} /\ MaxTexts \in Nat

VARIABLES
    fixed_set_params, \* the array: a text or 0 for every camera, <<>> for a null pointer
    wTexts, wFreed,   \* texts made so far, numbered, and those freed
    wVendorText,      \* the text the vendor was given last, for each camera
    wSetting,         \* the cameras in camera_set_parameters, before the vendor is called
    wClosing,         \* the camera in camera_device_close, before the vendor is called
    wDevices,         \* the open devices of the wrapper
    wVendor,          \* the open devices of the vendor
    wLeft,            \* the vendor's devices that a failed open has left open
    wShared,          \* an open came while another device was open
    wFaults           \* memory freed twice, or a null array used

wVars == <<fixed_set_params, wTexts, wFreed, wVendorText, wSetting, wClosing, wDevices, wVendor,
           wLeft, wShared, wFaults>>
wTextVars == <<wTexts, wFreed, wVendorText, wFaults>>

CameraIds == 0 .. NumCameras - 1

CameraWrapperInit ==
    /\ fixed_set_params = <<>>
    /\ wTexts = 0 /\ wFreed = {} /\ wVendorText = [c \in CameraIds |-> 0]
    /\ wSetting = {} /\ wClosing = {} /\ wDevices = {} /\ wVendor = {} /\ wLeft = {}
    /\ wShared = FALSE /\ wFaults = {}

-----------------------------------------------------------------------------
(* Mutant: an array that was allocated for an earlier open is used again. *)
ArrayReused == IF fixed_set_params = <<>> THEN [c \in CameraIds |-> 0] ELSE fixed_set_params

ParamsArray == [c \in CameraIds |-> 0]

(* camera_device_open: the array is replaced before the id is looked at;   *)
(* an id one past the last one is left to the vendor, who refuses it.  It  *)
(* has gCameraWrapperLock, as close has.                                   *)
OpenOutcomes == {"no module", "no array", "no device", "vendor fails", "no ops", "open"}

camera_device_open(id, outcome) ==
    /\ id \notin wDevices /\ wClosing = {}
    /\ outcome \in {"no ops", "open"} => id \in CameraIds
    /\ id > NumCameras => outcome \in {"no module", "no array", "vendor fails"}
    /\ wShared' = (wShared \/ wDevices # {})
    /\ fixed_set_params' = CASE outcome = "no module" -> fixed_set_params
                             [] outcome = "no array" -> <<>>
                             [] OTHER -> ParamsArray
    /\ wVendor' = IF outcome \in {"no ops", "open"} THEN wVendor \cup {id} ELSE wVendor
    /\ wLeft' = IF outcome = "no ops" THEN wLeft \cup {id} ELSE wLeft
    /\ wDevices' = IF outcome = "open" THEN wDevices \cup {id} ELSE wDevices
    /\ UNCHANGED <<wTextVars, wSetting, wClosing>>

(* free of the given texts: one that is freed already is a fault.          *)
FreeTexts(ts) ==
    /\ wFreed' = wFreed \cup (ts \ {0})
    /\ wFaults' = IF ts \cap wFreed # {} THEN wFaults \cup {"double free"} ELSE wFaults

Kept(ids) == {fixed_set_params[c] : c \in ids}

(* Mutant: the vendor's device stays open. *)
VendorKept(id) == wVendor

VendorClosed(id) == wVendor \ {id}

(* camera_device_close frees the texts of every camera, the one that the   *)
(* vendor's device still has included ...                                  *)
camera_device_close(id) ==
    /\ id \in wDevices \ wSetting /\ wClosing = {}
    /\ wClosing' = {id}
    /\ IF fixed_set_params = <<>> THEN UNCHANGED wFreed /\ wFaults' = wFaults \cup {"null"}
       ELSE FreeTexts(Kept(CameraIds))
    /\ UNCHANGED <<fixed_set_params, wTexts, wVendorText, wSetting, wDevices, wVendor, wLeft, wShared>>

(* ... and then closes the vendor's device and frees its own.  The lock is *)
(* held between the two; the calls of other devices do not take it.        *)
camera_vendor_close(id) ==
    /\ id \in wClosing
    /\ wClosing' = {}
    /\ wVendor' = VendorClosed(id) /\ wLeft' = wLeft \ {id} /\ wDevices' = wDevices \ {id}
    /\ wVendorText' = [wVendorText EXCEPT ![id] = 0]
    /\ UNCHANGED <<fixed_set_params, wTexts, wFreed, wFaults, wSetting, wShared>>

-----------------------------------------------------------------------------
(* camera_fixup_setparams: the text of the last call is freed and the new  *)
(* one is kept, because the vendor may go on reading it.                   *)
camera_fixup_setparams(id) ==
    /\ id \in wDevices \ (wSetting \cup wClosing) /\ wTexts < MaxTexts
    /\ wSetting' = wSetting \cup {id} /\ wTexts' = wTexts + 1
    /\ IF fixed_set_params = <<>>
       THEN wFaults' = wFaults \cup {"null"} /\ UNCHANGED <<wFreed, fixed_set_params>>
       ELSE FreeTexts(Kept({id})) /\ fixed_set_params' = [fixed_set_params EXCEPT ![id] = wTexts + 1]
    /\ UNCHANGED <<wVendorText, wClosing, wDevices, wVendor, wLeft, wShared>>

(* Mutant: the text is freed when the vendor has been called. *)
FreeAfterCall(id) == FreeTexts({fixed_set_params[id]})

KeepAfterCall(id) == UNCHANGED <<wFreed, wFaults>>

(* The rest of camera_set_parameters: the vendor gets the text.            *)
camera_set_parameters(id) ==
    /\ id \in wSetting
    /\ wSetting' = wSetting \ {id}
    /\ wVendorText' = [wVendorText EXCEPT ![id] = IF fixed_set_params = <<>> THEN 0 ELSE fixed_set_params[id]]
    /\ KeepAfterCall(id)
    /\ UNCHANGED <<fixed_set_params, wTexts, wClosing, wDevices, wVendor, wLeft, wShared>>

(* A call that would crash ends the process. *)
CameraWrapperNext ==
    /\ wFaults = {}
    /\ \/ \E id \in 0 .. NumCameras + 1, outcome \in OpenOutcomes : camera_device_open(id, outcome)
       \/ \E id \in CameraIds :
             \/ camera_device_close(id) \/ camera_vendor_close(id)
             \/ camera_fixup_setparams(id) \/ camera_set_parameters(id)

CameraWrapperSpec == CameraWrapperInit /\ [][CameraWrapperNext]_wVars

-----------------------------------------------------------------------------
(* No text is freed twice and the null array of a failed open is never     *)
(* used, over any number of opens, failed opens, settings and closes, as   *)
(* long as no open comes while another camera is open: closing one camera  *)
(* frees the texts of all, and opening one forgets those of the others.    *)
TextsAreFreedOnce == ~wShared => wFaults = {}

(* The text the vendor was given last is not freed while the device is     *)
(* open: this is what fixed_set_params is for.  There are two moments in   *)
(* which it is: while the next one is given, and while the device closes,  *)
(* where the wrapper frees the texts before it closes the vendor's device, *)
(* which is open with a freed text until then.                             *)
VendorTextIsAlive ==
    ~wShared => \A id \in wDevices \ (wSetting \cup wClosing) : wVendorText[id] \notin wFreed

(* The vendor's devices are open when the wrapper's are; the exception is  *)
(* the device that an open out of memory for its operations leaves open.   *)
VendorFollowsWrapper == wVendor \ wLeft = wDevices \ wLeft /\ wDevices \subseteq wVendor

(* The vendor's devices live as long as the wrapper's, and the texts they  *)
(* read until the next text or the close.                                  *)
VendorIsServed == TextsAreFreedOnce /\ VendorTextIsAlive /\ VendorFollowsWrapper
=============================================================================
