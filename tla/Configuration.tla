----------------------------- MODULE Configuration -----------------------------
(***************************************************************************)
(* Reading the configuration file (src/atmoanalyzer/config.cpp).           *)
(*                                                                         *)
(* A YAML node is a record of the keys the file has, a list is a sequence. *)
(* A scalar that cannot be converted to the type its reader asks for is    *)
(* Unreadable.  Each reader is given as the condition under which it       *)
(* returns, otherwise it throws, and as what it returns.                   *)
(***************************************************************************)
EXTENDS Integers, Sequences

CONSTANT Unreadable

Side == {"top", "bottom", "left", "right"}

readOptional(node, key, default) == IF key \in DOMAIN node THEN node[key] ELSE default

(* readRequired() and readOptional() of the given keys return.              *)
Readable(node, required, optional) ==
  /\ required \subseteq DOMAIN node
  /\ \A key \in (required \cup optional) \cap DOMAIN node : node[key] # Unreadable

-------------------------------------------------------------------------------
(* ChannelConfig's own defaults stand for a side that is left out; a side   *)
(* that is there has no channels unless it says so.                         *)
readChannelConfig(capture, side) ==
  IF side \in DOMAIN capture
  THEN [count |-> readOptional(capture[side], "count", 0),
        depth |-> readOptional(capture[side], "depth", 20),
        crop  |-> readOptional(capture[side], "crop", 0)]
  ELSE [count |-> 1, depth |-> 20, crop |-> 0]

(* "Either filename or device index has to be specified" is not enforced.   *)
CaptureReadable(node) ==
  /\ Readable(node, {"type"}, {"filename", "index"})
  /\ node.type = "opencv"
  /\ \A s \in Side \cap DOMAIN node : Readable(node[s], {}, {"count", "depth", "crop"})

readMappings(mappings, side) == readOptional(mappings, side, <<>>)

MappingsReadable(node) ==
  \A s \in Side : \A i \in DOMAIN readMappings(node, s) :
    Readable(readMappings(node, s)[i], {"device_index", "device_channel"}, {})

AnalyzerReadable(node) ==
  /\ {"capture", "mappings"} \subseteq DOMAIN node
  /\ CaptureReadable(node.capture)
  /\ MappingsReadable(node.mappings)

readAnalyzerConfig(node) ==
  [capture  |-> [s \in Side |-> readChannelConfig(node.capture, s)],
   mappings |-> [s \in Side |-> readMappings(node.mappings, s)]]

-------------------------------------------------------------------------------
DeviceReadable(node) ==
  /\ Readable(node, {"name", "type", "filename"}, {"channels", "reset_on_error"})
  /\ node.type \in {"atmolight", "karatelight", "dotstar"}

readDevice(node) ==
  [type           |-> node.type,
   channels       |-> readOptional(node, "channels", 0),
   reset_on_error |-> readOptional(node, "reset_on_error", FALSE)]

(* The constructor of Configuration returns.                                *)
FileReadable(file) ==
  /\ "devices" \in DOMAIN file
  /\ \A i \in DOMAIN file.devices : DeviceReadable(file.devices[i])
  /\ "control" \in DOMAIN file => Readable(file.control, {"address", "port"}, {})
  /\ "analyzer" \in DOMAIN file => AnalyzerReadable(file.analyzer)

(* What the application asks of it: the devices and which of the optional   *)
(* sections there are.                                                      *)
Configured(file) ==
  [devices  |-> [i \in DOMAIN file.devices |-> readDevice(file.devices[i])],
   control  |-> "control" \in DOMAIN file,
   analyzer |-> "analyzer" \in DOMAIN file]

===============================================================================
