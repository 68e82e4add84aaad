------------------------------- MODULE MCAnalyzer -------------------------------
(***************************************************************************)
(* Analyzer with two devices of two and one channels, and pictures of four *)
(* rows and five columns, and one of twenty rows and columns on which the  *)
(* default depth has room.                                                 *)
(***************************************************************************)
EXTENDS Analyzer, TLC

MCColor == 0 .. 3
MCNumChannels == 0 :> 2 @@ 1 :> 1

(* A film with black bars above and below, one bright in the upper right    *)
(* corner, and a light that fades.                                          *)
MCPictures ==
  [letterbox |-> <<<<0, 0, 0, 0, 0>>, <<3, 3, 2, 3, 3>>, <<3, 2, 3, 3, 2>>, <<0, 0, 0, 0, 0>>>>,
   corner    |-> <<<<0, 0, 0, 3, 3>>, <<0, 0, 0, 0, 3>>, <<0, 0, 0, 0, 0>>, <<1, 0, 1, 0, 0>>>>,
   large     |-> [y \in 1 .. 20 |-> [x \in 1 .. 20 |-> IF y > 5 THEN 2 ELSE 0]]]

To(d, c) == [device_index |-> d, device_channel |-> c]

Of(n, depth, crop) == [count |-> n, depth |-> depth, crop |-> crop]

Off == [depth |-> 20]

Section(t, b, l, r, mt, mb, ml, mr) ==
  [capture  |-> [type |-> "opencv", filename |-> "/dev/video0",
                 top |-> t, bottom |-> b, left |-> l, right |-> r],
   mappings |-> [top |-> mt, bottom |-> mb, left |-> ml, right |-> mr]]

(* Every channel has its source, and the bars are cropped; two sources      *)
(* share a channel and device 1 has none; a mapping is missing; a device    *)
(* does not exist; a channel does not; the crops are larger than a picture; *)
(* three sides are left out of the file; one of them is left out and not    *)
(* mapped; the file has a mapping without a channel.                        *)
MCSections ==
  { Section(Of(1, 1, 1), Of(1, 1, 1), Of(1, 1, 0), Of(1, 2, 0),
            <<To(1, 0)>>, <<To(0, 1)>>, <<To(0, 1)>>, <<To(0, 0)>>),
    Section(Of(2, 1, 0), Of(1, 1, 1), Of(1, 1, 1), Off,
            <<To(0, 0), To(0, 1)>>, <<To(0, 1)>>, <<To(0, 0)>>, <<>>),
    Section(Off, Of(2, 2, 0), [count |-> 1, depth |-> 2], [count |-> 0],
            <<>>, <<To(0, 0)>>, <<To(0, 1)>>, <<>>),
    Section(Of(1, 2, 0), Off, Of(1, 1, 0), Of(1, 1, 0),
            <<To(0, 1)>>, <<>>, <<To(2, 0)>>, <<To(0, 1)>>),
    Section(Of(1, 1, 0), Off, Of(2, 2, 0), Of(1, 3, 0),
            <<To(0, 0)>>, <<>>, <<To(0, 1), To(1, 0)>>, <<To(1, 1)>>),
    Section(Of(2, 1, 0), Off, Of(1, 1, 3), Of(1, 1, 4),
            <<To(0, 0), To(0, 1)>>, <<>>, <<To(1, 0)>>, <<To(1, 0)>>),
    [capture  |-> [type |-> "opencv", index |-> 0, left |-> Of(2, 4, 0)],
     mappings |-> [left |-> <<To(0, 0), To(0, 1)>>, top |-> <<To(1, 0)>>,
                   bottom |-> <<To(1, 0)>>, right |-> <<To(1, 0)>>]],
    [capture  |-> [type |-> "opencv", top |-> Of(2, 4, 0), left |-> Off, right |-> Off],
     mappings |-> [top |-> <<To(0, 0), To(0, 1)>>]],
    [capture  |-> [type |-> "opencv"],
     mappings |-> [top |-> <<[device_index |-> 0]>>]] }

Request(op, d, c, cs) == [op |-> op, device |-> d, channel |-> c, colors |-> cs]

MCUserCalls ==
  { Request("setChannel", 0, 1, <<3>>),
    Request("setChannels", 1, 0, <<0>>) }

===============================================================================
