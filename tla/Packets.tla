-------------------------------- MODULE Packets --------------------------------
(***************************************************************************)
(* What the LED devices are sent: writeBuffer() of the classes AtmoLight,  *)
(* KarateLight (src/atmodevice/serial_devices.cpp) and DotStar             *)
(* (spi_devices.cpp), byte by byte, and what the hardware makes of it.     *)
(* The channels of a device are a function from 0 .. n-1 to colours.       *)
(***************************************************************************)
EXTENDS Integers, Sequences, FiniteSets

Byte == 0 .. 255

RGB == [red : Byte, green : Byte, blue : Byte]

DeviceType == {"AtmoLight", "KarateLight", "DotStar"}

ATMOLIGHT_HEADER == <<255, 0, 0, 15, 0, 0, 0>>
ATMOLIGHT_PACKET_SIZE == Len(ATMOLIGHT_HEADER) + 4 * 3
KARATELIGHT_HEADER == <<170, 18, 0, 48>>
KARATELIGHT_PACKET_SIZE == 52
KARATELIGHT_CHECKSUM_BYTE_POS == 2
DOTSTAR_START_FRAME == <<0, 0, 0, 0>>
DOTSTAR_END_FRAME == <<255, 255, 255, 255>>
DOTSTAR_FRAME_LENGTH == 4
DOTSTAR_BRIGHTNESS == 224

-------------------------------------------------------------------------------
(* A header and then the frame of each channel, in a buffer that was        *)
(* resized to its size and so filled with zeros before.                     *)
Buffer(size, header, length, frames) ==
  [k \in 1 .. size |->
     LET n == k - Len(header) - 1
         i == n \div length
     IN  IF n < 0 THEN header[k]
         ELSE IF i \in DOMAIN frames THEN frames[i][(n % length) + 1] ELSE 0]

(* The exclusive or of all bytes: a bit is set if an odd number of them has *)
(* it.                                                                      *)
HasBit(byte, value) == (byte \div value) % 2 = 1

calculateChecksum(buffer) ==
  LET Bit(value) ==
        value * (Cardinality({k \in DOMAIN buffer : HasBit(buffer[k], value)}) % 2)
  IN  Bit(1) + Bit(2) + Bit(4) + Bit(8) + Bit(16) + Bit(32) + Bit(64) + Bit(128)

AtmoLightBuffer(m) ==
  Buffer(ATMOLIGHT_PACKET_SIZE, ATMOLIGHT_HEADER, 3,
         [i \in DOMAIN m |-> <<m[i].red, m[i].green, m[i].blue>>])

(* Mutant of KarateLightBuffer: the checksum is left out.                   *)
KarateLightBufferUnsummed(m) ==
  Buffer(KARATELIGHT_PACKET_SIZE, KARATELIGHT_HEADER, 3,
         [i \in DOMAIN m |-> <<m[i].green, m[i].blue, m[i].red>>])

(* Mutant of KarateLightBuffer: the components in the order of AtmoLight.   *)
KarateLightBufferRGB(m) ==
  LET buffer == Buffer(KARATELIGHT_PACKET_SIZE, KARATELIGHT_HEADER, 3,
                       [i \in DOMAIN m |-> <<m[i].red, m[i].green, m[i].blue>>])
  IN  [buffer EXCEPT ![KARATELIGHT_CHECKSUM_BYTE_POS + 1] = calculateChecksum(buffer)]

(* The checksum is computed while its own byte is zero.                     *)
KarateLightBuffer(m) ==
  LET buffer == Buffer(KARATELIGHT_PACKET_SIZE, KARATELIGHT_HEADER, 3,
                       [i \in DOMAIN m |-> <<m[i].green, m[i].blue, m[i].red>>])
  IN  [buffer EXCEPT ![KARATELIGHT_CHECKSUM_BYTE_POS + 1] = calculateChecksum(buffer)]

(* Mutant of computeDotStarBrightness: one step too many.                   *)
BrightnessIn32Steps(c) == (32 * (c.red + c.green + c.blue)) \div (3 * 255)

(* intensity * 31 in floating point, truncated.  The exact value is only    *)
(* an integer for black and for white and otherwise at least 1/765 away     *)
(* from one, far more than the rounding error.                              *)
computeDotStarBrightness(c) == (31 * (c.red + c.green + c.blue)) \div (3 * 255)

(* The three bits of DOTSTAR_BRIGHTNESS and the five of a brightness do not *)
(* overlap, so that | adds them.                                            *)
DotStarBuffer(m) ==
  LET size == Len(DOTSTAR_START_FRAME) + Cardinality(DOMAIN m) * DOTSTAR_FRAME_LENGTH
  IN  Buffer(size, DOTSTAR_START_FRAME, DOTSTAR_FRAME_LENGTH,
             [i \in DOMAIN m |-> <<DOTSTAR_BRIGHTNESS + computeDotStarBrightness(m[i]),
                                   m[i].blue, m[i].green, m[i].red>>])
        \o DOTSTAR_END_FRAME

writeBuffer(type, m) ==
  CASE type = "AtmoLight"   -> AtmoLightBuffer(m)
    [] type = "KarateLight" -> KarateLightBuffer(m)
    [] type = "DotStar"     -> DotStarBuffer(m)

-------------------------------------------------------------------------------
(***************************************************************************)
(* The hardware, which is external: channel i of a device that receives a  *)
(* packet shows a colour at a brightness.                                  *)
(***************************************************************************)
FullBrightness == 31

LED(r, g, b, brightness) ==
  [color |-> [red |-> r, green |-> g, blue |-> b], brightness |-> brightness]

Received(type, p, i) ==
  CASE type = "AtmoLight" ->
         LED(p[3 * i + 8], p[3 * i + 9], p[3 * i + 10], FullBrightness)
    [] type = "KarateLight" ->
         LED(p[3 * i + 7], p[3 * i + 5], p[3 * i + 6], FullBrightness)
    [] type = "DotStar" ->
         LED(p[4 * i + 8], p[4 * i + 7], p[4 * i + 6], p[4 * i + 5] - DOTSTAR_BRIGHTNESS)

===============================================================================
