--------------------------- MODULE MCGuestMemory ---------------------------
(***************************************************************************)
(* GuestMemory on an address space of a few pages of two bytes.            *)
(***************************************************************************)
EXTENDS GuestMemoryClient

\* One image of two guest pages; the fallback window is a page larger and
\* can lie below the image, on it or above it.
ImagesDef == {<<4, 8, 6>>}

\* One page, the whole image, a range across a page boundary that reaches past
\* the image (inside a biased window, outside an identity one), a page near the
\* top of user space.
RangesDef == {<<4, 2>>, <<4, 4>>, <<7, 2>>, <<12, 2>>}
AccessesDef == {<<5, 2>>, <<6, 1>>}

\* For host pages of four bytes: the image and its ranges lie inside host
\* pages, one range straddles two of them, one is outside an identity window.
\* <<22, 2>> ends exactly at the top of the address space, <<6, 22>> and
\* <<21, 8>> pass it, <<23, 1>> is the last byte.
WideImagesDef == {<<4, 10, 6>>}
WideRangesDef == {<<4, 2>>, <<6, 4>>, <<12, 2>>, <<22, 2>>, <<6, 22>>, <<21, 8>>}
WideAccessesDef == {<<4, 1>>, <<7, 2>>, <<23, 1>>}
WideHostOwnedDef == {0}
WideHostChurnDef == {8}

ProtsDef == {{"r", "w"}, {"r"}}
HostOwnedDef == {0}
HostChurnDef == {6}
=============================================================================
