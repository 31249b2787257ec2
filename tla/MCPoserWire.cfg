SPECIFICATION Spec
INVARIANT ChecksumIsSumMod256
INVARIANT IntParamRoundTrip
