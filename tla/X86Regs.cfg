\* reg_read / reg_write on the GPR views in every mode, against X86RegFile.
CONSTANTS
  ByteBits <- MCByteBits
  Gprs <- MCGprs
  Modes <- MCModes
SPECIFICATION Spec
PROPERTY GprViews
