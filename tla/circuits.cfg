\* The SPI master, the I2S slave and the stream interfaces of the AES core, one at a time.
SPECIFICATION BenchSpec
CONSTANTS
  WIDTH = 4
  CLOCK_DIVISOR = 4
  TDATA_WIDTH = 8
  HalfMin = 2
  HalfMax = 4
  Words = 3
PROPERTIES
  SpiTransfersWords
  TakenWordPlayed
  WordsEnciphered
